---------------------------- MODULE SignalingProofs ----------------------------
(***************************************************************************)
(* Theorems about Signaling: when an agent holds a credential.             *)
(*                                                                         *)
(* Which credentials an agent will hold depends on what is still in its    *)
(* control stream, so none of the properties is inductive.  The proof goes *)
(* in three layers, each of which uses the ones below it: the types, the   *)
(* phases of the handlers (who has a session, a route, a peer entry), and  *)
(* the streams, where every message about a session was written by the     *)
(* session's own handler, in the order of its steps.                       *)
(***************************************************************************)
EXTENDS Signaling, SequenceTheorems, FiniteSetTheorems, TLAPS

-----------------------------------------------------------------------------
(* The invariants.                                                         *)

TypeInv == TypeOK /\ IsFiniteSet(sessions)

\* A handler has its session, its route and the writer it copied only while it
\* runs, and only in the steps between getting them and giving them up.
SessionIsServed ==
  \A c \in sessions :
    pc[c] \in {"inserted", "notified", "routed", "serving", "forwarding", "closeSession"}
RouteIsServed ==
  \A t \in Targets : \A c \in routes[t] :
    /\ t = route[c]
    /\ pc[c] \in {"routed", "serving", "forwarding", "closeSession", "writeClose", "unroute"}
WriterIsKnown ==
  \A c \in Controllers : pc[c] \notin {"idle", "looked", "done"} => writer[c] \in Targets

\* Only a connection that has registered as peer is written to.
PeerHasRegistered ==
  \A t \in Targets : tpc[t] \in {"idle", "online"} =>
    peer # t /\ \A c \in Controllers : writer[c] # t

\* A handler that has lost its session to UnregisterPeer writes to a connection
\* that is closed, or at whose other end nobody reads any more.
LostSessionIsDead ==
  \A c \in Controllers :
    (/\ pc[c] \in {"inserted", "notified", "routed", "serving", "forwarding", "closeSession"}
     /\ c \notin sessions) => ~tAlive[writer[c]] \/ agent[writer[c]] = "down"

PhaseInv ==
  /\ SessionIsServed /\ RouteIsServed /\ WriterIsKnown
  /\ PeerHasRegistered /\ LostSessionIsDead

\* What was written about a session, its handler wrote to its own agent; the
\* SESSION_CLOSE is the last thing it writes.
Told == {"notified", "routed", "serving", "forwarding", "closeSession", "writeClose",
         "unroute", "done"}
About(c) == {Message("NOTIFY", c), Message("CANDIDATES", c), Message("CLOSE", c)}
MessagesAreOwn ==
  \A t \in Targets, c \in Controllers : \A i \in 1 .. Len(toTarget[t]) :
    toTarget[t][i] \in About(c) =>
      /\ writer[c] = t /\ pc[c] \in Told
      /\ toTarget[t][i] = Message("CLOSE", c) => pc[c] \in {"unroute", "done"}
RegistryIsOwn ==
  \A t \in Targets : \A c \in registry[t] : writer[c] = t /\ pc[c] \in Told

\* A controller is answered after its agent has been notified.
AnswerComesLast ==
  \A c \in Controllers :
    (client[c] = "connected" \/ \E i \in 1 .. Len(toCtl[c]) : toCtl[c][i] = "RESPONSE") =>
      pc[c] \notin {"idle", "looked", "read", "inserted", "notified", "routed"}

\* What the agent will hold after the control stream q, if it holds r now.
Speaks(q, i, c) == q[i] \in {Message("NOTIFY", c), Message("CLOSE", c)}
Holds(q, r, c) ==
  \/ c \in r /\ \A i \in 1 .. Len(q) : ~Speaks(q, i, c)
  \/ \E i \in 1 .. Len(q) : /\ q[i] = Message("NOTIFY", c)
                            /\ \A j \in i + 1 .. Len(q) : ~Speaks(q, j, c)

\* NoStaleCredential and CredentialIsKnown, already before the agent has read
\* its PORT_ASSIGN and whether or not the controller has been answered.
WillBeRevoked ==
  \A t \in Targets, c \in Controllers :
    (tAlive[t] /\ agent[t] # "down" /\ Holds(toTarget[t], registry[t], c)) =>
      c \in sessions \/ pc[c] = "writeClose"
WillBeKnown ==
  \A c \in sessions :
    (pc[c] # "inserted" /\ tAlive[writer[c]] /\ agent[writer[c]] # "down") =>
      Holds(toTarget[writer[c]], registry[writer[c]], c)

\* A refresh comes after the CONNECT_NOTIFY and before the SESSION_CLOSE.
RefreshIsBetween ==
  \A t \in Targets, c \in Controllers : agent[t] # "down" =>
    \A i \in 1 .. Len(toTarget[t]) :
      toTarget[t][i] = Message("CANDIDATES", c) =>
        /\ c \in registry[t] \/ \E j \in 1 .. i - 1 : toTarget[t][j] = Message("NOTIFY", c)
        /\ \A j \in 1 .. i - 1 : toTarget[t][j] # Message("CLOSE", c)

StreamInv ==
  /\ MessagesAreOwn /\ RegistryIsOwn
  /\ WillBeRevoked /\ WillBeKnown /\ RefreshIsBetween

-----------------------------------------------------------------------------
(* The types.                                                              *)

LEMMA SendTargetType ==
  ASSUME TypeOK, NEW t, NEW msg \in TargetMessages, SendTarget(t, msg)
  PROVE  toTarget' \in [Targets -> Seq(TargetMessages)]
<1>1. ASSUME t \in Targets
      PROVE  Append(toTarget[t], msg) \in Seq(TargetMessages)
  BY <1>1, AppendProperties DEF TypeOK
<1> QED
  BY <1>1 DEF SendTarget, TypeOK

LEMMA SendControllerType ==
  ASSUME TypeOK, NEW c \in Controllers, NEW type \in ControllerMessages, SendController(c, type)
  PROVE  toCtl' \in [Controllers -> Seq(ControllerMessages)]
<1>1. Append(toCtl[c], type) \in Seq(ControllerMessages)
  BY AppendProperties DEF TypeOK
<1> QED
  BY <1>1 DEF SendController, TypeOK

LEMMA MessageTypes ==
  /\ Assign \in TargetMessages
  /\ \A c \in Controllers : About(c) \subseteq TargetMessages
  /\ {"RESPONSE", "ERROR", "CANDIDATES", "CLOSE"} = ControllerMessages
BY DEF Assign, TargetMessages, About, Message, ControllerMessages

LEMMA ControllerTypes == ASSUME TypeInv, NEW c \in Controllers, ControllerStep(c) PROVE TypeInv'
<1> USE DEF TypeInv, Goto, ctlVars, targetVars, tableVars, wireVars, endVars
<1>1. /\ Message("NOTIFY", c) \in TargetMessages /\ Message("CLOSE", c) \in TargetMessages
      /\ Message("CANDIDATES", c) \in TargetMessages
  BY MessageTypes DEF About
<1>2. /\ Cardinality(sessions) \in Nat /\ IsFiniteSet(sessions \cup {c})
      /\ IsFiniteSet(sessions \ {c})
      /\ Cardinality(sessions \ {c}) \in Nat /\ Cardinality(sessions \ {c}) <= Cardinality(sessions)
      /\ Cardinality(sessions \cup {c}) <= Cardinality(sessions) + 1
      /\ Cardinality(sessions \cup {c}) \in Nat
  <2>1. IsFiniteSet(sessions)
    OBVIOUS
  <2>2. Cardinality(sessions) \in Nat
    BY <2>1, FS_CardinalityType
  <2>3. /\ IsFiniteSet(sessions \cup {c})
        /\ Cardinality(sessions \cup {c}) =
             IF c \in sessions THEN Cardinality(sessions) ELSE Cardinality(sessions) + 1
    BY <2>1, FS_AddElement
  <2>4. /\ IsFiniteSet(sessions \ {c})
        /\ Cardinality(sessions \ {c}) =
             IF c \in sessions THEN Cardinality(sessions) - 1 ELSE Cardinality(sessions)
    BY <2>1, FS_RemoveElement
  <2>5. Cardinality(sessions \ {c}) \in Nat
    BY <2>4, FS_CardinalityType
  <2> QED
    BY <2>2, <2>3, <2>4, <2>5
<1>3. ASSUME Refuse(c)
      PROVE  /\ toCtl' \in [Controllers -> Seq(ControllerMessages)]
             /\ pc' \in [Controllers -> HandlerStates]
             /\ ctlAlive' \in [Controllers -> BOOLEAN]
  BY <1>3, SendControllerType, MessageTypes DEF Refuse, Return, TypeOK, HandlerStates
<1>4. CASE LookUp(c)
  <2>1. /\ pc' \in [Controllers -> HandlerStates]
        /\ route' \in [Controllers -> Targets \cup {NoTarget}]
        /\ ctlAlive' \in [Controllers -> BOOLEAN]
        /\ toCtl' \in [Controllers -> Seq(ControllerMessages)]
    <3>1. CASE Refuse(c) /\ UNCHANGED route
      BY <1>3, <3>1 DEF TypeOK
    <3>2. CASE /\ route' = [route EXCEPT ![c] = agents] /\ Goto(c, "looked")
               /\ UNCHANGED <<ctlAlive, toCtl>>
      BY <3>2 DEF TypeOK, HandlerStates
    <3> QED
      BY <1>4, <3>1, <3>2 DEF LookUp
  <2> QED
    BY <1>4, <2>1 DEF LookUp, TypeOK
<1>5. CASE ReadPeer(c)
  <2>1. /\ pc' \in [Controllers -> HandlerStates]
        /\ writer' \in [Controllers -> Targets \cup {NoTarget}]
        /\ ctlAlive' \in [Controllers -> BOOLEAN]
        /\ toCtl' \in [Controllers -> Seq(ControllerMessages)]
    <3>1. CASE Refuse(c) /\ UNCHANGED writer
      BY <1>3, <3>1 DEF TypeOK
    <3>2. CASE UNCHANGED <<ctlAlive, toCtl>>
      BY <1>5, <3>2 DEF ReadPeer, Refuse, Return, TypeOK, HandlerStates
    <3> QED
      BY <1>5, <3>1, <3>2 DEF ReadPeer
  <2> QED
    BY <1>5, <2>1 DEF ReadPeer, TypeOK
<1>6. CASE Insert(c)
  BY <1>2, <1>6, SignalingAssumption DEF Insert, TypeOK, HandlerStates
<1>7. CASE LimitExceeded(c)
  BY <1>3, <1>7 DEF LimitExceeded, TypeOK, HandlerStates
<1>8. CASE Notify(c)
  BY <1>1, <1>8, SendTargetType DEF Notify, TypeOK, HandlerStates
<1>9. CASE NotifyFails(c)
  BY <1>2, <1>3, <1>9, SignalingAssumption DEF NotifyFails, TypeOK
<1>10. CASE AddRoute(c)
  BY <1>10 DEF AddRoute, TypeOK, HandlerStates
<1>11. CASE Respond(c)
  BY <1>11, SendControllerType, MessageTypes DEF Respond, TypeOK, HandlerStates
<1>12. CASE ForwardRefresh(c)
  BY <1>1, <1>12, SendTargetType DEF ForwardRefresh, TypeOK, HandlerStates
<1>13. CASE ControllerGone(c)
  BY <1>13 DEF ControllerGone, TypeOK, HandlerStates
<1>14. CASE CloseSession(c)
  BY <1>2, <1>14, SignalingAssumption DEF CloseSession, TypeOK, HandlerStates
<1>15. CASE WriteClose(c)
  BY <1>1, <1>15, SendTargetType DEF WriteClose, TypeOK, HandlerStates
<1>16. CASE RemoveRoute(c)
  BY <1>16 DEF RemoveRoute, Return, TypeOK, HandlerStates
<1> QED
  BY <1>4, <1>5, <1>6, <1>7, <1>8, <1>9, <1>10, <1>11, <1>12, <1>13, <1>14, <1>15, <1>16
  DEF ControllerStep

LEMMA TargetTypes == ASSUME TypeInv, NEW t \in Targets, TargetStep(t) PROVE TypeInv'
<1> USE DEF TypeInv, TGoto, ctlVars, targetVars, tableVars, wireVars, endVars
<1>1. CASE RegisterPeer(t)
  BY <1>1 DEF RegisterPeer, TypeOK, TargetStates
<1>2. CASE AssignPort(t)
  BY <1>2, SendTargetType, MessageTypes DEF AssignPort, TypeOK, TargetStates
<1>3. CASE ReadCandidates(t)
  <2>1. Tail(fromTarget[t]) \in Seq(Controllers) /\ Head(fromTarget[t]) \in Controllers
    BY <1>3, HeadTailProperties DEF ReadCandidates, TypeOK
  <2>2. /\ fwd' \in [Targets -> SUBSET Controllers]
        /\ fromTarget' \in [Targets -> Seq(Controllers)]
    BY <1>3, <2>1 DEF ReadCandidates, TypeOK
  <2> QED
    BY <1>3, <2>2 DEF ReadCandidates, TypeOK
<1>4. CASE ForwardCandidates(t)
  <2>1. PICK c \in fwd[t] : SendController(c, "CANDIDATES")
    BY <1>4 DEF ForwardCandidates
  <2>2. c \in Controllers /\ fwd' \in [Targets -> SUBSET Controllers]
    BY <1>4 DEF ForwardCandidates, TypeOK
  <2>3. toCtl' \in [Controllers -> Seq(ControllerMessages)]
    BY <2>1, <2>2, SendControllerType, MessageTypes
  <2> QED
    BY <1>4, <2>2, <2>3 DEF ForwardCandidates, TypeOK
<1>5. CASE UnregisterPeer(t)
  <2> DEFINE mine == {c \in sessions : writer[c] = t}
  <2>1. sessions' = sessions \ mine /\ notifying' = [notifying EXCEPT ![t] = mine]
    BY <1>5 DEF UnregisterPeer
  <2>2. sessions' \in SUBSET sessions /\ IsFiniteSet(sessions)
    BY <2>1
  <2>3. /\ IsFiniteSet(sessions') /\ Cardinality(sessions') <= Cardinality(sessions)
        /\ Cardinality(sessions') \in Nat /\ Cardinality(sessions) \in Nat
    BY <2>2, FS_Subset, FS_CardinalityType
  <2>4. /\ peer' \in Targets \cup {NoTarget}
        /\ notifying' \in [Targets -> SUBSET Controllers]
        /\ tpc' \in [Targets -> TargetStates]
    BY <1>5, <2>1 DEF UnregisterPeer, TypeOK, TargetStates
  <2>5. others' + Cardinality(sessions') <= MaxSessions /\ sessions' \subseteq Controllers
    BY <1>5, <2>1, <2>3, SignalingAssumption DEF UnregisterPeer, TypeOK
  <2> QED
    BY <1>5, <2>3, <2>4, <2>5 DEF UnregisterPeer, TypeOK
<1>6. CASE NotifyController(t)
  <2>1. PICK c \in notifying[t] : /\ SendController(c, "CLOSE")
                                  /\ notifying' = [notifying EXCEPT ![t] = @ \ {c}]
    BY <1>6 DEF NotifyController
  <2>2. c \in Controllers /\ notifying' \in [Targets -> SUBSET Controllers]
    BY <2>1 DEF TypeOK
  <2>3. toCtl' \in [Controllers -> Seq(ControllerMessages)]
    BY <2>1, <2>2, SendControllerType, MessageTypes
  <2> QED
    BY <1>6, <2>2, <2>3 DEF NotifyController, TypeOK
<1>7. CASE Offline(t)
  BY <1>7 DEF Offline, TypeOK, TargetStates
<1>8. CASE CloseAgent(t)
  BY <1>8 DEF CloseAgent, TypeOK, TargetStates
<1> QED
  BY <1>1, <1>2, <1>3, <1>4, <1>5, <1>6, <1>7, <1>8 DEF TargetStep

LEMMA ProgramTypes ==
  ASSUME TypeInv,
         \/ \E c \in Controllers : ClientReads(c)
         \/ \E t \in Targets : AgentReads(t)
         \/ Environment
  PROVE  TypeInv'
<1> USE DEF TypeInv, TGoto, Goto, ctlVars, targetVars, tableVars, wireVars, endVars
<1>1. ASSUME NEW c \in Controllers, ClientReads(c) PROVE TypeInv'
  <2>1. Tail(toCtl[c]) \in Seq(ControllerMessages)
    BY <1>1, HeadTailProperties DEF ClientReads, TypeOK
  <2>2. toCtl' \in [Controllers -> Seq(ControllerMessages)]
    BY <1>1, <2>1 DEF ClientReads, TypeOK
  <2>3. client' \in [Controllers -> ClientStates]
    BY <1>1 DEF ClientReads, TypeOK, ClientStates
  <2> QED
    BY <1>1, <2>2, <2>3 DEF ClientReads, TypeOK
<1>2. ASSUME NEW t \in Targets, AgentReads(t) PROVE TypeInv'
  <2>1. Tail(toTarget[t]) \in Seq(TargetMessages) /\ Head(toTarget[t]) \in TargetMessages
    BY <1>2, HeadTailProperties DEF AgentReads, TypeOK
  <2>2. toTarget' \in [Targets -> Seq(TargetMessages)]
    BY <1>2, <2>1 DEF AgentReads, TypeOK
  <2>3. CASE agent[t] = "waiting" /\ UNCHANGED registry
    BY <1>2, <2>2, <2>3 DEF AgentReads, TypeOK, AgentStates
  <2>4. CASE agent[t] = "up" /\ UNCHANGED agent
    <3> DEFINE msg == Head(toTarget[t])
    <3>1. \/ msg.type = "NOTIFY" /\ msg.session \in Controllers
          \/ msg.type = "CLOSE" /\ msg.session \in Controllers
          \/ msg.type \notin {"NOTIFY", "CLOSE"}
      BY <2>1 DEF TargetMessages, Assign
    <3>2. registry' = [registry EXCEPT ![t] = CASE msg.type = "NOTIFY" -> @ \cup {msg.session}
                                                [] msg.type = "CLOSE"  -> @ \ {msg.session}
                                                [] OTHER               -> @]
      BY <1>2, <2>4 DEF AgentReads
    <3>3. \E r \in SUBSET Controllers : registry' = [registry EXCEPT ![t] = r]
      <4> HIDE DEF msg
      <4>1. registry[t] \subseteq Controllers
        BY DEF TypeOK
      <4> QED
        BY <3>1, <3>2, <4>1
    <3>4. registry' \in [Targets -> SUBSET Controllers]
      BY <3>3 DEF TypeOK
    <3> QED
      BY <1>2, <2>2, <2>4, <3>4 DEF AgentReads, TypeOK
  <2> QED
    BY <1>2, <2>3, <2>4 DEF AgentReads
<1>3. CASE OtherSessions
  BY <1>3, FS_CardinalityType DEF OtherSessions, TypeOK
<1>4. ASSUME NEW c \in Controllers, Request(c) PROVE TypeInv'
  BY <1>4 DEF Request, TypeOK, ClientStates
<1>5. ASSUME NEW c \in Controllers, ReadRefresh(c) PROVE TypeInv'
  BY <1>5, SignalingAssumption DEF ReadRefresh, TypeOK, HandlerStates
<1>6. ASSUME NEW c \in Controllers, ClientEnds(c) PROVE TypeInv'
  BY <1>6, EmptySeq DEF ClientEnds, TypeOK, ClientStates
<1>7. ASSUME NEW c \in Controllers, ControllerLost(c) PROVE TypeInv'
  BY <1>7 DEF ControllerLost, TypeOK
<1>8. ASSUME NEW c \in Controllers, Revoke(c) PROVE TypeInv'
  BY <1>8 DEF Revoke, TypeOK
<1>9. ASSUME NEW t \in Targets, Online(t) PROVE TypeInv'
  BY <1>9 DEF Online, TypeOK, TargetStates, AgentStates
<1>10. ASSUME NEW t \in Targets, AgentRefreshes(t) PROVE TypeInv'
  <2>1. PICK c \in registry[t] : fromTarget' = [fromTarget EXCEPT ![t] = Append(@, c)]
    BY <1>10 DEF AgentRefreshes
  <2>2. Append(fromTarget[t], c) \in Seq(Controllers)
    BY AppendProperties DEF TypeOK
  <2> QED
    BY <1>10, <2>1, <2>2, SignalingAssumption DEF AgentRefreshes, TypeOK
<1>11. ASSUME NEW t \in Targets, AgentEnds(t) PROVE TypeInv'
  BY <1>11, EmptySeq DEF AgentEnds, TypeOK, AgentStates
<1>12. ASSUME NEW t \in Targets, AgentLost(t) PROVE TypeInv'
  BY <1>12 DEF AgentLost, TypeOK
<1> QED
  BY <1>1, <1>2, <1>3, <1>4, <1>5, <1>6, <1>7, <1>8, <1>9, <1>10, <1>11, <1>12 DEF Environment

LEMMA InitTypes == Init => TypeInv
BY SignalingAssumption, FS_EmptySet, EmptySeq
DEF Init, TypeInv, TypeOK, HandlerStates, TargetStates, ClientStates, AgentStates

LEMMA NextTypes == TypeInv /\ [Next]_vars => TypeInv'
<1> SUFFICES ASSUME TypeInv, [Next]_vars PROVE TypeInv'
  OBVIOUS
<1>1. CASE UNCHANGED vars
  BY <1>1 DEF vars, ctlVars, targetVars, tableVars, wireVars, endVars, TypeInv, TypeOK
<1> QED
  BY <1>1, ControllerTypes, TargetTypes, ProgramTypes DEF Next

LEMMA TypesHold == Spec => []TypeInv
BY InitTypes, NextTypes, PTL DEF Spec

\* Every variable stays in its range; at no time does the relay keep more
\* sessions than its limit, although a session is counted in one critical
\* section and removed in others (server.go:194-207).
THEOREM TypeCorrect == Spec => []TypeOK
<1>1. TypeInv => TypeOK
  BY DEF TypeInv
<1> QED
  BY <1>1, TypesHold, PTL

-----------------------------------------------------------------------------
(* The phases of the handlers.                                             *)

\* What the phases speak about; a connection that is over at one of its ends
\* stays so.
phaseVars == <<pc, route, writer, tpc, peer, sessions, routes>>
StaysOver(t) == (tAlive'[t] => tAlive[t]) /\ (agent[t] = "down" => agent'[t] = "down")

LEMMA PhasesQuiet ==
  ASSUME PhaseInv, UNCHANGED phaseVars, \A t \in Targets : StaysOver(t)
  PROVE  PhaseInv'
BY DEF phaseVars, PhaseInv, SessionIsServed, RouteIsServed, WriterIsKnown, PeerHasRegistered,
       LostSessionIsDead, StaysOver

LEMMA ControllerPhases ==
  ASSUME TypeInv, PhaseInv, NEW c \in Controllers, ControllerStep(c) PROVE PhaseInv'
<1> USE DEF Goto, ctlVars, targetVars, tableVars, wireVars, endVars
<1>1. /\ UNCHANGED <<tpc, peer, tAlive, agent>>
      /\ \E l \in HandlerStates : pc' = [pc EXCEPT ![c] = l]
  BY DEF ControllerStep, LookUp, ReadPeer, Insert, LimitExceeded, Notify, NotifyFails, AddRoute,
         Respond, ForwardRefresh, ControllerGone, CloseSession, WriteClose, RemoveRoute,
         Refuse, Return, HandlerStates
<1>2. pc \in [Controllers -> HandlerStates]
  BY DEF TypeInv, TypeOK
<1>3. \A d \in Controllers : d # c => pc'[d] = pc[d]
  BY <1>1, <1>2
<1>4. CASE LookUp(c)
  <2>1. UNCHANGED <<writer, sessions, routes>> /\ pc[c] = "idle" /\ pc'[c] \in {"looked", "done"}
    BY <1>2, <1>4 DEF LookUp, Refuse, Return
  <2>2. \A d \in Controllers : d # c => route'[d] = route[d]
    BY <1>4 DEF LookUp, TypeInv, TypeOK
  <2> QED
    BY <1>1, <1>3, <2>1, <2>2 DEF TypeInv, TypeOK, PhaseInv, SessionIsServed, RouteIsServed,
       WriterIsKnown, PeerHasRegistered, LostSessionIsDead
<1>5. CASE ReadPeer(c)
  <2>1. UNCHANGED <<route, sessions, routes>> /\ pc[c] = "looked"
    BY <1>5 DEF ReadPeer
  <2>2. /\ \A d \in Controllers : d # c => writer'[d] = writer[d]
        /\ \/ pc'[c] = "read" /\ writer'[c] = peer /\ peer \in Targets
           \/ pc'[c] = "done" /\ writer' = writer
    BY <1>2, <1>5 DEF ReadPeer, Refuse, Return, TypeInv, TypeOK
  <2> QED
    BY <1>1, <1>3, <2>1, <2>2 DEF TypeInv, TypeOK, PhaseInv, SessionIsServed, RouteIsServed,
       WriterIsKnown, PeerHasRegistered, LostSessionIsDead
<1>6. CASE AddRoute(c) \/ RemoveRoute(c)
  <2>1. /\ UNCHANGED <<writer, route, sessions>>
        /\ \/ pc[c] = "notified" /\ pc'[c] = "routed"
           \/ pc[c] = "unroute" /\ pc'[c] = "done"
    BY <1>2, <1>6 DEF AddRoute, RemoveRoute, Return
  <2>2. \A t \in Targets : \/ t = route[c] /\ pc'[c] = "routed" /\ routes'[t] = routes[t] \cup {c}
                           \/ t = route[c] /\ pc'[c] = "done" /\ routes'[t] = routes[t] \ {c}
                           \/ t # route[c] /\ routes'[t] = routes[t]
    BY <1>2, <1>6 DEF AddRoute, RemoveRoute, Return, TypeInv, TypeOK
  <2>3. RouteIsServed'
    <3> SUFFICES ASSUME NEW t \in Targets, NEW d \in routes'[t]
                 PROVE  /\ t = route[d]
                        /\ pc'[d] \in {"routed", "serving", "forwarding", "closeSession",
                                      "writeClose", "unroute"}
      BY <2>1 DEF RouteIsServed
    <3>1. d \in routes[t] \/ (d = c /\ t = route[c] /\ pc'[c] = "routed")
      BY <2>2
    <3>2. d \in Controllers
      BY <3>1 DEF TypeInv, TypeOK
    <3>3. CASE d = c
      BY <2>1, <2>2, <3>1, <3>3 DEF PhaseInv, RouteIsServed
    <3> QED
      BY <1>3, <3>1, <3>2, <3>3 DEF PhaseInv, RouteIsServed
  <2>4. SessionIsServed' /\ LostSessionIsDead'
    BY <1>1, <1>3, <2>1 DEF TypeInv, TypeOK, PhaseInv, SessionIsServed, LostSessionIsDead
  <2>5. WriterIsKnown' /\ PeerHasRegistered'
    BY <1>1, <1>3, <2>1 DEF PhaseInv, WriterIsKnown, PeerHasRegistered
  <2> QED
    BY <2>3, <2>4, <2>5 DEF PhaseInv
<1>7. CASE Insert(c) \/ NotifyFails(c) \/ CloseSession(c)
  <2>1. /\ UNCHANGED <<writer, route, routes>>
        /\ \/ pc[c] = "read" /\ pc'[c] = "inserted" /\ sessions' = sessions \cup {c}
           \/ pc[c] = "inserted" /\ pc'[c] = "done" /\ sessions' = sessions \ {c}
           \/ /\ pc[c] = "closeSession" /\ pc'[c] \in {"writeClose", "unroute"}
              /\ sessions' = sessions \ {c}
    BY <1>2, <1>7 DEF Insert, NotifyFails, CloseSession, Refuse, Return
  <2> QED
    BY <1>1, <1>3, <2>1 DEF TypeInv, TypeOK, PhaseInv, SessionIsServed, RouteIsServed,
       WriterIsKnown, PeerHasRegistered, LostSessionIsDead
<1>8. CASE \/ LimitExceeded(c) \/ Notify(c) \/ Respond(c) \/ ForwardRefresh(c)
           \/ ControllerGone(c) \/ WriteClose(c)
  <2>1. /\ UNCHANGED <<writer, route, routes, sessions>>
        /\ \/ pc[c] = "read" /\ pc'[c] = "done"
           \/ pc[c] = "inserted" /\ pc'[c] = "notified"
           \/ pc[c] = "routed" /\ pc'[c] \in {"serving", "closeSession"}
           \/ pc[c] = "forwarding" /\ pc'[c] = "serving"
           \/ pc[c] = "serving" /\ pc'[c] = "closeSession"
           \/ pc[c] = "writeClose" /\ pc'[c] = "unroute"
    BY <1>2, <1>8 DEF LimitExceeded, Notify, Respond, ForwardRefresh, ControllerGone, WriteClose,
                      Refuse, Return
  <2> QED
    BY <1>1, <1>3, <2>1 DEF TypeInv, TypeOK, PhaseInv, SessionIsServed, RouteIsServed,
       WriterIsKnown, PeerHasRegistered, LostSessionIsDead
<1> QED
  BY <1>4, <1>5, <1>6, <1>7, <1>8 DEF ControllerStep

LEMMA TargetPhases ==
  ASSUME TypeInv, PhaseInv, NEW t \in Targets, TargetStep(t) \/ Online(t) PROVE PhaseInv'
<1> USE DEF TGoto, ctlVars, targetVars, tableVars, wireVars, endVars
<1>1. UNCHANGED <<pc, route, writer, routes>>
  BY DEF TargetStep, RegisterPeer, AssignPort, ReadCandidates, ForwardCandidates, UnregisterPeer,
         NotifyController, Offline, CloseAgent, Online
<1>2. \A u \in Targets : \/ tpc'[u] = tpc[u]
                         \/ u = t /\ tpc'[u] \notin {"idle", "online"}
                         \/ u = t /\ tpc'[u] = "online" /\ tpc[u] = "idle"
  BY DEF TypeInv, TypeOK, TargetStep, RegisterPeer, AssignPort, ReadCandidates, ForwardCandidates,
         UnregisterPeer, NotifyController, Offline, CloseAgent, Online
<1>3. CASE RegisterPeer(t)
  <2>1. peer' = t /\ tpc'[t] = "assign" /\ UNCHANGED <<sessions, tAlive, agent>>
    BY <1>3 DEF RegisterPeer, TypeInv, TypeOK
  <2> QED
    BY <1>1, <1>2, <2>1 DEF PhaseInv, SessionIsServed, RouteIsServed, WriterIsKnown,
       PeerHasRegistered, LostSessionIsDead
<1>4. CASE UnregisterPeer(t)
  <2>1. /\ peer' \in {peer, NoTarget} /\ UNCHANGED <<tAlive, agent>>
        /\ ~tAlive[t] \/ agent[t] = "down"
        /\ sessions' = sessions \ {c \in sessions : writer[c] = t}
    BY <1>4 DEF UnregisterPeer, ReadFails
  <2> QED
    BY <1>1, <1>2, <2>1, SignalingAssumption DEF PhaseInv, SessionIsServed, RouteIsServed,
       WriterIsKnown, PeerHasRegistered, LostSessionIsDead
<1>5. CASE Online(t)
  <2>1. /\ UNCHANGED <<peer, sessions>> /\ tpc[t] = "idle"
        /\ \A u \in Targets : u # t => StaysOver(u)
    BY <1>5 DEF Online, StaysOver, TypeInv, TypeOK
  <2> QED
    BY <1>1, <1>2, <2>1 DEF PhaseInv, SessionIsServed, RouteIsServed,
       WriterIsKnown, PeerHasRegistered, LostSessionIsDead, StaysOver
<1>6. CASE AssignPort(t) \/ ReadCandidates(t) \/ ForwardCandidates(t) \/ NotifyController(t)
           \/ Offline(t) \/ CloseAgent(t)
  <2>1. /\ UNCHANGED <<peer, sessions, agent>>
        /\ \A u \in Targets : tAlive'[u] => tAlive[u]
    BY <1>6 DEF AssignPort, ReadCandidates, ForwardCandidates, NotifyController, Offline,
                CloseAgent, TypeInv, TypeOK
  <2> QED
    BY <1>1, <1>2, <2>1 DEF PhaseInv, SessionIsServed, RouteIsServed,
       WriterIsKnown, PeerHasRegistered, LostSessionIsDead
<1> QED
  BY <1>3, <1>4, <1>5, <1>6 DEF TargetStep

LEMMA NextPhases == TypeInv /\ PhaseInv /\ [Next]_vars => PhaseInv'
<1> SUFFICES ASSUME TypeInv, PhaseInv, [Next]_vars PROVE PhaseInv'
  OBVIOUS
<1> USE DEF ctlVars, targetVars, tableVars, wireVars, endVars, phaseVars
<1>1. CASE UNCHANGED vars
  BY <1>1, PhasesQuiet DEF vars, PhaseInv, StaysOver
<1>2. ASSUME NEW c \in Controllers, ReadRefresh(c) PROVE PhaseInv'
  <2>1. /\ UNCHANGED <<route, writer, tpc, peer, sessions, routes, tAlive, agent>>
        /\ pc[c] = "serving" /\ pc' = [pc EXCEPT ![c] = "forwarding"]
    BY <1>2 DEF ReadRefresh, Goto
  <2> QED
    BY <2>1 DEF TypeInv, TypeOK, PhaseInv, SessionIsServed, RouteIsServed,
       WriterIsKnown, PeerHasRegistered, LostSessionIsDead
<1>3. ASSUME NEW c \in Controllers,
             ClientReads(c) \/ Request(c) \/ ClientEnds(c) \/ ControllerLost(c) \/ Revoke(c)
      PROVE  PhaseInv'
  <2>1. UNCHANGED <<phaseVars, tAlive, agent>>
    BY <1>3 DEF ClientReads, Request, ClientEnds, ControllerLost, Revoke
  <2> QED
    BY <2>1, PhasesQuiet DEF PhaseInv, StaysOver
<1>4. ASSUME NEW t \in Targets, AgentReads(t) \/ AgentRefreshes(t) \/ AgentEnds(t) \/ AgentLost(t)
      PROVE  PhaseInv'
  <2>1. UNCHANGED phaseVars /\ \A u \in Targets : StaysOver(u)
    BY <1>4 DEF AgentReads, AgentRefreshes, AgentEnds, AgentLost, StaysOver, TypeInv, TypeOK
  <2> QED
    BY <2>1, PhasesQuiet DEF PhaseInv, StaysOver
<1>5. CASE OtherSessions
  <2>1. UNCHANGED <<phaseVars, tAlive, agent>>
    BY <1>5 DEF OtherSessions
  <2> QED
    BY <2>1, PhasesQuiet DEF PhaseInv, StaysOver
<1> QED
  BY <1>1, <1>2, <1>3, <1>4, <1>5, ControllerPhases, TargetPhases DEF Next, Environment

LEMMA InitPhases == Init => PhaseInv
BY SignalingAssumption DEF Init, PhaseInv, SessionIsServed, RouteIsServed, WriterIsKnown,
   PeerHasRegistered, LostSessionIsDead

LEMMA PhasesHold == Spec => []PhaseInv
BY TypesHold, InitPhases, NextPhases, PTL DEF Spec

\* Whichever way the handler of a CONNECT_REQUEST ends, its session and its
\* route are gone: what ReadPeer, Insert, AddRoute built up in this order, the
\* error returns and the deferred calls take down (agent_manager.go:380-400).
THEOREM HandlersCleanUp == Spec => []NothingOutlivesItsHandler
<1>1. TypeInv /\ PhaseInv => NothingOutlivesItsHandler
  BY DEF TypeInv, TypeOK, PhaseInv, SessionIsServed, RouteIsServed, NothingOutlivesItsHandler
<1> QED
  BY <1>1, TypesHold, PhasesHold, PTL

-----------------------------------------------------------------------------
(* Lemmas on Holds.                                                        *)

LEMMA WillHoldIsHolds ==
  ASSUME TypeOK, NEW t \in Targets, NEW c \in Controllers
  PROVE  WillHold(t, c) <=> Holds(toTarget[t], registry[t], c)
<1> DEFINE q == toTarget[t]
           about == {i \in DOMAIN q : Speaks(q, i, c)}
<1>1. DOMAIN q = 1 .. Len(q) /\ Len(q) \in Nat
  BY LenProperties DEF TypeOK
<1>2. Message("NOTIFY", c).type = "NOTIFY" /\ Message("CLOSE", c).type = "CLOSE"
  BY DEF Message
<1>3. WillHold(t, c) <=>
        IF about = {} THEN c \in registry[t]
        ELSE \E i \in about : q[i].type = "NOTIFY" /\ \A j \in about : j <= i
  BY DEF WillHold, Speaks
<1>4. \A i \in about : q[i].type = "NOTIFY" <=> q[i] = Message("NOTIFY", c)
  BY <1>2 DEF Speaks
<1>5. \A i \in about : (\A j \in about : j <= i) <=> \A j \in i + 1 .. Len(q) : ~Speaks(q, j, c)
  BY <1>1
<1>6. \A i \in 1 .. Len(q) : q[i] = Message("NOTIFY", c) => i \in about
  BY <1>1 DEF Speaks
<1>7. about = {} <=> \A i \in 1 .. Len(q) : ~Speaks(q, i, c)
  BY <1>1
<1> HIDE DEF about, q
<1>8. Holds(q, registry[t], c) <=>
        IF about = {} THEN c \in registry[t]
        ELSE \E i \in about : q[i].type = "NOTIFY" /\ \A j \in about : j <= i
  <2>1. about \subseteq 1 .. Len(q)
    BY <1>1 DEF about
  <2> QED
    BY <2>1, <1>4, <1>5, <1>6, <1>7 DEF Holds
<1> QED
  BY <1>3, <1>8 DEF q

\* A message about another session, or a refresh, changes nothing.
LEMMA HoldsOther ==
  ASSUME NEW q \in Seq(TargetMessages), NEW r, NEW c, NEW m \in TargetMessages,
         m \notin {Message("NOTIFY", c), Message("CLOSE", c)}
  PROVE  Holds(Append(q, m), r, c) <=> Holds(q, r, c)
<1>1. /\ Len(Append(q, m)) = Len(q) + 1 /\ Len(q) \in Nat
      /\ \A i \in 1 .. Len(q) : Append(q, m)[i] = q[i]
      /\ Append(q, m)[Len(q) + 1] = m
  BY AppendProperties, LenProperties
<1> DEFINE p == Append(q, m)
<1> HIDE DEF p
<1>2. \A i \in 1 .. Len(q) : Speaks(p, i, c) <=> Speaks(q, i, c)
  BY <1>1 DEF Speaks, p
<1>3. ~Speaks(p, Len(q) + 1, c) /\ p[Len(q) + 1] # Message("NOTIFY", c)
  BY <1>1 DEF Speaks, p
<1>4. \A i \in 1 .. Len(p) : i \in 1 .. Len(q) \/ i = Len(q) + 1
  BY <1>1 DEF p
<1>5. Len(p) = Len(q) + 1 /\ \A i \in 1 .. Len(q) : p[i] = q[i]
  BY <1>1 DEF p
<1> QED
  BY <1>1, <1>2, <1>3, <1>4, <1>5 DEF Holds, p

LEMMA HoldsNotify ==
  ASSUME NEW q \in Seq(TargetMessages), NEW r, NEW c \in Controllers
  PROVE  Holds(Append(q, Message("NOTIFY", c)), r, c)
<1>1. Message("NOTIFY", c) \in TargetMessages
  BY MessageTypes DEF About
<1> DEFINE m == Message("NOTIFY", c)
<1> HIDE DEF m
<1> QED
  BY <1>1, AppendProperties, LenProperties DEF Holds, m

LEMMA HoldsClose ==
  ASSUME NEW q \in Seq(TargetMessages), NEW r, NEW c \in Controllers
  PROVE  ~Holds(Append(q, Message("CLOSE", c)), r, c)
<1> DEFINE m == Message("CLOSE", c)
           p == Append(q, m)
<1>1. m \in TargetMessages /\ m # Message("NOTIFY", c)
  BY MessageTypes DEF About, Message
<1>2. Len(p) = Len(q) + 1 /\ Len(q) \in Nat /\ p[Len(q) + 1] = m
  BY <1>1, AppendProperties, LenProperties
<1>3. Speaks(p, Len(p), c)
  BY <1>2 DEF Speaks
<1> HIDE DEF m, p
<1>4. ~Holds(p, r, c)
  BY <1>1, <1>2, <1>3 DEF Holds
<1> QED
  BY <1>4 DEF p, m

\* The agent reads the next message: what it will hold stays the same.
LEMMA HoldsTail ==
  ASSUME NEW q \in Seq(TargetMessages), q # <<>>, NEW r, NEW s, NEW c,
         Head(q) = Message("NOTIFY", c) => c \in s,
         Head(q) = Message("CLOSE", c) => c \notin s,
         Head(q) \notin {Message("NOTIFY", c), Message("CLOSE", c)} => (c \in s <=> c \in r)
  PROVE  Holds(Tail(q), s, c) <=> Holds(q, r, c)
<1> DEFINE p == Tail(q)
<1>1. /\ Len(q) \in Nat \ {0} /\ Len(p) = Len(q) - 1 /\ Head(q) = q[1]
      /\ \A i \in 1 .. Len(p) : p[i] = q[i + 1]
  BY HeadTailProperties, LenProperties, EmptySeq
<1>2. Message("NOTIFY", c) # Message("CLOSE", c)
  BY DEF Message
<1> HIDE DEF p
<1>3. \A i \in 1 .. Len(p) : /\ i + 1 \in 2 .. Len(q)
                             /\ Speaks(p, i, c) <=> Speaks(q, i + 1, c)
  BY <1>1 DEF Speaks
<1>4. \A i \in 2 .. Len(q) : /\ i - 1 \in 1 .. Len(p) /\ p[i - 1] = q[i]
                             /\ Speaks(p, i - 1, c) <=> Speaks(q, i, c)
  <2> SUFFICES ASSUME NEW i \in 2 .. Len(q)
               PROVE  /\ i - 1 \in 1 .. Len(p) /\ p[i - 1] = q[i]
                      /\ Speaks(p, i - 1, c) <=> Speaks(q, i, c)
    OBVIOUS
  <2>1. i - 1 \in 1 .. Len(p) /\ (i - 1) + 1 = i
    BY <1>1
  <2> QED
    BY <1>1, <2>1 DEF Speaks
<1>5. ASSUME Holds(p, s, c) PROVE Holds(q, r, c)
  <2>1. CASE c \in s /\ \A i \in 1 .. Len(p) : ~Speaks(p, i, c)
    <3>1. \A i \in 2 .. Len(q) : ~Speaks(q, i, c)
      BY <1>4, <2>1
    <3>2. CASE q[1] = Message("NOTIFY", c)
      BY <1>1, <3>1, <3>2 DEF Holds
    <3>3. CASE q[1] # Message("NOTIFY", c)
      <4>1. ~Speaks(q, 1, c) /\ c \in r
        BY <1>1, <2>1, <3>3 DEF Speaks
      <4>2. \A i \in 1 .. Len(q) : ~Speaks(q, i, c)
        BY <1>1, <3>1, <4>1
      <4> QED
        BY <4>1, <4>2 DEF Holds
    <3> QED
      BY <3>2, <3>3
  <2>2. ASSUME NEW i \in 1 .. Len(p), p[i] = Message("NOTIFY", c),
               \A j \in i + 1 .. Len(p) : ~Speaks(p, j, c)
        PROVE  Holds(q, r, c)
    <3>1. i + 1 \in 1 .. Len(q) /\ q[i + 1] = Message("NOTIFY", c)
      BY <1>1, <2>2
    <3>2. \A j \in (i + 1) + 1 .. Len(q) : ~Speaks(q, j, c)
      <4> SUFFICES ASSUME NEW j \in (i + 1) + 1 .. Len(q) PROVE ~Speaks(q, j, c)
        OBVIOUS
      <4>1. j \in 2 .. Len(q) /\ j - 1 \in i + 1 .. Len(p)
        BY <1>1
      <4> QED
        BY <1>4, <2>2, <4>1
    <3> QED
      BY <3>1, <3>2 DEF Holds
  <2> QED
    BY <1>5, <2>1, <2>2 DEF Holds
<1>6. ASSUME Holds(q, r, c) PROVE Holds(p, s, c)
  <2>1. CASE c \in r /\ \A i \in 1 .. Len(q) : ~Speaks(q, i, c)
    <3>1. ~Speaks(q, 1, c) /\ \A i \in 1 .. Len(p) : ~Speaks(p, i, c)
      BY <1>1, <1>3, <2>1
    <3>2. c \in s
      BY <1>1, <2>1, <3>1 DEF Speaks
    <3> QED
      BY <3>1, <3>2 DEF Holds
  <2>2. ASSUME NEW i \in 1 .. Len(q), q[i] = Message("NOTIFY", c),
               \A j \in i + 1 .. Len(q) : ~Speaks(q, j, c)
        PROVE  Holds(p, s, c)
    <3>1. CASE i = 1
      <4>1. c \in s
        BY <1>1, <2>2, <3>1
      <4>2. \A j \in 1 .. Len(p) : ~Speaks(p, j, c)
        <5> SUFFICES ASSUME NEW j \in 1 .. Len(p) PROVE ~Speaks(p, j, c)
          OBVIOUS
        <5>1. j + 1 \in i + 1 .. Len(q)
          BY <1>1, <3>1
        <5> QED
          BY <1>3, <2>2, <5>1
      <4> QED
        BY <4>1, <4>2 DEF Holds
    <3>2. CASE i # 1
      <4>1. i - 1 \in 1 .. Len(p) /\ p[i - 1] = Message("NOTIFY", c)
        BY <1>1, <1>4, <2>2, <3>2
      <4>2. \A j \in (i - 1) + 1 .. Len(p) : ~Speaks(p, j, c)
        <5> SUFFICES ASSUME NEW j \in (i - 1) + 1 .. Len(p) PROVE ~Speaks(p, j, c)
          OBVIOUS
        <5>1. j \in 1 .. Len(p) /\ j + 1 \in i + 1 .. Len(q)
          BY <1>1
        <5> QED
          BY <1>3, <2>2, <5>1
      <4> QED
        BY <4>1, <4>2 DEF Holds
    <3> QED
      BY <3>1, <3>2
  <2> QED
    BY <1>6, <2>1, <2>2 DEF Holds
<1> QED
  BY <1>5, <1>6 DEF p

-----------------------------------------------------------------------------
(* The streams.                                                            *)

Answered == {"serving", "forwarding", "closeSession", "writeClose", "unroute", "done"}

\* No handler goes back, and none changes its mind about whom it writes to.
Advance ==
  \A d \in Controllers :
    /\ pc[d] \in Told => writer'[d] = writer[d] /\ pc'[d] \in Told
    /\ pc[d] \in {"unroute", "done"} => pc'[d] \in {"unroute", "done"}
    /\ pc[d] \in Answered => pc'[d] \in Answered

LEMMA HandlersAdvance == ASSUME TypeInv, [Next]_vars PROVE Advance
<1> USE DEF Goto, ctlVars, targetVars, tableVars, wireVars, endVars
<1>1. ASSUME UNCHANGED <<pc, writer>> PROVE Advance
  BY <1>1 DEF Advance
<1>2. ASSUME NEW c \in Controllers, ControllerStep(c) \/ ReadRefresh(c) PROVE Advance
  <2>1. /\ \E l : pc' = [pc EXCEPT ![c] = l]
        /\ \A d \in Controllers : d # c => writer'[d] = writer[d]
        /\ pc[c] # "looked" => UNCHANGED writer
    BY <1>2 DEF ControllerStep, LookUp, ReadPeer, Insert, LimitExceeded, Notify, NotifyFails,
         AddRoute, Respond, ForwardRefresh, ControllerGone, CloseSession, WriteClose, RemoveRoute,
         Refuse, Return, ReadRefresh, TypeInv, TypeOK
  <2>2. \/ pc[c] \in {"idle", "looked", "read"}
        \/ pc[c] = "inserted"
        \/ pc[c] = "notified" /\ pc'[c] = "routed"
        \/ pc[c] = "routed" /\ pc'[c] \in {"serving", "closeSession"}
        \/ pc[c] \in {"serving", "forwarding"} /\ pc'[c] \in {"serving", "forwarding", "closeSession"}
        \/ pc[c] = "closeSession" /\ pc'[c] \in {"writeClose", "unroute"}
        \/ pc[c] = "writeClose" /\ pc'[c] = "unroute"
        \/ pc[c] = "unroute" /\ pc'[c] = "done"
    BY <1>2 DEF ControllerStep, LookUp, ReadPeer, Insert, LimitExceeded, Notify, NotifyFails,
         AddRoute, Respond, ForwardRefresh, ControllerGone, CloseSession, WriteClose, RemoveRoute,
         Refuse, Return, ReadRefresh, TypeInv, TypeOK
  <2>3. \A d \in Controllers : d # c => pc'[d] = pc[d]
    BY <2>1 DEF TypeInv, TypeOK
  <2> QED
    BY <2>1, <2>2, <2>3 DEF Advance, Told, Answered
<1>3. ASSUME NEW c \in Controllers,
             ClientReads(c) \/ Request(c) \/ ClientEnds(c) \/ ControllerLost(c) \/ Revoke(c)
      PROVE  Advance
  BY <1>1, <1>3 DEF ClientReads, Request, ClientEnds, ControllerLost, Revoke
<1>4. ASSUME NEW t \in Targets,
             \/ TargetStep(t) \/ AgentReads(t) \/ Online(t) \/ AgentRefreshes(t)
             \/ AgentEnds(t) \/ AgentLost(t)
      PROVE  Advance
  BY <1>1, <1>4 DEF TargetStep, RegisterPeer, AssignPort, ReadCandidates, ForwardCandidates,
       UnregisterPeer, NotifyController, Offline, CloseAgent, Online, AgentReads, AgentRefreshes, AgentEnds,
       AgentLost
<1>5. CASE OtherSessions
  BY <1>1, <1>5 DEF OtherSessions
<1>6. CASE UNCHANGED vars
  BY <1>1, <1>6 DEF vars
<1> QED
  BY <1>2, <1>3, <1>4, <1>5, <1>6 DEF Next, Environment

LEMMA Sent ==
  ASSUME TypeInv, NEW u, NEW m \in TargetMessages, SendTarget(u, m), NEW t \in Targets
  PROVE  \/ /\ toTarget'[t] = toTarget[t]
            /\ ~(t = u /\ tAlive[t] /\ agent[t] # "down")
         \/ /\ t = u /\ tAlive[t] /\ agent[t] # "down"
            /\ toTarget'[t] = Append(toTarget[t], m)
BY DEF SendTarget, TypeInv, TypeOK

LEMMA HeldIsTold ==
  ASSUME TypeInv, MessagesAreOwn, RegistryIsOwn, NEW t \in Targets, NEW c \in Controllers,
         Holds(toTarget[t], registry[t], c)
  PROVE  writer[c] = t /\ pc[c] \in Told
BY DEF Holds, MessagesAreOwn, RegistryIsOwn, About

\* No session comes or goes but by the rules.
Keeps ==
  /\ \A d \in Controllers :
       (pc[d] \in Told /\ (d \in sessions \/ pc[d] = "writeClose")) =>
         \/ d \in sessions' \/ pc'[d] = "writeClose"
         \/ ~tAlive[writer[d]] \/ agent[writer[d]] = "down"
  /\ \A d \in sessions' :
       pc'[d] # "inserted" => d \in sessions /\ pc[d] # "inserted" /\ writer'[d] = writer[d]

LEMMA QuietStreams ==
  ASSUME TypeInv, TypeInv', StreamInv, Advance, Keeps, UNCHANGED <<toTarget, registry>>,
         \A t \in Targets : /\ agent'[t] # "down" => agent[t] # "down"
                            /\ tAlive'[t] => tAlive[t],
         PhaseInv'
  PROVE  StreamInv'
<1> USE DEF StreamInv
<1>1. MessagesAreOwn'
  BY DEF MessagesAreOwn, Advance
<1>2. RegistryIsOwn'
  BY DEF RegistryIsOwn, Advance, TypeInv, TypeOK
<1>3. WillBeRevoked'
  <2> SUFFICES ASSUME NEW t \in Targets, NEW c \in Controllers,
                      tAlive'[t], agent'[t] # "down", Holds(toTarget[t], registry[t], c)
               PROVE  c \in sessions' \/ pc'[c] = "writeClose"
    BY DEF WillBeRevoked
  <2>1. writer[c] = t /\ pc[c] \in Told /\ tAlive[t] /\ agent[t] # "down"
    BY HeldIsTold
  <2> QED
    BY <2>1 DEF WillBeRevoked, Keeps
<1>4. WillBeKnown'
  <2> SUFFICES ASSUME NEW c \in sessions', pc'[c] # "inserted", tAlive'[writer'[c]],
                      agent'[writer'[c]] # "down"
               PROVE  Holds(toTarget[writer'[c]], registry[writer'[c]], c)
    BY DEF WillBeKnown
  <2>1. c \in sessions /\ pc[c] # "inserted" /\ writer'[c] = writer[c]
    BY DEF Keeps
  <2>2. writer'[c] \in Targets
    BY DEF PhaseInv, SessionIsServed, WriterIsKnown, TypeInv, TypeOK
  <2> QED
    BY <2>1, <2>2 DEF WillBeKnown
<1>5. RefreshIsBetween'
  BY DEF RefreshIsBetween
<1> QED
  BY <1>1, <1>2, <1>3, <1>4, <1>5

\* What a handler may write to the stream of u, and what it has to.
Arrives(u) == tAlive[u] /\ agent[u] # "down"
MayWrite(u, m) ==
  \A d \in Controllers :
    /\ m \in About(d) => writer[d] = u /\ writer'[d] = u /\ pc'[d] \in Told
    /\ (m = Message("NOTIFY", d) /\ Arrives(u)) => d \in sessions'
    /\ m = Message("CLOSE", d) => d \notin sessions' /\ pc'[d] \in {"unroute", "done"}
    /\ (m = Message("CANDIDATES", d) /\ Arrives(u)) => d \in sessions /\ pc[d] = "forwarding"
    /\ (pc[d] \in Told /\ (d \in sessions \/ pc[d] = "writeClose")) =>
         d \in sessions' \/ pc'[d] = "writeClose" \/ m = Message("CLOSE", d)
    /\ (d \in sessions' /\ pc'[d] # "inserted") =>
         \/ m = Message("NOTIFY", d)
         \/ d \in sessions /\ pc[d] # "inserted" /\ writer'[d] = writer[d]

LEMMA SendStreams ==
  ASSUME TypeInv, TypeInv', StreamInv, PhaseInv', Advance, UNCHANGED <<registry, agent, tAlive>>,
         NEW u, NEW m \in TargetMessages, SendTarget(u, m), MayWrite(u, m)
  PROVE  StreamInv'
<1> USE DEF StreamInv
<1>1. ASSUME NEW t \in Targets
      PROVE  /\ toTarget[t] \in Seq(TargetMessages) /\ Len(toTarget[t]) \in Nat
             /\ Len(Append(toTarget[t], m)) = Len(toTarget[t]) + 1
             /\ \A i \in 1 .. Len(toTarget[t]) : Append(toTarget[t], m)[i] = toTarget[t][i]
             /\ Append(toTarget[t], m)[Len(toTarget[t]) + 1] = m
  <2>1. toTarget[t] \in Seq(TargetMessages)
    BY DEF TypeInv, TypeOK
  <2> QED
    BY <2>1, AppendProperties, LenProperties
<1>2. ASSUME NEW t \in Targets, NEW i \in 1 .. Len(toTarget'[t])
      PROVE  \/ i \in 1 .. Len(toTarget[t]) /\ toTarget'[t][i] = toTarget[t][i]
             \/ /\ i = Len(toTarget[t]) + 1 /\ toTarget'[t][i] = m
                /\ t = u /\ tAlive[t] /\ agent[t] # "down"
  <2>1. CASE toTarget'[t] = toTarget[t]
    BY <2>1
  <2>2. CASE /\ t = u /\ tAlive[t] /\ agent[t] # "down"
             /\ toTarget'[t] = Append(toTarget[t], m)
    BY <1>1, <2>2
  <2> QED
    BY <2>1, <2>2, Sent
<1>3. MessagesAreOwn'
  <2> SUFFICES ASSUME NEW t \in Targets, NEW d \in Controllers, NEW i \in 1 .. Len(toTarget'[t]),
                      toTarget'[t][i] \in About(d)
               PROVE  /\ writer'[d] = t /\ pc'[d] \in Told
                      /\ toTarget'[t][i] = Message("CLOSE", d) => pc'[d] \in {"unroute", "done"}
    BY DEF MessagesAreOwn
  <2> QED
    BY <1>2 DEF MessagesAreOwn, MayWrite, Advance
<1>4. RegistryIsOwn'
  BY DEF RegistryIsOwn, Advance, TypeInv, TypeOK
<1>5. WillBeRevoked'
  <2> SUFFICES ASSUME NEW t \in Targets, NEW d \in Controllers,
                      tAlive[t], agent[t] # "down", Holds(toTarget'[t], registry[t], d)
               PROVE  d \in sessions' \/ pc'[d] = "writeClose"
    BY DEF WillBeRevoked
  <2>1. ASSUME Holds(toTarget[t], registry[t], d), m # Message("CLOSE", d)
        PROVE  d \in sessions' \/ pc'[d] = "writeClose"
    <3>1. writer[d] = t /\ pc[d] \in Told
      BY <2>1, HeldIsTold
    <3> QED
      BY <2>1, <3>1 DEF WillBeRevoked, MayWrite
  <2>2. CASE toTarget'[t] = toTarget[t] /\ ~(t = u /\ tAlive[t] /\ agent[t] # "down")
    <3>1. CASE m = Message("CLOSE", d)
      <4>1. writer[d] = t /\ m \in About(d)
        BY <2>2, <3>1, HeldIsTold DEF About
      <4> QED
        BY <2>2, <4>1 DEF MayWrite
    <3> QED
      BY <2>1, <2>2, <3>1
  <2>3. CASE t = u /\ toTarget'[t] = Append(toTarget[t], m)
    <3>1. CASE m = Message("NOTIFY", d)
      BY <2>3, <3>1 DEF MayWrite, Arrives
    <3>2. CASE m = Message("CLOSE", d)
      BY <1>1, <2>3, <3>2, HoldsClose
    <3>3. CASE m \notin {Message("NOTIFY", d), Message("CLOSE", d)}
      BY <1>1, <2>1, <2>3, <3>3, HoldsOther
    <3> QED
      BY <3>1, <3>2, <3>3
  <2> QED
    BY <2>2, <2>3, Sent
<1>6. WillBeKnown'
  <2> SUFFICES ASSUME NEW d \in sessions', pc'[d] # "inserted", tAlive[writer'[d]],
                      agent[writer'[d]] # "down"
               PROVE  Holds(toTarget'[writer'[d]], registry[writer'[d]], d)
    BY DEF WillBeKnown
  <2>1. writer'[d] \in Targets /\ d \in Controllers
    BY DEF PhaseInv, SessionIsServed, WriterIsKnown, TypeInv, TypeOK
  <2>2. CASE m = Message("NOTIFY", d)
    <3>1. writer'[d] = u
      BY <2>1, <2>2 DEF MayWrite, About
    <3>2. toTarget'[u] = Append(toTarget[u], m)
      BY <2>1, <3>1, Sent
    <3> QED
      BY <1>1, <2>1, <2>2, <3>1, <3>2, HoldsNotify
  <2>3. CASE m # Message("NOTIFY", d)
    <3>1. writer'[d] = writer[d] /\ Holds(toTarget[writer[d]], registry[writer[d]], d)
      BY <2>1, <2>3 DEF MayWrite, WillBeKnown
    <3>2. m # Message("CLOSE", d)
      BY <2>1 DEF MayWrite
    <3>3. CASE toTarget'[writer[d]] = toTarget[writer[d]]
      BY <3>1, <3>3
    <3>4. CASE toTarget'[writer[d]] = Append(toTarget[writer[d]], m)
      BY <1>1, <2>1, <2>3, <3>1, <3>2, <3>4, HoldsOther
    <3> QED
      BY <2>1, <3>1, <3>3, <3>4, Sent
  <2> QED
    BY <2>2, <2>3
<1>7. RefreshIsBetween'
  <2> SUFFICES ASSUME NEW t \in Targets, NEW d \in Controllers, agent[t] # "down",
                      NEW i \in 1 .. Len(toTarget'[t]), toTarget'[t][i] = Message("CANDIDATES", d)
               PROVE  /\ \/ d \in registry[t]
                         \/ \E j \in 1 .. i - 1 : toTarget'[t][j] = Message("NOTIFY", d)
                      /\ \A j \in 1 .. i - 1 : toTarget'[t][j] # Message("CLOSE", d)
    BY DEF RefreshIsBetween
  <2>1. i - 1 <= Len(toTarget[t]) /\ i \in Nat
    BY <1>1, <1>2
  <2>2. \A j \in 1 .. i - 1 : j \in 1 .. Len(toTarget[t]) /\ toTarget'[t][j] = toTarget[t][j]
    <3>1. CASE toTarget'[t] = toTarget[t]
      BY <1>1, <2>1, <3>1
    <3>2. CASE toTarget'[t] = Append(toTarget[t], m)
      BY <1>1, <2>1, <3>2
    <3> QED
      BY <3>1, <3>2, Sent
  <2>3. CASE i \in 1 .. Len(toTarget[t]) /\ toTarget'[t][i] = toTarget[t][i]
    BY <2>2, <2>3 DEF RefreshIsBetween
  <2>4. CASE i = Len(toTarget[t]) + 1 /\ toTarget'[t][i] = m /\ t = u /\ tAlive[t]
    <3>1. d \in sessions /\ pc[d] = "forwarding" /\ writer[d] = t
      BY <2>4 DEF MayWrite, About, Arrives
    <3>2. Holds(toTarget[t], registry[t], d)
      BY <2>4, <3>1 DEF WillBeKnown
    <3>3. d \in registry[t] \/ \E j \in 1 .. Len(toTarget[t]) : toTarget[t][j] = Message("NOTIFY", d)
      BY <3>2 DEF Holds
    <3>4. \A j \in 1 .. Len(toTarget[t]) : toTarget[t][j] # Message("CLOSE", d)
      BY <3>1 DEF MessagesAreOwn, About
    <3> QED
      BY <1>1, <2>2, <2>4, <3>3, <3>4
  <2> QED
    BY <1>2, <2>3, <2>4
<1> QED
  BY <1>3, <1>4, <1>5, <1>6, <1>7

\* The steps that write: the message fits the phase its handler is in.
LEMMA WritingSteps ==
  ASSUME TypeInv, TypeInv', PhaseInv, PhaseInv', StreamInv, Advance,
         \/ \E c \in Controllers : Notify(c) \/ ForwardRefresh(c) \/ WriteClose(c)
         \/ \E t \in Targets : AssignPort(t)
  PROVE  StreamInv'
<1> USE DEF Goto, TGoto, ctlVars, targetVars, tableVars, wireVars, endVars
<1>1. ASSUME NEW c, NEW d, c # d
      PROVE  /\ Message("NOTIFY", c) \notin About(d)
             /\ Message("CANDIDATES", c) \notin About(d)
             /\ Message("CLOSE", c) \notin About(d)
  BY <1>1 DEF Message, About
<1>2. \A c : /\ Message("NOTIFY", c) # Message("CLOSE", c)
             /\ Message("NOTIFY", c) # Message("CANDIDATES", c)
             /\ Message("CANDIDATES", c) # Message("CLOSE", c)
             /\ {Message("NOTIFY", c), Message("CLOSE", c), Message("CANDIDATES", c)} = About(c)
  BY DEF Message, About
<1>3. ASSUME NEW c \in Controllers, Notify(c) PROVE StreamInv'
  <2> DEFINE m == Message("NOTIFY", c)
  <2>1. /\ UNCHANGED <<registry, agent, tAlive, writer, sessions>> /\ SendTarget(writer[c], m)
        /\ pc[c] = "inserted" /\ pc'[c] = "notified" /\ tAlive[writer[c]]
        /\ \A d \in Controllers : d # c => pc'[d] = pc[d]
    BY <1>3 DEF Notify, TypeInv, TypeOK
  <2>2. Arrives(writer[c]) => c \in sessions
    BY <2>1 DEF PhaseInv, LostSessionIsDead, Arrives
  <2>3. m \in About(c) /\ \A d : d # c => m \notin About(d)
    BY <1>1, <1>2
  <2>4. m # Message("CLOSE", c) /\ m # Message("CANDIDATES", c) /\ m \in TargetMessages
    BY <1>2, MessageTypes, <2>3
  <2> HIDE DEF m
  <2>5. MayWrite(writer[c], m)
    <3> SUFFICES ASSUME NEW d \in Controllers
                 PROVE  MayWrite(writer[c], m)!(d)
      BY DEF MayWrite
    <3>1. CASE d = c
      BY <2>1, <2>2, <2>4, <3>1 DEF Told, m
    <3>2. CASE d # c
      BY <1>2, <2>1, <2>3, <3>2
    <3> QED
      BY <3>1, <3>2
  <2> QED
    BY <2>1, <2>4, <2>5, SendStreams
<1>4. ASSUME NEW c \in Controllers, ForwardRefresh(c) PROVE StreamInv'
  <2> DEFINE m == Message("CANDIDATES", c)
  <2>1. /\ UNCHANGED <<registry, agent, tAlive, writer, sessions>> /\ SendTarget(writer[c], m)
        /\ pc[c] = "forwarding" /\ pc'[c] = "serving"
        /\ \A d \in Controllers : d # c => pc'[d] = pc[d]
    BY <1>4 DEF ForwardRefresh, TypeInv, TypeOK
  <2>2. Arrives(writer[c]) => c \in sessions
    BY <2>1 DEF PhaseInv, LostSessionIsDead, Arrives
  <2>3. m \in About(c) /\ \A d : d # c => m \notin About(d)
    BY <1>1, <1>2
  <2>4. m # Message("CLOSE", c) /\ m # Message("NOTIFY", c) /\ m \in TargetMessages
    BY <1>2, MessageTypes, <2>3
  <2> HIDE DEF m
  <2>5. MayWrite(writer[c], m)
    <3> SUFFICES ASSUME NEW d \in Controllers
                 PROVE  MayWrite(writer[c], m)!(d)
      BY DEF MayWrite
    <3>1. CASE d = c
      BY <2>1, <2>2, <2>4, <3>1 DEF Told
    <3>2. CASE d # c
      BY <1>2, <2>1, <2>3, <3>2
    <3> QED
      BY <3>1, <3>2
  <2> QED
    BY <2>1, <2>4, <2>5, SendStreams
<1>5. ASSUME NEW c \in Controllers, WriteClose(c) PROVE StreamInv'
  <2> DEFINE m == Message("CLOSE", c)
  <2>1. /\ UNCHANGED <<registry, agent, tAlive, writer, sessions>> /\ SendTarget(writer[c], m)
        /\ pc[c] = "writeClose" /\ pc'[c] = "unroute"
        /\ \A d \in Controllers : d # c => pc'[d] = pc[d]
    BY <1>5 DEF WriteClose, TypeInv, TypeOK
  <2>2. c \notin sessions
    BY <2>1 DEF PhaseInv, SessionIsServed
  <2>3. m \in About(c) /\ \A d : d # c => m \notin About(d)
    BY <1>1, <1>2
  <2>4. m # Message("CANDIDATES", c) /\ m # Message("NOTIFY", c) /\ m \in TargetMessages
    BY <1>2, MessageTypes, <2>3
  <2> HIDE DEF m
  <2>5. MayWrite(writer[c], m)
    <3> SUFFICES ASSUME NEW d \in Controllers
                 PROVE  MayWrite(writer[c], m)!(d)
      BY DEF MayWrite
    <3>1. CASE d = c
      BY <2>1, <2>2, <2>4, <3>1 DEF Told, m
    <3>2. CASE d # c
      BY <1>2, <2>1, <2>3, <3>2
    <3> QED
      BY <3>1, <3>2
  <2> QED
    BY <2>1, <2>4, <2>5, SendStreams
<1>6. ASSUME NEW t \in Targets, AssignPort(t) PROVE StreamInv'
  <2>1. /\ UNCHANGED <<registry, agent, tAlive, writer, sessions, pc>> /\ SendTarget(t, Assign)
    BY <1>6 DEF AssignPort
  <2>2. Assign \in TargetMessages /\ \A d : Assign \notin About(d)
    BY MessageTypes DEF Assign, About, Message
  <2>3. MayWrite(t, Assign)
    BY <1>2, <2>1, <2>2 DEF MayWrite
  <2> QED
    BY <2>1, <2>2, <2>3, SendStreams
<1> QED
  BY <1>3, <1>4, <1>5, <1>6

\* The other steps of the handlers, and those that do not touch an agent.
LEMMA OtherSteps ==
  ASSUME TypeInv, TypeInv', PhaseInv, PhaseInv', StreamInv, Advance,
         \/ \E c \in Controllers :
              \/ LookUp(c) \/ ReadPeer(c) \/ Insert(c) \/ LimitExceeded(c) \/ NotifyFails(c)
              \/ AddRoute(c) \/ Respond(c) \/ ControllerGone(c) \/ CloseSession(c)
              \/ RemoveRoute(c) \/ ReadRefresh(c)
         \/ \E c \in Controllers :
              ClientReads(c) \/ Request(c) \/ ClientEnds(c) \/ ControllerLost(c) \/ Revoke(c)
         \/ \E t \in Targets :
              \/ RegisterPeer(t) \/ ReadCandidates(t) \/ ForwardCandidates(t) \/ UnregisterPeer(t)
              \/ NotifyController(t) \/ Offline(t) \/ CloseAgent(t) \/ AgentRefreshes(t) \/ AgentLost(t)
         \/ OtherSessions \/ UNCHANGED vars
  PROVE  StreamInv'
<1> USE DEF Goto, TGoto, ctlVars, targetVars, tableVars, wireVars, endVars
<1>1. UNCHANGED <<toTarget, registry, agent>> /\ \A t \in Targets : tAlive'[t] => tAlive[t]
  BY DEF LookUp, ReadPeer, Insert, LimitExceeded, NotifyFails, AddRoute, Respond, ControllerGone,
         CloseSession, RemoveRoute, ReadRefresh, ClientReads, Request, ClientEnds, ControllerLost,
         Revoke, RegisterPeer, ReadCandidates, ForwardCandidates, UnregisterPeer,
         NotifyController, Offline, CloseAgent, AgentRefreshes, AgentLost, OtherSessions, vars,
         TypeInv, TypeOK
<1>2. Keeps
  <2>1. ASSUME UNCHANGED <<pc, writer, sessions>> PROVE Keeps
    BY <2>1 DEF Keeps
  <2>2. ASSUME NEW c \in Controllers,
               \/ LookUp(c) \/ ReadPeer(c) \/ Insert(c) \/ LimitExceeded(c) \/ NotifyFails(c)
               \/ AddRoute(c) \/ Respond(c) \/ ControllerGone(c) \/ CloseSession(c)
               \/ RemoveRoute(c) \/ ReadRefresh(c)
        PROVE  Keeps
    <3>1. /\ \E l : pc' = [pc EXCEPT ![c] = l]
          /\ \A d \in Controllers : d # c => writer'[d] = writer[d] /\ (d \in sessions' <=> d \in sessions)
      BY <2>2 DEF LookUp, ReadPeer, Insert, LimitExceeded, NotifyFails, AddRoute, Respond,
           ControllerGone, CloseSession, RemoveRoute, ReadRefresh, Refuse, Return, TypeInv, TypeOK
    <3>2. \A d \in Controllers : d # c => pc'[d] = pc[d]
      BY <3>1 DEF TypeInv, TypeOK
    <3>3. \/ pc[c] \in {"idle", "looked", "read"} /\ pc'[c] \in {"looked", "read", "done"}
               /\ sessions' = sessions
          \/ pc[c] = "read" /\ pc'[c] = "inserted"
          \/ pc[c] = "inserted" /\ pc'[c] = "done" /\ c \notin sessions'
          \/ /\ pc[c] \in {"notified", "routed", "serving"}
             /\ pc'[c] \in {"routed", "serving", "closeSession", "forwarding"}
             /\ UNCHANGED <<sessions, writer>>
          \/ /\ pc[c] = "closeSession" /\ c \notin sessions'
             /\ pc'[c] = IF c \in sessions THEN "writeClose" ELSE "unroute"
          \/ pc[c] = "unroute" /\ pc'[c] = "done" /\ sessions' = sessions
      BY <2>2 DEF LookUp, ReadPeer, Insert, LimitExceeded, NotifyFails, AddRoute, Respond,
           ControllerGone, CloseSession, RemoveRoute, ReadRefresh, Refuse, Return, TypeInv, TypeOK
    <3>4. sessions \subseteq Controllers /\ sessions' \subseteq Controllers
      BY DEF TypeInv, TypeOK
    <3> QED
      BY <3>1, <3>2, <3>3, <3>4 DEF Keeps, Told, PhaseInv, SessionIsServed
  <2>3. ASSUME NEW t \in Targets, UnregisterPeer(t) PROVE Keeps
    <3>1. /\ UNCHANGED <<pc, writer>> /\ (~tAlive[t] \/ agent[t] = "down")
          /\ sessions' = sessions \ {d \in sessions : writer[d] = t}
      BY <2>3 DEF UnregisterPeer, ReadFails
    <3> QED
      BY <3>1 DEF Keeps
  <2> QED
    BY <2>1, <2>2, <2>3 DEF ClientReads, Request, ClientEnds, ControllerLost,
         Revoke, RegisterPeer, ReadCandidates, ForwardCandidates,
         NotifyController, Offline, CloseAgent, AgentRefreshes, AgentLost, OtherSessions, vars
<1> QED
  BY <1>1, <1>2, QuietStreams

\* The agent's connection: it begins with an empty stream and an empty registry.
LEMMA OnlineStreams ==
  ASSUME TypeInv, TypeInv', PhaseInv, StreamInv, Advance, NEW t \in Targets, Online(t)
  PROVE  StreamInv'
<1> USE DEF TGoto, ctlVars, targetVars, tableVars, wireVars, endVars, StreamInv
<1>1. /\ UNCHANGED <<pc, writer, sessions, toTarget, registry>> /\ tpc[t] = "idle"
      /\ \A u \in Targets : u # t => (tAlive'[u] => tAlive[u]) /\ agent'[u] = agent[u]
  BY DEF Online, TypeInv, TypeOK
<1>2. \A d \in Controllers : writer[d] # t
  BY <1>1 DEF PhaseInv, PeerHasRegistered
<1>3. \A d \in Controllers : ~Holds(toTarget[t], registry[t], d)
  BY <1>2, HeldIsTold
<1>4. MessagesAreOwn' /\ RegistryIsOwn'
  BY <1>1 DEF MessagesAreOwn, RegistryIsOwn
<1>5. WillBeRevoked'
  BY <1>1, <1>3 DEF WillBeRevoked
<1>6. WillBeKnown'
  <2> SUFFICES ASSUME NEW d \in sessions, pc[d] # "inserted", tAlive'[writer[d]],
                      agent'[writer[d]] # "down"
               PROVE  Holds(toTarget[writer[d]], registry[writer[d]], d)
    BY <1>1 DEF WillBeKnown
  <2>1. writer[d] \in Targets /\ writer[d] # t
    BY <1>2 DEF PhaseInv, SessionIsServed, WriterIsKnown, TypeInv, TypeOK
  <2> QED
    BY <1>1, <2>1 DEF WillBeKnown
<1>7. RefreshIsBetween'
  <2> SUFFICES ASSUME NEW u \in Targets, NEW d \in Controllers, agent'[u] # "down",
                      NEW i \in 1 .. Len(toTarget[u]), toTarget[u][i] = Message("CANDIDATES", d)
               PROVE  /\ \/ d \in registry[u]
                         \/ \E j \in 1 .. i - 1 : toTarget[u][j] = Message("NOTIFY", d)
                      /\ \A j \in 1 .. i - 1 : toTarget[u][j] # Message("CLOSE", d)
    BY <1>1 DEF RefreshIsBetween
  <2>1. u # t
    BY <1>2 DEF MessagesAreOwn, About
  <2> QED
    BY <1>1, <2>1 DEF RefreshIsBetween
<1> QED
  BY <1>4, <1>5, <1>6, <1>7

\* ... and ends with both empty.
LEMMA AgentEndsStreams ==
  ASSUME TypeInv, TypeInv', PhaseInv, StreamInv, Advance, NEW t \in Targets, AgentEnds(t)
  PROVE  StreamInv'
<1> USE DEF ctlVars, targetVars, tableVars, StreamInv
<1>1. /\ UNCHANGED <<pc, writer, sessions, tAlive>>
      /\ agent'[t] = "down" /\ registry'[t] = {} /\ toTarget'[t] = <<>>
      /\ \A u \in Targets : u # t => /\ agent'[u] = agent[u] /\ registry'[u] = registry[u]
                                     /\ toTarget'[u] = toTarget[u]
  BY DEF AgentEnds, TypeInv, TypeOK
<1>2. \A i \in 1 .. Len(toTarget'[t]) : FALSE
  BY <1>1
<1>3. MessagesAreOwn' /\ RegistryIsOwn'
  BY <1>1, <1>2 DEF MessagesAreOwn, RegistryIsOwn
<1>4. WillBeRevoked'
  BY <1>1 DEF WillBeRevoked
<1>5. WillBeKnown'
  <2>1. \A d \in sessions : writer[d] \in Targets
    BY DEF PhaseInv, SessionIsServed, WriterIsKnown, TypeInv, TypeOK
  <2> QED
    BY <1>1, <2>1 DEF WillBeKnown
<1>6. RefreshIsBetween'
  BY <1>1 DEF RefreshIsBetween
<1> QED
  BY <1>3, <1>4, <1>5, <1>6

\* The agent reads: what it will hold stays the same, and what it holds of a
\* session whose refresh is next it has been notified of before.
LEMMA AgentReadsStreams ==
  ASSUME TypeInv, TypeInv', PhaseInv, StreamInv, Advance, NEW t \in Targets, AgentReads(t)
  PROVE  StreamInv'
<1> USE DEF ctlVars, targetVars, tableVars, StreamInv
<1> DEFINE msg == Head(toTarget[t])
<1>1. /\ UNCHANGED <<pc, writer, sessions, tAlive>>
      /\ toTarget'[t] = Tail(toTarget[t])
      /\ \A u \in Targets : u # t => /\ agent'[u] = agent[u] /\ registry'[u] = registry[u]
                                     /\ toTarget'[u] = toTarget[u]
  BY DEF AgentReads, TypeInv, TypeOK
<1>2. /\ toTarget[t] \in Seq(TargetMessages) /\ toTarget[t] # <<>>
      /\ Len(toTarget[t]) \in Nat \ {0} /\ toTarget[t][1] = msg /\ msg \in TargetMessages
      /\ Len(toTarget'[t]) = Len(toTarget[t]) - 1
      /\ \A i \in 1 .. Len(toTarget'[t]) : toTarget'[t][i] = toTarget[t][i + 1]
  <2>1. toTarget[t] \in Seq(TargetMessages) /\ toTarget[t] # <<>>
    BY DEF AgentReads, TypeInv, TypeOK
  <2> QED
    BY <1>1, <2>1, HeadTailProperties, LenProperties, EmptySeq
<1>3. \/ agent'[t] = "down" /\ registry'[t] = registry[t]
      \/ agent[t] # "down" /\ msg = Assign /\ registry'[t] = registry[t]
      \/ /\ agent[t] # "down"
         /\ registry'[t] = CASE msg.type = "NOTIFY" -> registry[t] \cup {msg.session}
                             [] msg.type = "CLOSE"  -> registry[t] \ {msg.session}
                             [] OTHER               -> registry[t]
  <2>1. CASE agent[t] = "waiting" /\ UNCHANGED registry
    BY <2>1 DEF AgentReads, TypeInv, TypeOK
  <2>2. CASE agent[t] = "up"
    BY <2>2 DEF AgentReads, TypeInv, TypeOK
  <2> QED
    BY <2>1, <2>2 DEF AgentReads
<1> HIDE DEF msg
<1>4. ASSUME NEW d \in Controllers
      PROVE  /\ d \in registry'[t] => d \in registry[t] \/ msg = Message("NOTIFY", d)
             /\ agent'[t] # "down" =>
                  /\ agent[t] # "down"
                  /\ msg = Message("NOTIFY", d) => d \in registry'[t]
                  /\ msg = Message("CLOSE", d) => d \notin registry'[t]
                  /\ msg \notin {Message("NOTIFY", d), Message("CLOSE", d)} =>
                       (d \in registry'[t] <=> d \in registry[t])
  <2>1. /\ msg.type = "NOTIFY" => msg = Message("NOTIFY", msg.session)
        /\ msg.type = "CLOSE" => msg = Message("CLOSE", msg.session)
    BY <1>2 DEF TargetMessages, Message, Assign
  <2>2. /\ Message("NOTIFY", d).type = "NOTIFY" /\ Message("NOTIFY", d).session = d
        /\ Message("CLOSE", d).type = "CLOSE" /\ Message("CLOSE", d).session = d
        /\ Assign \notin {Message("NOTIFY", d), Message("CLOSE", d)}
    BY DEF Message, Assign
  <2>3. CASE registry'[t] = CASE msg.type = "NOTIFY" -> registry[t] \cup {msg.session}
                              [] msg.type = "CLOSE"  -> registry[t] \ {msg.session}
                              [] OTHER               -> registry[t]
    <3>1. CASE msg.type = "NOTIFY"
      BY <1>3, <2>1, <2>2, <2>3, <3>1
    <3>2. CASE msg.type = "CLOSE"
      BY <1>3, <2>1, <2>2, <2>3, <3>2
    <3>3. CASE msg.type \notin {"NOTIFY", "CLOSE"}
      BY <1>3, <2>1, <2>2, <2>3, <3>3
    <3> QED
      BY <3>1, <3>2, <3>3
  <2> QED
    BY <1>3, <2>2, <2>3
<1>5. ASSUME NEW d \in Controllers, agent'[t] # "down"
      PROVE  Holds(toTarget'[t], registry'[t], d) <=> Holds(toTarget[t], registry[t], d)
  <2> DEFINE q == toTarget[t]
             r == registry[t]
             s == registry'[t]
  <2>1. q \in Seq(TargetMessages) /\ q # <<>> /\ toTarget'[t] = Tail(q)
    BY <1>1, <1>2
  <2>2. /\ Head(q) = Message("NOTIFY", d) => d \in s
        /\ Head(q) = Message("CLOSE", d) => d \notin s
        /\ Head(q) \notin {Message("NOTIFY", d), Message("CLOSE", d)} => (d \in s <=> d \in r)
    BY <1>4, <1>5 DEF msg
  <2>3. Holds(Tail(q), s, d) <=> Holds(q, r, d)
    <3> HIDE DEF q, r, s
    <3> QED
      BY <2>1, <2>2, HoldsTail
  <2> QED
    BY <2>1, <2>3
<1>6. MessagesAreOwn'
  <2> SUFFICES ASSUME NEW u \in Targets, NEW d \in Controllers, NEW i \in 1 .. Len(toTarget'[u]),
                      toTarget'[u][i] \in About(d)
               PROVE  /\ writer[d] = u /\ pc[d] \in Told
                      /\ toTarget'[u][i] = Message("CLOSE", d) => pc[d] \in {"unroute", "done"}
    BY <1>1 DEF MessagesAreOwn
  <2>1. CASE u = t
    <3>1. i + 1 \in 1 .. Len(toTarget[t]) /\ toTarget'[t][i] = toTarget[t][i + 1]
      BY <1>2, <2>1
    <3> QED
      BY <2>1, <3>1 DEF MessagesAreOwn
  <2>2. CASE u # t
    BY <1>1, <2>2 DEF MessagesAreOwn
  <2> QED
    BY <2>1, <2>2
<1>7. RegistryIsOwn'
  <2>1. \A d \in Controllers : d \in registry'[t] => writer[d] = t /\ pc[d] \in Told
    <3> SUFFICES ASSUME NEW d \in Controllers, d \in registry'[t]
                 PROVE  writer[d] = t /\ pc[d] \in Told
      OBVIOUS
    <3>1. CASE d \in registry[t]
      BY <3>1 DEF RegistryIsOwn
    <3>2. CASE msg = Message("NOTIFY", d)
      <4>1. 1 \in 1 .. Len(toTarget[t]) /\ toTarget[t][1] \in About(d)
        BY <1>2, <3>2 DEF About
      <4> QED
        BY <4>1 DEF MessagesAreOwn
    <3> QED
      BY <1>4, <3>1, <3>2
  <2>2. \A u \in Targets : registry[u] \subseteq Controllers /\ registry'[u] \subseteq Controllers
    BY DEF TypeInv, TypeOK
  <2> QED
    BY <1>1, <2>1, <2>2 DEF RegistryIsOwn
<1>8. WillBeRevoked'
  <2> SUFFICES ASSUME NEW u \in Targets, NEW d \in Controllers, tAlive[u], agent'[u] # "down",
                      Holds(toTarget'[u], registry'[u], d)
               PROVE  d \in sessions \/ pc[d] = "writeClose"
    BY <1>1 DEF WillBeRevoked
  <2>1. Holds(toTarget[u], registry[u], d) /\ agent[u] # "down"
    BY <1>1, <1>4, <1>5
  <2> QED
    BY <2>1 DEF WillBeRevoked
<1>9. WillBeKnown'
  <2> SUFFICES ASSUME NEW d \in sessions, pc[d] # "inserted", tAlive[writer[d]],
                      agent'[writer[d]] # "down"
               PROVE  Holds(toTarget'[writer[d]], registry'[writer[d]], d)
    BY <1>1 DEF WillBeKnown
  <2>1. d \in Controllers /\ writer[d] \in Targets
    BY DEF PhaseInv, SessionIsServed, WriterIsKnown, TypeInv, TypeOK
  <2>2. agent[writer[d]] # "down"
    BY <1>1, <1>4, <2>1
  <2> QED
    BY <1>1, <1>5, <2>1, <2>2 DEF WillBeKnown
<1>10. RefreshIsBetween'
  <2> SUFFICES ASSUME NEW u \in Targets, NEW d \in Controllers, agent'[u] # "down",
                      NEW i \in 1 .. Len(toTarget'[u]), toTarget'[u][i] = Message("CANDIDATES", d)
               PROVE  /\ \/ d \in registry'[u]
                         \/ \E j \in 1 .. i - 1 : toTarget'[u][j] = Message("NOTIFY", d)
                      /\ \A j \in 1 .. i - 1 : toTarget'[u][j] # Message("CLOSE", d)
    BY DEF RefreshIsBetween
  <2>1. CASE u # t
    BY <1>1, <2>1 DEF RefreshIsBetween
  <2>2. CASE u = t
    <3>1. i + 1 \in 1 .. Len(toTarget[t]) /\ toTarget[t][i + 1] = Message("CANDIDATES", d)
      BY <1>2, <2>2
    <3>2. /\ \/ d \in registry[t]
             \/ \E j \in 1 .. (i + 1) - 1 : toTarget[t][j] = Message("NOTIFY", d)
          /\ \A j \in 1 .. (i + 1) - 1 : toTarget[t][j] # Message("CLOSE", d)
      BY <1>4, <2>2, <3>1 DEF RefreshIsBetween
    <3>3. \A j \in 1 .. i - 1 : /\ j + 1 \in 1 .. (i + 1) - 1 /\ j \in 1 .. Len(toTarget'[t])
                                /\ toTarget'[t][j] = toTarget[t][j + 1]
      <4>1. i \in 1 .. Len(toTarget'[t]) /\ Len(toTarget'[t]) \in Nat
        BY <1>2, <2>2
      <4>2. \A j \in 1 .. i - 1 : j + 1 \in 1 .. (i + 1) - 1 /\ j \in 1 .. Len(toTarget'[t])
        BY <4>1
      <4> QED
        BY <1>2, <4>2
    <3>4. \A j \in 1 .. i - 1 : toTarget'[t][j] # Message("CLOSE", d)
      BY <3>2, <3>3
    <3>5. msg # Message("CLOSE", d)
      BY <1>2, <2>2, <3>2
    <3>6. CASE d \in registry[t] \/ msg = Message("NOTIFY", d)
      BY <1>4, <2>2, <3>4, <3>5, <3>6
    <3>7. ASSUME NEW j \in 1 .. (i + 1) - 1, toTarget[t][j] = Message("NOTIFY", d),
                 msg # Message("NOTIFY", d)
          PROVE  \E k \in 1 .. i - 1 : toTarget'[t][k] = Message("NOTIFY", d)
      <4>1. j # 1 /\ i \in Nat
        BY <1>2, <2>2, <3>7
      <4>2. j - 1 \in 1 .. i - 1 /\ (j - 1) + 1 = j
        BY <4>1
      <4>3. toTarget'[t][j - 1] = Message("NOTIFY", d)
        BY <3>3, <3>7, <4>2
      <4> QED
        BY <4>2, <4>3
    <3> QED
      BY <2>2, <3>2, <3>4, <3>6, <3>7
  <2> QED
    BY <2>1, <2>2
<1> QED
  BY <1>6, <1>7, <1>8, <1>9, <1>10

LEMMA NextStreams ==
  TypeInv /\ TypeInv' /\ PhaseInv /\ PhaseInv' /\ StreamInv /\ [Next]_vars => StreamInv'
<1> SUFFICES ASSUME TypeInv, TypeInv', PhaseInv, PhaseInv', StreamInv, [Next]_vars
             PROVE  StreamInv'
  OBVIOUS
<1>1. Advance
  BY HandlersAdvance
<1>2. ASSUME NEW c \in Controllers, ControllerStep(c) PROVE StreamInv'
  BY <1>1, <1>2, WritingSteps, OtherSteps DEF ControllerStep
<1>3. ASSUME NEW t \in Targets, TargetStep(t) PROVE StreamInv'
  BY <1>1, <1>3, WritingSteps, OtherSteps DEF TargetStep
<1>4. ASSUME NEW t \in Targets, AgentReads(t) PROVE StreamInv'
  BY <1>1, <1>4, AgentReadsStreams
<1>5. ASSUME NEW t \in Targets, AgentEnds(t) PROVE StreamInv'
  BY <1>1, <1>5, AgentEndsStreams
<1>6. ASSUME NEW t \in Targets, Online(t) PROVE StreamInv'
  BY <1>1, <1>6, OnlineStreams
<1>7. CASE UNCHANGED vars
  BY <1>1, <1>7, OtherSteps
<1>8. CASE \/ OtherSessions
           \/ \E c \in Controllers : \/ Request(c) \/ ReadRefresh(c) \/ ClientEnds(c)
                                     \/ ControllerLost(c) \/ Revoke(c) \/ ClientReads(c)
           \/ \E t \in Targets : AgentRefreshes(t) \/ AgentLost(t)
  BY <1>1, <1>8, OtherSteps
<1> QED
  BY <1>2, <1>3, <1>4, <1>5, <1>6, <1>7, <1>8 DEF Next, Environment

LEMMA InitStreams == Init => StreamInv
<1> SUFFICES ASSUME Init PROVE StreamInv
  OBVIOUS
<1>1. \A t \in Targets : Len(toTarget[t]) = 0 /\ registry[t] = {} /\ ~tAlive[t]
  BY EmptySeq DEF Init
<1> QED
  BY <1>1 DEF Init, StreamInv, MessagesAreOwn, RegistryIsOwn, WillBeRevoked, WillBeKnown,
              RefreshIsBetween

LEMMA StreamsHold == Spec => []StreamInv
BY TypesHold, PhasesHold, InitStreams, NextStreams, PTL DEF Spec

\* Once a session has left the table, on any of the ways it can (the handler's
\* clean-up, UnregisterPeer of the agent's connection), no agent whose
\* connection is up will go on holding its credential: what is in its stream
\* takes it back, or the handler is about to write that (server.go:296-316).
THEOREM CredentialsAreRevoked == Spec => []NoStaleCredential
<1>1. TypeInv /\ StreamInv => NoStaleCredential
  <2> SUFFICES ASSUME TypeInv, StreamInv, NEW t \in Targets, NEW c \in Controllers,
                      tAlive[t], agent[t] = "up", WillHold(t, c)
               PROVE  c \in sessions \/ pc[c] = "writeClose"
    BY DEF NoStaleCredential
  <2>1. Holds(toTarget[t], registry[t], c)
    BY WillHoldIsHolds DEF TypeInv
  <2> QED
    BY <2>1 DEF StreamInv, WillBeRevoked
<1> QED
  BY <1>1, TypesHold, StreamsHold, PTL

\* A refresh of a controller's candidates reaches the agent after the
\* CONNECT_NOTIFY of its session and never after the SESSION_CLOSE, although
\* ForwardCandidateExchange writes it after it has released the lock
\* (server.go:253-285).
THEOREM RefreshesAreNotDropped == Spec => []RefreshFindsItsSession
<1>1. TypeInv /\ StreamInv => RefreshFindsItsSession
  <2> SUFFICES ASSUME TypeInv, StreamInv, NEW t \in Targets, agent[t] = "up",
                      toTarget[t] # <<>>, NEW c \in Controllers,
                      Head(toTarget[t]) = Message("CANDIDATES", c)
               PROVE  c \in registry[t]
    BY DEF RefreshFindsItsSession
  <2>1. toTarget[t] \in Seq(TargetMessages)
    BY DEF TypeInv, TypeOK
  <2>2. 1 \in 1 .. Len(toTarget[t]) /\ toTarget[t][1] = Message("CANDIDATES", c)
    BY <2>1, LenProperties, EmptySeq
  <2> QED
    BY <2>2 DEF StreamInv, RefreshIsBetween
<1> QED
  BY <1>1, TypesHold, StreamsHold, PTL

-----------------------------------------------------------------------------
(* The answer to the controller.                                           *)

LEMMA SentAnswers ==
  ASSUME TypeInv, NEW c \in Controllers, NEW type \in ControllerMessages,
         SendController(c, type), NEW d \in Controllers, NEW i \in 1 .. Len(toCtl'[d]),
         toCtl'[d][i] = "RESPONSE"
  PROVE  \/ \E j \in 1 .. Len(toCtl[d]) : toCtl[d][j] = "RESPONSE"
         \/ d = c /\ type = "RESPONSE"
<1>1. toCtl[c] \in Seq(ControllerMessages)
  BY DEF TypeInv, TypeOK
<1>2. /\ Len(toCtl[c]) \in Nat /\ Len(Append(toCtl[c], type)) = Len(toCtl[c]) + 1
      /\ \A j \in 1 .. Len(toCtl[c]) : Append(toCtl[c], type)[j] = toCtl[c][j]
      /\ Append(toCtl[c], type)[Len(toCtl[c]) + 1] = type
  BY <1>1, AppendProperties, LenProperties
<1>3. toCtl'[d] = toCtl[d] \/ (d = c /\ toCtl'[d] = Append(toCtl[d], type))
  BY DEF SendController, TypeInv, TypeOK
<1> QED
  BY <1>2, <1>3

\* Steps that leave the controller's program alone and write no RESPONSE.
LEMMA NoAnswer ==
  ASSUME TypeInv, Advance, AnswerComesLast, UNCHANGED client,
         \A d \in Controllers :
           (\E i \in 1 .. Len(toCtl'[d]) : toCtl'[d][i] = "RESPONSE") =>
             \E j \in 1 .. Len(toCtl[d]) : toCtl[d][j] = "RESPONSE"
  PROVE  AnswerComesLast'
<1>1. \A d \in Controllers :
        pc[d] \notin {"idle", "looked", "read", "inserted", "notified", "routed"} =>
          pc'[d] \notin {"idle", "looked", "read", "inserted", "notified", "routed"}
  BY DEF TypeInv, TypeOK, HandlerStates, Advance, Answered
<1> QED
  BY <1>1 DEF AnswerComesLast

LEMMA NextAnswers == TypeInv /\ AnswerComesLast /\ [Next]_vars => AnswerComesLast'
<1> SUFFICES ASSUME TypeInv, AnswerComesLast, [Next]_vars PROVE AnswerComesLast'
  OBVIOUS
<1> USE DEF Goto, TGoto, ctlVars, targetVars, tableVars, wireVars, endVars
<1>1. Advance
  BY HandlersAdvance
<1>2. ASSUME UNCHANGED <<client, toCtl>> PROVE AnswerComesLast'
  BY <1>1, <1>2, NoAnswer
<1>3. ASSUME UNCHANGED client, NEW c \in Controllers,
             NEW type \in {"ERROR", "CANDIDATES", "CLOSE"}, SendController(c, type)
      PROVE  AnswerComesLast'
  BY <1>1, <1>3, MessageTypes, NoAnswer, SentAnswers
<1>4. ASSUME NEW c \in Controllers, Respond(c) PROVE AnswerComesLast'
  <2>1. SendController(c, "RESPONSE") /\ pc'[c] \in Answered /\ UNCHANGED client
    BY <1>4 DEF Respond, Answered, TypeInv, TypeOK
  <2> SUFFICES ASSUME NEW d \in Controllers,
                      client[d] = "connected"
                        \/ \E i \in 1 .. Len(toCtl'[d]) : toCtl'[d][i] = "RESPONSE"
               PROVE  pc'[d] \notin {"idle", "looked", "read", "inserted", "notified", "routed"}
    BY <2>1 DEF AnswerComesLast
  <2>2. pc[d] \notin {"idle", "looked", "read", "inserted", "notified", "routed"} \/ d = c
    BY <2>1, MessageTypes, SentAnswers DEF AnswerComesLast
  <2> QED
    BY <1>1, <2>1, <2>2 DEF Advance, Answered, TypeInv, TypeOK, HandlerStates
<1>5. ASSUME NEW c \in Controllers, ControllerStep(c), ~Respond(c) PROVE AnswerComesLast'
  <2>1. UNCHANGED client /\ (Refuse(c) \/ UNCHANGED toCtl)
    BY <1>5 DEF ControllerStep, LookUp, ReadPeer, Insert, LimitExceeded, Notify, NotifyFails,
         AddRoute, ForwardRefresh, ControllerGone, CloseSession, WriteClose, RemoveRoute
  <2> QED
    BY <1>2, <1>3, <2>1 DEF Refuse
<1>6. ASSUME NEW t \in Targets,
             \/ TargetStep(t) \/ AgentReads(t) \/ Online(t) \/ AgentRefreshes(t)
             \/ AgentEnds(t) \/ AgentLost(t)
      PROVE  AnswerComesLast'
  <2>1. CASE ForwardCandidates(t)
    <3>1. PICK c \in fwd[t] : SendController(c, "CANDIDATES")
      BY <2>1 DEF ForwardCandidates
    <3>2. c \in Controllers /\ UNCHANGED client
      BY <2>1 DEF ForwardCandidates, TypeInv, TypeOK
    <3> QED
      BY <1>3, <3>1, <3>2
  <2>2. CASE NotifyController(t)
    <3>1. PICK c \in notifying[t] : SendController(c, "CLOSE")
      BY <2>2 DEF NotifyController
    <3>2. c \in Controllers /\ UNCHANGED client
      BY <2>2 DEF NotifyController, TypeInv, TypeOK
    <3> QED
      BY <1>3, <3>1, <3>2
  <2>3. CASE ~ForwardCandidates(t) /\ ~NotifyController(t)
    <3>1. UNCHANGED <<client, toCtl>>
      BY <1>6, <2>3 DEF TargetStep, RegisterPeer, AssignPort, ReadCandidates, UnregisterPeer,
           Offline, CloseAgent, Online, AgentReads, AgentRefreshes, AgentEnds, AgentLost
    <3> QED
      BY <1>2, <3>1
  <2> QED
    BY <2>1, <2>2, <2>3
<1>7. ASSUME NEW c \in Controllers, ClientReads(c) PROVE AnswerComesLast'
  <2>1. /\ toCtl[c] \in Seq(ControllerMessages) /\ toCtl[c] # <<>> /\ UNCHANGED pc
        /\ toCtl'[c] = Tail(toCtl[c])
        /\ client'[c] = "connected" => client[c] = "connected" \/ Head(toCtl[c]) = "RESPONSE"
        /\ \A d \in Controllers : d # c => toCtl'[d] = toCtl[d] /\ client'[d] = client[d]
    BY <1>7 DEF ClientReads, TypeInv, TypeOK
  <2>2. /\ Len(toCtl[c]) \in Nat \ {0} /\ toCtl[c][1] = Head(toCtl[c])
        /\ Len(toCtl'[c]) = Len(toCtl[c]) - 1
        /\ \A i \in 1 .. Len(toCtl'[c]) : toCtl'[c][i] = toCtl[c][i + 1]
    BY <2>1, HeadTailProperties, LenProperties, EmptySeq
  <2>3. ASSUME NEW i \in 1 .. Len(toCtl'[c]), toCtl'[c][i] = "RESPONSE"
        PROVE  \E j \in 1 .. Len(toCtl[c]) : toCtl[c][j] = "RESPONSE"
    <3>1. i + 1 \in 1 .. Len(toCtl[c]) /\ toCtl[c][i + 1] = "RESPONSE"
      BY <2>2, <2>3
    <3> QED
      BY <3>1
  <2>4. 1 \in 1 .. Len(toCtl[c])
    BY <2>2
  <2> QED
    BY <2>1, <2>2, <2>3, <2>4 DEF AnswerComesLast
<1>8. ASSUME NEW c \in Controllers, ClientEnds(c) PROVE AnswerComesLast'
  <2>1. /\ UNCHANGED pc /\ toCtl'[c] = <<>> /\ client'[c] # "connected"
        /\ \A d \in Controllers : d # c => toCtl'[d] = toCtl[d] /\ client'[d] = client[d]
    BY <1>8 DEF ClientEnds, TypeInv, TypeOK
  <2>2. \A i \in 1 .. Len(toCtl'[c]) : FALSE
    BY <2>1
  <2> QED
    BY <2>1, <2>2 DEF AnswerComesLast
<1>9. ASSUME NEW c \in Controllers, Request(c) PROVE AnswerComesLast'
  <2>1. /\ UNCHANGED <<pc, toCtl>> /\ client'[c] # "connected"
        /\ \A d \in Controllers : d # c => client'[d] = client[d]
    BY <1>9 DEF Request, TypeInv, TypeOK
  <2> QED
    BY <2>1 DEF AnswerComesLast
<1>10. ASSUME NEW c \in Controllers, ReadRefresh(c) \/ ControllerLost(c) \/ Revoke(c)
       PROVE  AnswerComesLast'
  BY <1>2, <1>10 DEF ReadRefresh, ControllerLost, Revoke
<1>11. CASE OtherSessions \/ UNCHANGED vars
  BY <1>2, <1>11 DEF OtherSessions, vars
<1> QED
  BY <1>4, <1>5, <1>6, <1>7, <1>8, <1>9, <1>10, <1>11 DEF Next, Environment

LEMMA InitAnswers == Init => AnswerComesLast
<1> SUFFICES ASSUME Init PROVE AnswerComesLast
  OBVIOUS
<1>1. \A c \in Controllers : Len(toCtl[c]) = 0 /\ client[c] = "idle"
  BY EmptySeq DEF Init
<1> QED
  BY <1>1 DEF AnswerComesLast

\* The controller's token is good when it gets it: HandleConnectRequest writes
\* the CONNECT_NOTIFY before the CONNECT_RESPONSE, on another stream, and the
\* agent will have read it, or its connection is gone (server.go:210-250).
THEOREM CredentialsAreKnown == Spec => []CredentialIsKnown
<1>1. Spec => []AnswerComesLast
  BY TypesHold, InitAnswers, NextAnswers, PTL DEF Spec
<1>2. TypeInv /\ PhaseInv /\ StreamInv /\ AnswerComesLast => CredentialIsKnown
  <2> SUFFICES ASSUME TypeInv, PhaseInv, StreamInv, AnswerComesLast, NEW c \in sessions,
                      client[c] = "connected", tAlive[writer[c]], agent[writer[c]] = "up"
               PROVE  WillHold(writer[c], c)
    BY DEF CredentialIsKnown
  <2>1. c \in Controllers /\ writer[c] \in Targets /\ pc[c] # "inserted"
    BY DEF TypeInv, TypeOK, PhaseInv, SessionIsServed, WriterIsKnown, AnswerComesLast
  <2>2. Holds(toTarget[writer[c]], registry[writer[c]], c)
    BY <2>1 DEF StreamInv, WillBeKnown
  <2> QED
    BY <2>1, <2>2, WillHoldIsHolds DEF TypeInv
<1> QED
  BY <1>1, <1>2, TypesHold, PhasesHold, StreamsHold, PTL
=============================================================================
