------------------------------ MODULE Signaling ------------------------------
(***************************************************************************)
(* Signaling between controllers and one controlled agent: the table of    *)
(* signaling sessions (SessionCoordinator), the handler of every           *)
(* controller connection (CONNECT_REQUEST branch of HandleIncoming-        *)
(* Connection), the handlers of the agent's successive connections as far  *)
(* as sessions are concerned, and the two ends: ConnectTarget with its     *)
(* control loop, and the agent's registry of P2P sessions.                 *)
(*                                                                         *)
(* A session is the credential a controller may use to reach the agent     *)
(* directly, so what matters is when the agent holds it.  A controller     *)
(* connection carries one CONNECT_REQUEST and has at most one session: the *)
(* connection stands for its session identifier.  A step is what a         *)
(* goroutine does between two points where another one can get in: a       *)
(* critical section of the coordinator or a write on a control stream.     *)
(*                                                                         *)
(* How the agent's connection is accepted and replaced is in RelayRegistry *)
(* in detail; here Online and RegisterPeer are its two visible steps.      *)
(* Candidates themselves, tokens, the enrollment of a controller and path  *)
(* selection are left out.                                                 *)
(***************************************************************************)
EXTENDS Integers, Sequences, FiniteSets

CONSTANTS Controllers,  \* controller connections, one CONNECT_REQUEST each
          Targets,      \* successive connections of the one target agent
          Revocable,    \* controllers the console may take out of the policy
          NoTarget,
          MaxSessions,  \* limit of the session table
          MaxOthers,    \* bound: sessions of other agents in the same table
          MaxRefreshes  \* bound: candidate refreshes of all programs together

ASSUME SignalingAssumption ==
  /\ NoTarget \notin Targets /\ Revocable \subseteq Controllers
  /\ MaxSessions \in Nat /\ MaxOthers \in Nat /\ MaxRefreshes \in Nat

VARIABLES
  \* relay: the handler of a controller connection
  pc,        \* where it is
  route,     \* targetSession: the AgentSession it looked up
  writer,    \* targetWriter of its session
  ctlAlive,  \* the relay takes the controller's transport for up
  \* relay: the handler of an agent connection
  tpc,       \* where it is
  tAlive,    \* the relay takes the agent's transport for up
  fwd,       \* sessions whose candidates it has read and not yet forwarded
  notifying, \* controllers UnregisterPeer still has to tell
  \* relay: shared tables
  agents,    \* agentsByDevice[target]
  peer,      \* coordinator.peers[target]
  sessions,  \* coordinator.sessions, those of this agent
  others,    \* and how many there are of other agents
  routes,    \* controllerRoutes of each AgentSession
  allowed,   \* controllers the access policy admits
  \* control streams
  toTarget, fromTarget, toCtl,
  \* the programs at the ends
  agent,     \* the agent's side of a connection
  registry,  \* its p2pSessions
  client,    \* what ConnectTarget and controllerControlLoop are doing
  refreshes

ctlVars    == <<pc, route, writer, ctlAlive>>
targetVars == <<tpc, tAlive, fwd, notifying>>
tableVars  == <<agents, peer, sessions, others, routes, allowed>>
wireVars   == <<toTarget, fromTarget, toCtl>>
endVars    == <<agent, registry, client, refreshes>>
vars == <<ctlVars, targetVars, tableVars, wireVars, endVars>>

HandlerStates == {"idle", "looked", "read", "inserted", "notified", "routed",
                  "serving", "forwarding", "closeSession", "writeClose",
                  "unroute", "done"}
TargetStates == {"idle", "online", "assign", "control", "notifying", "closing", "done"}
ClientStates == {"idle", "waiting", "connected", "revoked", "closed", "failed"}
AgentStates  == {"idle", "waiting", "up", "down"}

Assign == [type |-> "PORT_ASSIGN"]
Message(type, c) == [type |-> type, session |-> c]
TargetMessages ==
  [type : {"NOTIFY", "CANDIDATES", "CLOSE"}, session : Controllers] \cup {Assign}
ControllerMessages == {"RESPONSE", "ERROR", "CANDIDATES", "CLOSE"}

Init ==
  /\ pc = [c \in Controllers |-> "idle"]
  /\ route = [c \in Controllers |-> NoTarget]
  /\ writer = [c \in Controllers |-> NoTarget]
  /\ ctlAlive = [c \in Controllers |-> FALSE]
  /\ tpc = [t \in Targets |-> "idle"]
  /\ tAlive = [t \in Targets |-> FALSE]
  /\ fwd = [t \in Targets |-> {}]
  /\ notifying = [t \in Targets |-> {}]
  /\ agents = NoTarget
  /\ peer = NoTarget
  /\ sessions = {}
  /\ others = 0
  /\ routes = [t \in Targets |-> {}]
  /\ allowed = Controllers
  /\ toTarget = [t \in Targets |-> <<>>]
  /\ fromTarget = [t \in Targets |-> <<>>]
  /\ toCtl = [c \in Controllers |-> <<>>]
  /\ agent = [t \in Targets |-> "idle"]
  /\ registry = [t \in Targets |-> {}]
  /\ client = [c \in Controllers |-> "idle"]
  /\ refreshes = 0

Goto(c, l)  == pc' = [pc EXCEPT ![c] = l]
TGoto(t, l) == tpc' = [tpc EXCEPT ![t] = l]

\* ControlWriter.WriteMessage: a write fails on a transport the relay knows to
\* be closed, and gets lost when nobody reads at the other end any more.
SendTarget(t, msg) ==
  toTarget' = IF tAlive[t] /\ agent[t] # "down"
              THEN [toTarget EXCEPT ![t] = Append(@, msg)] ELSE toTarget
SendController(c, type) ==
  toCtl' = IF ctlAlive[c] /\ client[c] \in {"waiting", "connected"}
           THEN [toCtl EXCEPT ![c] = Append(@, type)] ELSE toCtl


-----------------------------------------------------------------------------
(* The handler of a controller connection.                                 *)

\* The handler returns: the deferred tr.Close() ends the connection.
Return(c) == /\ Goto(c, "done")
             /\ ctlAlive' = [ctlAlive EXCEPT ![c] = FALSE]

\* An ERROR reply and return.
Refuse(c) == SendController(c, "ERROR") /\ Return(c)

\* The authenticated program sends CONNECT_REQUEST.
Request(c) ==
  /\ client[c] = "idle"
  /\ client' = [client EXCEPT ![c] = "waiting"]
  /\ ctlAlive' = [ctlAlive EXCEPT ![c] = TRUE]
  /\ UNCHANGED <<pc, route, writer, targetVars, tableVars, wireVars, agent,
                 registry, refreshes>>

\* controllerCanAccess, then GetAgentByDeviceID.
LookUp(c) ==
  /\ pc[c] = "idle" /\ client[c] # "idle"
  /\ \/ /\ c \in allowed /\ agents # NoTarget
        /\ route' = [route EXCEPT ![c] = agents]
        /\ Goto(c, "looked")
        /\ UNCHANGED <<ctlAlive, toCtl>>
     \/ /\ c \notin allowed \/ agents = NoTarget
        /\ Refuse(c)
        /\ UNCHANGED route
  /\ UNCHANGED <<writer, targetVars, tableVars, toTarget, fromTarget, endVars>>

\* HandleConnectRequest: the first critical section, and authorize.
ReadPeer(c) ==
  /\ pc[c] = "looked"
  /\ \/ /\ peer # NoTarget /\ c \in allowed
        /\ writer' = [writer EXCEPT ![c] = peer]
        /\ Goto(c, "read")
        /\ UNCHANGED <<ctlAlive, toCtl>>
     \/ /\ peer = NoTarget \/ c \notin allowed
        /\ Refuse(c)
        /\ UNCHANGED writer
  /\ UNCHANGED <<route, targetVars, tableVars, toTarget, fromTarget, endVars>>

\* Mutant of Insert: > where the limit check has >=.
InsertPastLimit(c) ==
  /\ pc[c] = "read"
  /\ others + Cardinality(sessions) <= MaxSessions
  /\ sessions' = sessions \cup {c}
  /\ Goto(c, "inserted")
  /\ UNCHANGED <<route, writer, ctlAlive, targetVars, agents, peer, others, routes,
                 allowed, wireVars, endVars>>

\* HandleConnectRequest: the second critical section, limits included (with
\* one agent, its own session count and the table's grow together).
Insert(c) ==
  /\ pc[c] = "read"
  /\ others + Cardinality(sessions) < MaxSessions
  /\ sessions' = sessions \cup {c}
  /\ Goto(c, "inserted")
  /\ UNCHANGED <<route, writer, ctlAlive, targetVars, agents, peer, others, routes,
                 allowed, wireVars, endVars>>

LimitExceeded(c) ==
  /\ pc[c] = "read"
  /\ others + Cardinality(sessions) >= MaxSessions
  /\ Refuse(c)
  /\ UNCHANGED <<route, writer, targetVars, tableVars, toTarget, fromTarget, endVars>>

\* Mutant of Notify: the controller is answered first, the agent is told by a
\* goroutine that never runs.
SkipNotify(c) ==
  /\ pc[c] = "inserted"
  /\ Goto(c, "notified")
  /\ UNCHANGED <<route, writer, ctlAlive, targetVars, tableVars, wireVars, endVars>>

\* HandleConnectRequest: CONNECT_NOTIFY to the agent.
Notify(c) ==
  /\ pc[c] = "inserted"
  /\ tAlive[writer[c]]
  /\ SendTarget(writer[c], Message("NOTIFY", c))
  /\ Goto(c, "notified")
  /\ UNCHANGED <<route, writer, ctlAlive, targetVars, tableVars, fromTarget,
                 toCtl, endVars>>

\* Mutant of NotifyFails: the handler forgets the controller it was serving.
NotifyFailsSilently(c) ==
  /\ pc[c] = "inserted"
  /\ ~tAlive[writer[c]]
  /\ sessions' = sessions \ {c}
  /\ Goto(c, "done")
  /\ UNCHANGED <<route, writer, ctlAlive, targetVars, agents, peer, others, routes,
                 allowed, wireVars, endVars>>

\* ... which cannot be written: CloseSession, whose own message on the same
\* stream fails as well, and an ERROR to the controller.
NotifyFails(c) ==
  /\ pc[c] = "inserted"
  /\ ~tAlive[writer[c]]
  /\ sessions' = sessions \ {c}
  /\ Refuse(c)
  /\ UNCHANGED <<route, writer, targetVars, agents, peer, others, routes, allowed,
                 toTarget, fromTarget, endVars>>

\* registerControllerRoute; from here on the deferred clean-up runs.
AddRoute(c) ==
  /\ pc[c] = "notified"
  /\ routes' = [routes EXCEPT ![route[c]] = @ \cup {c}]
  /\ Goto(c, "routed")
  /\ UNCHANGED <<route, writer, ctlAlive, targetVars, agents, peer, sessions, others,
                 allowed, wireVars, endVars>>

\* Mutant of Respond: CloseSession is deferred only after a successful write.
RespondBeforeDefer(c) ==
  /\ pc[c] = "routed"
  /\ SendController(c, "RESPONSE")
  /\ Goto(c, IF ctlAlive[c] THEN "serving" ELSE "unroute")
  /\ UNCHANGED <<route, writer, ctlAlive, targetVars, tableVars, toTarget,
                 fromTarget, endVars>>

\* registerControllerRoute was called; CONNECT_RESPONSE to the controller.
Respond(c) ==
  /\ pc[c] = "routed"
  /\ SendController(c, "RESPONSE")
  /\ Goto(c, IF ctlAlive[c] THEN "serving" ELSE "closeSession")
  /\ UNCHANGED <<route, writer, ctlAlive, targetVars, tableVars, toTarget,
                 fromTarget, endVars>>

\* A refresh of the controller's candidates reaches the control loop, which
\* looks the session up (ForwardCandidateExchange).
ReadRefresh(c) ==
  /\ pc[c] = "serving" /\ ctlAlive[c]
  /\ client[c] \in {"connected", "revoked"}
  /\ refreshes < MaxRefreshes
  /\ refreshes' = refreshes + 1
  /\ c \in sessions /\ c \in allowed
  /\ Goto(c, "forwarding")
  /\ UNCHANGED <<route, writer, ctlAlive, targetVars, tableVars, wireVars,
                 agent, registry, client>>

\* ... and writes it to the session's agent after the lock is released.
ForwardRefresh(c) ==
  /\ pc[c] = "forwarding"
  /\ SendTarget(writer[c], Message("CANDIDATES", c))
  /\ Goto(c, "serving")
  /\ UNCHANGED <<route, writer, ctlAlive, targetVars, tableVars, fromTarget,
                 toCtl, endVars>>

\* The read on the control stream fails, because the transport is closed or
\* the program has closed its end of the stream, which leaves the transport up
\* for the relay: the deferred calls, last one first.
ControllerGone(c) ==
  /\ pc[c] = "serving"
  /\ ~ctlAlive[c] \/ client[c] \in {"failed", "closed"}
  /\ Goto(c, "closeSession")
  /\ UNCHANGED <<route, writer, ctlAlive, targetVars, tableVars, wireVars, endVars>>

\* Mutant of CloseSession: the agent is not told.
CloseSessionQuietly(c) ==
  /\ pc[c] = "closeSession"
  /\ sessions' = sessions \ {c}
  /\ Goto(c, "unroute")
  /\ UNCHANGED <<route, writer, ctlAlive, targetVars, agents, peer, others, routes,
                 allowed, wireVars, endVars>>

\* CloseSession: the critical section.
CloseSession(c) ==
  /\ pc[c] = "closeSession"
  /\ sessions' = sessions \ {c}
  /\ Goto(c, IF c \in sessions THEN "writeClose" ELSE "unroute")
  /\ UNCHANGED <<route, writer, ctlAlive, targetVars, agents, peer, others, routes,
                 allowed, wireVars, endVars>>

\* CloseSession: SESSION_CLOSE to the agent.
WriteClose(c) ==
  /\ pc[c] = "writeClose"
  /\ SendTarget(writer[c], Message("CLOSE", c))
  /\ Goto(c, "unroute")
  /\ UNCHANGED <<route, writer, ctlAlive, targetVars, tableVars, fromTarget,
                 toCtl, endVars>>

RemoveRoute(c) ==
  /\ pc[c] = "unroute"
  /\ routes' = [routes EXCEPT ![route[c]] = @ \ {c}]
  /\ Return(c)
  /\ UNCHANGED <<route, writer, targetVars, agents, peer, sessions, others, allowed,
                 wireVars, endVars>>

-----------------------------------------------------------------------------
(* The handler of an agent connection.                                     *)

\* registerOnlineAgent: a session that is replaced is closed under the lock.
Online(t) ==
  /\ tpc[t] = "idle"
  /\ \A u \in Targets : agent[u] \in {"idle", "down"}
  /\ tAlive' = [u \in Targets |-> u = t \/ (tAlive[u] /\ u # agents)]
  /\ agents' = t
  /\ agent' = [agent EXCEPT ![t] = "waiting"]
  /\ TGoto(t, "online")
  /\ UNCHANGED <<ctlVars, fwd, notifying, peer, sessions, others, routes, allowed,
                 wireVars, registry, client, refreshes>>

RegisterPeer(t) ==
  /\ tpc[t] = "online"
  /\ peer' = t
  /\ TGoto(t, "assign")
  /\ UNCHANGED <<ctlVars, tAlive, fwd, notifying, agents, sessions, others, routes,
                 allowed, wireVars, endVars>>

AssignPort(t) ==
  /\ tpc[t] = "assign"
  /\ SendTarget(t, Assign)
  /\ TGoto(t, "control")
  /\ UNCHANGED <<ctlVars, tAlive, fwd, notifying, tableVars, fromTarget, toCtl, endVars>>

\* runControlLoop reads a refresh of the agent's candidates and looks the
\* session up.  The session is found by its identifier and the device, so a
\* later connection of the agent could use it too.
ReadCandidates(t) ==
  /\ tpc[t] = "control" /\ tAlive[t] /\ fwd[t] = {}
  /\ fromTarget[t] # <<>>
  /\ fromTarget' = [fromTarget EXCEPT ![t] = Tail(@)]
  /\ fwd' = [fwd EXCEPT ![t] = {Head(fromTarget[t])} \cap sessions \cap allowed]
  /\ UNCHANGED <<ctlVars, tpc, tAlive, notifying, tableVars, toTarget, toCtl, endVars>>

ForwardCandidates(t) ==
  /\ \E c \in fwd[t] : SendController(c, "CANDIDATES")
  /\ fwd' = [fwd EXCEPT ![t] = {}]
  /\ UNCHANGED <<ctlVars, tpc, tAlive, notifying, tableVars, toTarget, fromTarget, endVars>>

\* ReadControlMessage returns an error: the transport is closed, or the agent
\* has closed its control stream, which it does before its transport, and what
\* it had written has been read.
ReadFails(t) ==
  /\ tpc[t] = "control" /\ fwd[t] = {}
  /\ ~tAlive[t] \/ (agent[t] = "down" /\ fromTarget[t] = <<>>)

\* Mutant of UnregisterPeer: an old connection that no longer owns the peer
\* entry returns before it looks at the sessions.
UnregisterOwnerOnly(t) ==
  /\ ReadFails(t)
  /\ peer' = IF peer = t THEN NoTarget ELSE peer
  /\ LET mine == {c \in sessions : peer = t /\ writer[c] = t}
     IN /\ sessions' = sessions \ mine
        /\ notifying' = [notifying EXCEPT ![t] = mine]
  /\ TGoto(t, "notifying")
  /\ UNCHANGED <<ctlVars, tAlive, fwd, agents, others, routes, allowed, wireVars, endVars>>

\* UnregisterPeer, the critical section.  The transport may still be up for the
\* relay: a handler that has copied the writer goes on writing to it.
UnregisterPeer(t) ==
  /\ ReadFails(t)
  /\ peer' = IF peer = t THEN NoTarget ELSE peer
  /\ LET mine == {c \in sessions : writer[c] = t}
     IN /\ sessions' = sessions \ mine
        /\ notifying' = [notifying EXCEPT ![t] = mine]
  /\ TGoto(t, "notifying")
  /\ UNCHANGED <<ctlVars, tAlive, fwd, agents, others, routes, allowed, wireVars, endVars>>

\* UnregisterPeer: SESSION_CLOSE to one controller.
NotifyController(t) ==
  /\ \E c \in notifying[t] :
       /\ SendController(c, "CLOSE")
       /\ notifying' = [notifying EXCEPT ![t] = @ \ {c}]
  /\ UNCHANGED <<ctlVars, tpc, tAlive, fwd, tableVars, toTarget, fromTarget, endVars>>

\* unregisterOnlineAgent: the second critical section.
Offline(t) ==
  /\ tpc[t] = "notifying" /\ notifying[t] = {}
  /\ agents' = IF agents = t THEN NoTarget ELSE agents
  /\ TGoto(t, "closing")
  /\ UNCHANGED <<ctlVars, tAlive, fwd, notifying, peer, sessions, others, routes,
                 allowed, wireVars, endVars>>

\* ... and only then sess.Close(), which closes the transport.
CloseAgent(t) ==
  /\ tpc[t] = "closing"
  /\ tAlive' = [tAlive EXCEPT ![t] = FALSE]
  /\ TGoto(t, "done")
  /\ UNCHANGED <<ctlVars, fwd, notifying, tableVars, wireVars, endVars>>

-----------------------------------------------------------------------------
(* The programs at the two ends, their connections and the access policy.  *)

\* Mutant of AgentReads: a second session is refused while there is a first.
AgentReadsOneSession(t) ==
  /\ agent[t] \in {"waiting", "up"} /\ toTarget[t] # <<>>
  /\ toTarget' = [toTarget EXCEPT ![t] = Tail(@)]
  /\ LET msg == Head(toTarget[t])
     IN \/ /\ agent[t] = "waiting"
           /\ agent' = [agent EXCEPT ![t] = IF msg = Assign THEN "up" ELSE "down"]
           /\ UNCHANGED registry
        \/ /\ agent[t] = "up"
           /\ registry' = [registry EXCEPT ![t] =
                 CASE msg.type = "NOTIFY" /\ @ = {} -> {msg.session}
                   [] msg.type = "CLOSE"  -> @ \ {msg.session}
                   [] OTHER               -> @]
           /\ UNCHANGED agent
  /\ UNCHANGED <<ctlVars, targetVars, tableVars, fromTarget, toCtl, client, refreshes>>

\* controlMessageReader, or connectAndServe before it: the agent reads the
\* next message.  The first one has to be PORT_ASSIGN.
AgentReads(t) ==
  /\ agent[t] \in {"waiting", "up"} /\ toTarget[t] # <<>>
  /\ toTarget' = [toTarget EXCEPT ![t] = Tail(@)]
  /\ LET msg == Head(toTarget[t])
     IN \/ /\ agent[t] = "waiting"
           /\ agent' = [agent EXCEPT ![t] = IF msg = Assign THEN "up" ELSE "down"]
           /\ UNCHANGED registry
        \/ /\ agent[t] = "up"
           /\ registry' = [registry EXCEPT ![t] =
                 CASE msg.type = "NOTIFY" -> @ \cup {msg.session}
                   [] msg.type = "CLOSE"  -> @ \ {msg.session}
                   [] OTHER               -> @]
           /\ UNCHANGED agent
  /\ UNCHANGED <<ctlVars, targetVars, tableVars, fromTarget, toCtl, client, refreshes>>

\* refreshControlledCandidates: the interfaces changed, every controller of a
\* session is told.
AgentRefreshes(t) ==
  /\ agent[t] = "up"
  /\ refreshes < MaxRefreshes
  /\ refreshes' = refreshes + 1
  /\ \E c \in registry[t] : fromTarget' = [fromTarget EXCEPT ![t] = Append(@, c)]
  /\ UNCHANGED <<ctlVars, targetVars, tableVars, toTarget, toCtl, agent, registry, client>>

\* connectAndServe returns: the connection broke, or the program stops.  The
\* deferred close() empties the registry, what was in flight is lost.
AgentEnds(t) ==
  /\ agent[t] \in {"waiting", "up"}
  /\ agent' = [agent EXCEPT ![t] = "down"]
  /\ registry' = [registry EXCEPT ![t] = {}]
  /\ toTarget' = [toTarget EXCEPT ![t] = <<>>]
  /\ UNCHANGED <<ctlVars, targetVars, tableVars, fromTarget, toCtl, client, refreshes>>

\* The relay notices that an agent's connection is gone, or closes it itself.
AgentLost(t) ==
  /\ tAlive[t]
  /\ tAlive' = [tAlive EXCEPT ![t] = FALSE]
  /\ UNCHANGED <<ctlVars, tpc, fwd, notifying, tableVars, wireVars, endVars>>

\* ConnectTarget reads its answer; controllerControlLoop reads on until a
\* SESSION_CLOSE, which closes the path manager but not the connection.
ClientReads(c) ==
  /\ client[c] \in {"waiting", "connected"} /\ toCtl[c] # <<>>
  /\ toCtl' = [toCtl EXCEPT ![c] = Tail(@)]
  /\ client' = [client EXCEPT ![c] =
        CASE @ = "waiting" -> IF Head(toCtl[c]) = "RESPONSE" THEN "connected" ELSE "failed"
          [] @ = "connected" /\ Head(toCtl[c]) = "CLOSE" -> "revoked"
          [] OTHER -> @]
  /\ UNCHANGED <<ctlVars, targetVars, tableVars, toTarget, fromTarget, agent,
                 registry, refreshes>>

\* The controller's connection broke, or the program stops.
ClientEnds(c) ==
  /\ client[c] \in {"waiting", "connected", "revoked"}
  /\ client' = [client EXCEPT ![c] = IF @ = "waiting" THEN "failed" ELSE "closed"]
  /\ toCtl' = [toCtl EXCEPT ![c] = <<>>]
  /\ UNCHANGED <<ctlVars, targetVars, tableVars, toTarget, fromTarget, agent,
                 registry, refreshes>>

\* The relay notices that a controller's connection is gone.
ControllerLost(c) ==
  /\ ctlAlive[c]
  /\ ctlAlive' = [ctlAlive EXCEPT ![c] = FALSE]
  /\ UNCHANGED <<pc, route, writer, targetVars, tableVars, wireVars, endVars>>

\* UpdateAccessPolicy takes a controller out of the policy.
Revoke(c) ==
  /\ c \in allowed \cap Revocable
  /\ allowed' = allowed \ {c}
  /\ UNCHANGED <<ctlVars, targetVars, agents, peer, sessions, others, routes, wireVars, endVars>>

\* Controllers of other agents get sessions and lose them.
OtherSessions ==
  /\ \E n \in 0 .. MaxOthers : /\ n # others
                              /\ n + Cardinality(sessions) <= MaxSessions
                              /\ others' = n
  /\ UNCHANGED <<ctlVars, targetVars, agents, peer, sessions, routes, allowed,
                 wireVars, endVars>>

-----------------------------------------------------------------------------
ControllerStep(c) ==
  \/ LookUp(c) \/ ReadPeer(c) \/ Insert(c) \/ LimitExceeded(c) \/ Notify(c)
  \/ NotifyFails(c) \/ AddRoute(c) \/ Respond(c) \/ ForwardRefresh(c)
  \/ ControllerGone(c) \/ CloseSession(c) \/ WriteClose(c) \/ RemoveRoute(c)

TargetStep(t) ==
  \/ RegisterPeer(t) \/ AssignPort(t) \/ ReadCandidates(t) \/ ForwardCandidates(t)
  \/ UnregisterPeer(t) \/ NotifyController(t) \/ Offline(t) \/ CloseAgent(t)

\* What the programs and the network may do at any time, or never.
Environment ==
  \/ OtherSessions
  \/ \E c \in Controllers : Request(c) \/ ReadRefresh(c) \/ ClientEnds(c)
                            \/ ControllerLost(c) \/ Revoke(c)
  \/ \E t \in Targets : Online(t) \/ AgentRefreshes(t) \/ AgentEnds(t) \/ AgentLost(t)

Next ==
  \/ \E c \in Controllers : ControllerStep(c) \/ ClientReads(c)
  \/ \E t \in Targets : TargetStep(t) \/ AgentReads(t)
  \/ Environment

Spec == Init /\ [][Next]_vars

\* Every goroutine runs on.  A peer that is gone is noticed on both sides of a
\* connection, by its idle timeout at the latest.
Fairness ==
  /\ \A c \in Controllers :
       /\ WF_vars(ControllerStep(c))
       /\ WF_vars(ClientReads(c))
       /\ WF_vars(client[c] \in {"failed", "closed"} /\ ControllerLost(c))
       /\ WF_vars(~ctlAlive[c] /\ toCtl[c] = <<>> /\ ClientEnds(c))
  /\ \A t \in Targets :
       /\ WF_vars(TargetStep(t))
       /\ WF_vars(AgentReads(t))
       /\ WF_vars(agent[t] = "down" /\ AgentLost(t))
       /\ WF_vars(~tAlive[t] /\ AgentEnds(t))

FairSpec == Spec /\ Fairness

-----------------------------------------------------------------------------
(* Properties.                                                             *)

\* Every variable stays in its range, and the session table in its limit,
\* which Insert checks in the critical section that adds (server.go:194-207).
TypeOK ==
  /\ pc \in [Controllers -> HandlerStates]
  /\ route \in [Controllers -> Targets \cup {NoTarget}]
  /\ writer \in [Controllers -> Targets \cup {NoTarget}]
  /\ ctlAlive \in [Controllers -> BOOLEAN]
  /\ tpc \in [Targets -> TargetStates]
  /\ tAlive \in [Targets -> BOOLEAN]
  /\ fwd \in [Targets -> SUBSET Controllers]
  /\ notifying \in [Targets -> SUBSET Controllers]
  /\ agents \in Targets \cup {NoTarget} /\ peer \in Targets \cup {NoTarget}
  /\ sessions \subseteq Controllers 
  /\ others \in 0 .. MaxOthers /\ others + Cardinality(sessions) <= MaxSessions
  /\ routes \in [Targets -> SUBSET Controllers]
  /\ allowed \subseteq Controllers
  /\ toTarget \in [Targets -> Seq(TargetMessages)]
  /\ fromTarget \in [Targets -> Seq(Controllers)]
  /\ toCtl \in [Controllers -> Seq(ControllerMessages)]
  /\ agent \in [Targets -> AgentStates]
  /\ registry \in [Targets -> SUBSET Controllers]
  /\ client \in [Controllers -> ClientStates]
  /\ refreshes \in 0 .. MaxRefreshes

\* What the agent's registry will say of a session once the agent has read
\* what is on the wire.
WillHold(t, c) ==
  LET q == toTarget[t]
      about == {i \in DOMAIN q : q[i] \in {Message("NOTIFY", c), Message("CLOSE", c)}}
  IN IF about = {} THEN c \in registry[t]
     ELSE \E i \in about : q[i].type = "NOTIFY" /\ \A j \in about : j <= i

\* The agent never keeps a credential the relay has given up: whatever takes a
\* session out of the coordinator's table, the agent that was notified of it
\* has been, or is about to be, told to remove it, unless its connection is
\* gone ("so direct TCP credentials and UDP goroutines are revoked",
\* server.go:296-297).
NoStaleCredential ==
  \A t \in Targets, c \in Controllers :
    (tAlive[t] /\ agent[t] = "up" /\ WillHold(t, c)) =>
      c \in sessions \/ pc[c] = "writeClose"

\* The other way round: when a controller has its token, the agent has been told
\* of it, or the message is in its stream with nothing behind it that takes the
\* credential back (server.go:220 comes before agent_manager.go:393).
CredentialIsKnown ==
  \A c \in sessions :
    (client[c] = "connected" /\ tAlive[writer[c]] /\ agent[writer[c]] = "up") =>
      WillHold(writer[c], c)

\* A refresh of the controller's candidates never reaches an agent that does
\* not know the session: p2pSessions.update would drop it silently.
RefreshFindsItsSession ==
  \A t \in Targets : (agent[t] = "up" /\ toTarget[t] # <<>>) =>
    \A c \in Controllers :
      Head(toTarget[t]) = Message("CANDIDATES", c) => c \in registry[t]

\* Neither a session nor a route outlives the handler that made it, on any of
\* its ways out.
NothingOutlivesItsHandler ==
  \A c \in Controllers : pc[c] \in {"idle", "looked", "read", "done"} =>
    c \notin sessions /\ \A t \in Targets : c \notin routes[t]

\* A controller whose session was in the table while the agent's connection was
\* being served finds out when the session is gone or that connection has ended
\* (UnregisterPeer, server.go:108-130), however far the answer to its request
\* had got by then.  A session that HandleConnectRequest inserts after
\* UnregisterPeer has looked through the table is not promised that.
ControllerLearns ==
  \A c \in Controllers :
    []((c \in sessions /\ tpc[writer[c]] = "control") =>
         ((client[c] = "connected" /\ (c \notin sessions \/ tpc[writer[c]] = "done"))
            ~> client[c] # "connected"))

\* Every CONNECT_REQUEST comes to an end for the program that sent it, which
\* reads its answer without a deadline (controller.go:75).
ControllerIsAnswered ==
  \A c \in Controllers : client[c] = "waiting" ~> client[c] # "waiting"

\* A controller that is gone leaves no credential behind at the agent.
GoneMeansRevoked ==
  \A c \in Controllers :
    client[c] \in {"failed", "closed"} ~> \A t \in Targets : c \notin registry[t]

\* The agent's registration is answered by PORT_ASSIGN before anything else is
\* written on its control stream: connectAndServe gives up on any other first
\* message (client.go:163-170).
PortAssignComesFirst ==
  \A t \in Targets : (agent[t] = "waiting" /\ toTarget[t] # <<>>) =>
    Head(toTarget[t]) = Assign
=============================================================================
