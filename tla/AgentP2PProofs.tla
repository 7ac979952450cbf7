---------------------------- MODULE AgentP2PProofs -----------------------------
(***************************************************************************)
(* Theorems about AgentP2P: the agent closes no channel twice and sends to *)
(* none that is closed, and its guard counts the direct connections it     *)
(* serves.                                                                 *)
(*                                                                         *)
(* Five goroutines close channels: the control message reader (an updates  *)
(* channel, when a session is replaced or removed), connectAndServe (all   *)
(* that the registry and the dispatcher hold), and every handler (its own  *)
(* packets channel).  Each does it for what it takes out of a map, so the  *)
(* argument is that a map holds only open channels, and each of them under *)
(* one identifier, its session's own.                                      *)
(*                                                                         *)
(* The guard is the work of the accept loop and of every connection's      *)
(* goroutine: an entry counts the connections between their Acquire and    *)
(* their release, so each step moves one connection and one entry, and the *)
(* sweep that comes with an Acquire takes entries that count nobody.       *)
(***************************************************************************)
EXTENDS AgentP2P, FiniteSetTheorems, TLAPS

TypeOK ==
  /\ sessions \in [Ids -> Notified \cup {Nobody}]
  /\ dispatch \in [Ids -> Notified \cup {Nobody}]
  /\ id \in [Notified -> Ids \cup {Nobody}]
  /\ updatesClosed \subseteq Notified
  /\ packets \in [Notified -> {"none", "open", "closed"}]
  /\ handler \in [Notified -> {"none", "start", "punch", "serve", "close", "done"}]

\* A session nobody was notified of has no channels; one that has not been to the
\* dispatcher has none there.
Untouched ==
  \A n \in Notified :
    /\ handler[n] = "none" => n \notin updatesClosed
    /\ handler[n] # "none" => id[n] \in Ids
    /\ handler[n] \in {"none", "start"} => packets[n] = "none"

\* The registry holds open channels, each under its session's identifier.
RegistryIsOpen ==
  \A i \in Ids : sessions[i] # Nobody =>
    /\ sessions[i] \notin updatesClosed
    /\ id[sessions[i]] = i /\ handler[sessions[i]] # "none"

\* So does the dispatcher.
DispatcherIsOpen ==
  \A i \in Ids : dispatch[i] # Nobody =>
    packets[dispatch[i]] = "open" /\ id[dispatch[i]] = i

IInv == TypeOK /\ Untouched /\ RegistryIsOpen /\ DispatcherIsOpen /\ NeverPanics

\* Steps of direct connections, of the loops and of what follows the closes.
channels == <<panicked, sessions, id, updatesClosed, dispatch, packets, handler>>

LEMMA Quiet == ASSUME IInv, UNCHANGED channels PROVE IInv'
BY DEF IInv, TypeOK, Untouched, RegistryIsOpen, DispatcherIsOpen, NeverPanics, channels

LEMMA InitIsOpen == Init => IInv
BY DEF Init, IInv, TypeOK, Untouched, RegistryIsOpen, DispatcherIsOpen, NeverPanics

\* CONNECT_NOTIFY: the session it replaces is in the registry, so still open.
LEMMA NotifyStep == ASSUME P2PAssumption, IInv, Notify PROVE IInv'
<1>1. PICK n \in Notified, i \in Ids :
        /\ handler[n] = "none"
        /\ sessions' = [sessions EXCEPT ![i] = n] /\ id' = [id EXCEPT ![n] = i]
        /\ handler' = [handler EXCEPT ![n] = "start"]
        /\ updatesClosed' = updatesClosed \cup ({sessions[i]} \ {Nobody})
        /\ panicked' = (panicked \/ sessions[i] \in updatesClosed)
  BY DEF Notify
<1>2. UNCHANGED <<dispatch, packets>>
  BY DEF Notify, dispatcher
<1>3. Nobody \notin Notified
  BY DEF P2PAssumption
<1>4. sessions[i] \notin updatesClosed
  BY <1>3 DEF IInv, TypeOK, RegistryIsOpen
<1>5. NeverPanics'
  BY <1>1, <1>4 DEF IInv, NeverPanics
<1>6. TypeOK'
  BY <1>1, <1>2 DEF IInv, TypeOK
<1>7. \A j \in Ids : sessions[j] # n /\ dispatch[j] # n
  BY <1>1, <1>3 DEF IInv, RegistryIsOpen, DispatcherIsOpen, Untouched
<1>8. Untouched'
  BY <1>1, <1>2, <1>7 DEF IInv, TypeOK, Untouched, RegistryIsOpen
<1>9. RegistryIsOpen'
  BY <1>1, <1>3, <1>7 DEF IInv, TypeOK, Untouched, RegistryIsOpen
<1>10. DispatcherIsOpen'
  BY <1>1, <1>2, <1>7 DEF IInv, TypeOK, DispatcherIsOpen
<1> QED
  BY <1>5, <1>6, <1>8, <1>9, <1>10 DEF IInv

\* CANDIDATE_EXCHANGE sends to a session in the registry.
LEMMA UpdateStep == ASSUME IInv, Update PROVE IInv'
<1>1. UNCHANGED <<sessions, id, updatesClosed, dispatch, packets, handler>>
  BY DEF Update, registry, dispatcher, punching
<1>2. NeverPanics'
  <2>1. PICK i \in Entries(sessions) : panicked' = (panicked \/ sessions[i] \in updatesClosed)
    BY DEF Update
  <2>2. sessions[i] \notin updatesClosed
    BY <2>1 DEF Entries, IInv, TypeOK, RegistryIsOpen
  <2> QED
    BY <2>1, <2>2 DEF IInv, NeverPanics
<1> QED
  BY <1>1, <1>2 DEF IInv, TypeOK, Untouched, RegistryIsOpen, DispatcherIsOpen

\* SESSION_CLOSE takes the session out with its channel.
LEMMA RemoveStep == ASSUME IInv, Remove PROVE IInv'
<1>1. PICK i \in Entries(sessions) :
        /\ sessions' = [sessions EXCEPT ![i] = Nobody]
        /\ updatesClosed' = updatesClosed \cup {sessions[i]}
        /\ panicked' = (panicked \/ sessions[i] \in updatesClosed)
  BY DEF Remove
<1>2. UNCHANGED <<id, dispatch, packets, handler>>
  BY DEF Remove, dispatcher, punching
<1>3. i \in Ids /\ sessions[i] \in Notified /\ sessions[i] # Nobody
  BY <1>1 DEF Entries, IInv, TypeOK
<1>4. TypeOK' /\ Untouched' /\ DispatcherIsOpen' /\ NeverPanics'
  BY <1>1, <1>2, <1>3
  DEF IInv, TypeOK, Untouched, RegistryIsOpen, DispatcherIsOpen, NeverPanics
<1>5. RegistryIsOpen'
  BY <1>1, <1>2, <1>3 DEF IInv, TypeOK, RegistryIsOpen
<1> QED
  BY <1>4, <1>5 DEF IInv

\* The deferred calls of connectAndServe close what the maps still hold.
LEMMA ClosingStep == ASSUME IInv, Closing PROVE IInv'
<1>1. CASE CloseDone \/ CloseListener \/ CancelConn
  <2>1. UNCHANGED channels
    BY <1>1 DEF CloseDone, CloseListener, CancelConn, registry, dispatcher, punching, channels
  <2> QED
    BY <2>1, Quiet
<1>2. CASE CloseDispatcher
  <2> DEFINE all == {dispatch[i] : i \in Entries(dispatch)}
  <2>1. /\ panicked' = (panicked \/ \E n \in all : packets[n] = "closed")
        /\ packets' = [n \in Notified |-> IF n \in all THEN "closed" ELSE packets[n]]
        /\ dispatch' = [i \in Ids |-> Nobody]
    BY <1>2 DEF CloseDispatcher
  <2>2. UNCHANGED <<sessions, id, updatesClosed, handler>>
    BY <1>2 DEF CloseDispatcher, registry, punching
  <2>3. \A n \in all : packets[n] = "open"
    BY DEF Entries, IInv, TypeOK, DispatcherIsOpen
  <2>4. NeverPanics'
    BY <2>1, <2>3 DEF IInv, NeverPanics
  <2>5. TypeOK' /\ DispatcherIsOpen'
    BY <2>1, <2>2 DEF IInv, TypeOK, DispatcherIsOpen
  <2>6. Untouched' /\ RegistryIsOpen'
    BY <2>1, <2>2, <2>3 DEF IInv, TypeOK, Untouched, RegistryIsOpen
  <2> QED
    BY <2>4, <2>5, <2>6 DEF IInv
<1>3. CASE CloseRegistry
  <2> DEFINE all == {sessions[i] : i \in Entries(sessions)}
  <2>1. /\ panicked' = (panicked \/ all \cap updatesClosed # {})
        /\ updatesClosed' = updatesClosed \cup all
        /\ sessions' = [i \in Ids |-> Nobody]
    BY <1>3 DEF CloseRegistry
  <2>2. UNCHANGED <<id, dispatch, packets, handler>>
    BY <1>3 DEF CloseRegistry, dispatcher, punching
  <2>3. \A n \in all : n \in Notified /\ n \notin updatesClosed /\ handler[n] # "none"
    BY DEF Entries, IInv, TypeOK, RegistryIsOpen
  <2>4. NeverPanics'
    BY <2>1, <2>3 DEF IInv, NeverPanics
  <2>5. TypeOK' /\ DispatcherIsOpen' /\ RegistryIsOpen'
    BY <2>1, <2>2, <2>3 DEF IInv, TypeOK, DispatcherIsOpen, RegistryIsOpen
  <2>6. Untouched'
    BY <2>1, <2>2, <2>3 DEF IInv, TypeOK, Untouched
  <2> QED
    BY <2>4, <2>5, <2>6 DEF IInv
<1> QED
  BY <1>1, <1>2, <1>3 DEF Closing

\* readLoop sends to a session the dispatcher holds.
LEMMA DeliverStep == ASSUME IInv, Deliver PROVE IInv'
<1>1. UNCHANGED <<sessions, id, updatesClosed, dispatch, packets, handler>>
  BY DEF Deliver, registry, punching
<1>2. NeverPanics'
  <2>1. PICK i \in Entries(dispatch) : panicked' = (panicked \/ packets[dispatch[i]] = "closed")
    BY DEF Deliver
  <2>2. packets[dispatch[i]] = "open"
    BY <2>1 DEF Entries, IInv, TypeOK, DispatcherIsOpen
  <2> QED
    BY <2>1, <2>2 DEF IInv, NeverPanics
<1> QED
  BY <1>1, <1>2 DEF IInv, TypeOK, Untouched, RegistryIsOpen, DispatcherIsOpen

\* What Register returned: the channel it closes is the one the dispatcher holds.
LEMMA ReleaseStep ==
  ASSUME P2PAssumption, IInv, NEW n \in Notified, handler[n] \notin {"none", "start"},
         Release(n), HandlerDone(n), UNCHANGED <<sessions, id, updatesClosed>>
  PROVE  IInv'
<1>1. id[n] \in Ids /\ handler' = [handler EXCEPT ![n] = "done"]
  BY DEF IInv, Untouched, HandlerDone
<1>2. CASE dispatch[id[n]] = n
  <2>1. /\ dispatch' = [dispatch EXCEPT ![id[n]] = Nobody]
        /\ packets' = [packets EXCEPT ![n] = "closed"]
        /\ panicked' = (panicked \/ packets[n] = "closed")
    BY <1>2 DEF Release
  <2>2. NeverPanics'
    <3>1. packets[n] = "open"
      BY <1>1, <1>2 DEF P2PAssumption, IInv, DispatcherIsOpen
    <3> QED
      BY <2>1, <3>1 DEF IInv, NeverPanics
  <2>3. TypeOK' /\ Untouched' /\ RegistryIsOpen'
    BY <1>1, <2>1 DEF IInv, TypeOK, Untouched, RegistryIsOpen
  <2>4. DispatcherIsOpen'
    BY <1>1, <2>1 DEF IInv, TypeOK, DispatcherIsOpen
  <2> QED
    BY <2>2, <2>3, <2>4 DEF IInv
<1>3. CASE dispatch[id[n]] # n
  <2>1. UNCHANGED <<dispatch, packets, panicked>>
    BY <1>3 DEF Release
  <2> QED
    BY <1>1, <2>1 DEF IInv, TypeOK, Untouched, RegistryIsOpen, DispatcherIsOpen, NeverPanics
<1> QED
  BY <1>2, <1>3

LEMMA HandlerStep ==
  ASSUME P2PAssumption, IInv, NEW n \in Notified, Handler(n) \/ Receiver(n)
  PROVE  IInv'
<1>1. CASE Register(n)
  <2>1. UNCHANGED <<panicked, sessions, id, updatesClosed>> /\ handler[n] = "start"
    BY <1>1 DEF Register, registry
  <2>2. CASE handler' = [handler EXCEPT ![n] = "done"] /\ UNCHANGED <<dispatch, packets>>
    BY <2>1, <2>2
    DEF IInv, TypeOK, Untouched, RegistryIsOpen, DispatcherIsOpen, NeverPanics
  <2>3. CASE /\ dispatch' = [dispatch EXCEPT ![id[n]] = n]
             /\ packets' = [packets EXCEPT ![n] = "open"]
             /\ handler' = [handler EXCEPT ![n] = "punch"]
    <3>1. id[n] \in Ids
      BY <2>1 DEF IInv, Untouched
    <3>2. TypeOK' /\ Untouched' /\ NeverPanics'
      BY <2>1, <2>3, <3>1 DEF IInv, TypeOK, Untouched, NeverPanics
    <3>3. RegistryIsOpen' /\ DispatcherIsOpen'
      BY <2>1, <2>3, <3>1 DEF IInv, TypeOK, RegistryIsOpen, DispatcherIsOpen
    <3> QED
      BY <3>2, <3>3 DEF IInv
  <2> QED
    BY <1>1, <2>2, <2>3 DEF Register, HandlerDone
<1>2. CASE PunchFails(n) \/ CloseResult(n)
  <2>1. /\ handler[n] \notin {"none", "start"} /\ Release(n) /\ HandlerDone(n)
        /\ UNCHANGED <<sessions, id, updatesClosed>>
    BY <1>2 DEF PunchFails, CloseResult, registry
  <2> QED
    BY <2>1, ReleaseStep
<1>3. CASE PunchSucceeds(n) \/ ServeEnds(n)
  <2>1. /\ UNCHANGED <<panicked, sessions, id, updatesClosed, dispatch, packets>>
        /\ handler[n] \notin {"none", "start"}
        /\ \/ handler' = [handler EXCEPT ![n] = "serve"]
           \/ handler' = [handler EXCEPT ![n] = "close"]
    BY <1>3 DEF PunchSucceeds, ServeEnds, registry, dispatcher
  <2> QED
    BY <2>1 DEF IInv, TypeOK, Untouched, RegistryIsOpen, DispatcherIsOpen, NeverPanics
<1>4. CASE Receiver(n)
  <2>1. UNCHANGED channels
    BY <1>4 DEF Receiver, Receive, ReceiverIdles, ReceiverEnds, registry, dispatcher, punching,
                channels
  <2> QED
    BY <2>1, Quiet
<1> QED
  BY <1>1, <1>2, <1>3, <1>4 DEF Handler

\* Direct connections only look at the registry.
LEMMA DirectStep ==
  ASSUME IInv, Accept \/ (\E c \in Conns : Served(c))
  PROVE  IInv'
<1>1. UNCHANGED channels
  BY DEF Accept, Served, Admit, Authenticate, AuthFails, BridgeEnds, LeaveGuard, LeaveSemaphore,
         registry, dispatcher, punching, channels
<1> QED
  BY <1>1, Quiet

\* The agent never panics on a channel: whatever sequence of notifications,
\* candidate exchanges and revocations meets the handlers, the receive loop of the
\* dispatcher and the end of the relay connection, for any number of sessions and
\* direct connections (p2p_sessions.go:45-101, udp_dispatcher.go:68-166).
THEOREM AgentNeverPanics == ASSUME P2PAssumption PROVE Spec => []NeverPanics
<1>1. Init => IInv
  BY InitIsOpen
<1>2. IInv /\ [Next]_vars => IInv'
  <2> SUFFICES ASSUME IInv, [Next]_vars PROVE IInv'
    OBVIOUS
  <2>1. CASE Notify \/ Update \/ Remove \/ Closing \/ Deliver
    BY <2>1, NotifyStep, UpdateStep, RemoveStep, ClosingStep, DeliverStep
  <2>2. CASE \E n \in Notified : Handler(n) \/ Receiver(n)
    BY <2>2, HandlerStep
  <2>3. CASE Accept \/ (\E c \in Conns : Served(c))
    BY <2>3, DirectStep
  <2>4. CASE UNCHANGED vars
    <3>1. UNCHANGED channels
      BY <2>4 DEF vars, registry, dispatcher, punching, channels
    <3> QED
      BY <3>1, Quiet
  <2> QED
    BY <2>1, <2>2, <2>3, <2>4 DEF Next
<1>3. IInv => NeverPanics
  BY DEF IInv
<1> QED
  BY <1>1, <1>2, <1>3, PTL DEF Spec

-----------------------------------------------------------------------------
(* The guard.                                                              *)

InGuard == {"admitted", "auth", "bridge", "over"}
ConnStates == {"new", "released", "closed"} \cup InGuard
Held(a) == {c \in Conns : from[c] = a /\ conn[c] \in InGuard}

GuardTypeOK ==
  /\ conn \in [Conns -> ConnStates]
  /\ from \in [Conns -> Addrs \cup {Nobody}]
  /\ DOMAIN active \subseteq Addrs /\ active \in [DOMAIN active -> Nat]
  /\ \A c \in Conns : conn[c] \in InGuard => from[c] \in Addrs

\* What GuardCountsConnections says of one address.
Counted(a) == Count(active, a) = Cardinality(Held(a)) /\ Cardinality(Held(a)) <= MaxConcurrent

GuardInv == GuardTypeOK /\ \A a \in Addrs : Counted(a)

LEMMA GuardInvIsTheProperty == GuardInv => GuardCountsConnections
BY DEF GuardInv, Counted, Held, InGuard, GuardCountsConnections

LEMMA OneMoreConn ==
  ASSUME P2PAssumption, NEW S \in SUBSET Conns, NEW c \in Conns \ S
  PROVE  Cardinality(S) \in Nat /\ Cardinality(S \cup {c}) = Cardinality(S) + 1
<1>1. IsFiniteSet(S)
  BY FS_Subset DEF P2PAssumption
<1> QED
  BY <1>1, FS_AddElement, FS_CardinalityType

LEMMA OneConnLess ==
  ASSUME P2PAssumption, NEW S \in SUBSET Conns, NEW c \in S
  PROVE  /\ Cardinality(S) \in Nat \ {0}
         /\ Cardinality(S \ {c}) = Cardinality(S) - 1
<1> DEFINE T == S \ {c}
<1>1. T \in SUBSET Conns /\ c \in Conns \ T /\ S = T \cup {c}
  OBVIOUS
<1>2. Cardinality(T) \in Nat /\ Cardinality(T \cup {c}) = Cardinality(T) + 1
  BY <1>1, OneMoreConn
<1> QED
  BY <1>1, <1>2

LEMMA InitIsCounted == ASSUME P2PAssumption PROVE Init => GuardInv
<1> SUFFICES ASSUME Init PROVE GuardInv
  OBVIOUS
<1>1. conn = [c \in Conns |-> "new"] /\ from = [c \in Conns |-> Nobody] /\ active = [a \in {} |-> 0]
  BY DEF Init
<1>2. GuardTypeOK
  BY <1>1 DEF GuardTypeOK, ConnStates, InGuard
<1>3. \A a : Held(a) = {}
  BY <1>1 DEF Held, InGuard
<1>4. \A a : Count(active, a) = 0
  BY <1>1 DEF Count
<1> QED
  BY <1>2, <1>3, <1>4, FS_EmptySet DEF GuardInv, Counted, P2PAssumption

\* A connection that moves on within the guard, or outside it, changes no count.
LEMMA GuardStays ==
  ASSUME GuardInv, UNCHANGED <<from, active>>,
         NEW c \in Conns, NEW s \in ConnStates, conn' = [conn EXCEPT ![c] = s],
         conn[c] \in InGuard <=> s \in InGuard
  PROVE  GuardInv'
<1>1. GuardTypeOK'
  BY DEF GuardInv, GuardTypeOK
<1>2. \A a \in Addrs : Held(a)' = Held(a)
  BY DEF GuardInv, GuardTypeOK, Held
<1>3. \A a \in Addrs : Counted(a)'
  BY <1>2 DEF GuardInv, Counted, Count
<1> QED
  BY <1>1, <1>3 DEF GuardInv

LEMMA GuardUntouched == ASSUME GuardInv, UNCHANGED tcp PROVE GuardInv'
BY DEF GuardInv, GuardTypeOK, Counted, Count, Held, tcp

\* The sweep takes no count away.
LEMMA SweptCountsTheSame ==
  ASSUME GuardTypeOK, NEW entries \in Swept
  PROVE  /\ DOMAIN entries \subseteq DOMAIN active /\ entries \in [DOMAIN entries -> Nat]
         /\ \A a : Count(entries, a) = Count(active, a)
<1>1. PICK D \in SUBSET {x \in DOMAIN active : active[x] = 0} :
        entries = [x \in DOMAIN active \ D |-> active[x]]
  BY DEF Swept
<1>2. DOMAIN entries = DOMAIN active \ D /\ \A x \in DOMAIN entries : entries[x] = active[x]
  BY <1>1
<1>3. entries \in [DOMAIN entries -> Nat]
  BY <1>1, <1>2 DEF GuardTypeOK
<1>4. \A a : Count(entries, a) = Count(active, a)
  BY <1>2 DEF Count
<1> QED
  BY <1>2, <1>3, <1>4

LEMMA AcceptIsCounted == ASSUME P2PAssumption, GuardInv, Accept PROVE GuardInv'
<1>1. PICK c \in Conns, a \in Addrs : 
        /\ conn[c] = "new" /\ from' = [from EXCEPT ![c] = a]
        /\ \E entries \in Swept :
             \/ /\ Count(entries, a) < MaxConcurrent
                /\ conn' = [conn EXCEPT ![c] = "admitted"]
                /\ active' = [x \in DOMAIN entries \cup {a} |->
                                Count(entries, x) + IF x = a THEN 1 ELSE 0]
             \/ /\ conn' = [conn EXCEPT ![c] = "closed"]
                /\ active' = [x \in DOMAIN entries \cup {a} |-> Count(entries, x)]
  BY DEF Accept
<1>2. PICK entries \in Swept :
        \/ /\ Count(entries, a) < MaxConcurrent
           /\ conn' = [conn EXCEPT ![c] = "admitted"]
           /\ active' = [x \in DOMAIN entries \cup {a} |->
                           Count(entries, x) + IF x = a THEN 1 ELSE 0]
        \/ /\ conn' = [conn EXCEPT ![c] = "closed"]
           /\ active' = [x \in DOMAIN entries \cup {a} |-> Count(entries, x)]
  BY <1>1
<1>3. GuardTypeOK
  BY DEF GuardInv
<1>4. /\ DOMAIN entries \subseteq Addrs /\ entries \in [DOMAIN entries -> Nat]
      /\ \A b : Count(entries, b) = Count(active, b)
  BY <1>3, SweptCountsTheSame DEF GuardTypeOK
<1>5. \A b : Count(entries, b) \in Nat /\ (b \notin DOMAIN entries => Count(entries, b) = 0)
  BY <1>4 DEF Count
<1>6. c \notin Held(a) /\ \A b \in Addrs : c \notin Held(b) /\ Held(b) \in SUBSET Conns
  BY <1>1 DEF Held, InGuard
<1>7. CASE /\ Count(entries, a) < MaxConcurrent
           /\ conn' = [conn EXCEPT ![c] = "admitted"]
           /\ active' = [x \in DOMAIN entries \cup {a} |->
                           Count(entries, x) + IF x = a THEN 1 ELSE 0]
  <2>1. DOMAIN active' = DOMAIN entries \cup {a} /\ active' \in [DOMAIN active' -> Nat]
    BY <1>5, <1>7
  <2>2. GuardTypeOK'
    BY <1>1, <1>3, <1>4, <1>7, <2>1 DEF GuardTypeOK, ConnStates, InGuard
  <2>3. \A b \in Addrs : Count(active', b) = Count(active, b) + IF b = a THEN 1 ELSE 0
    BY <1>4, <1>5, <1>7, <2>1 DEF Count
  <2>4. Held(a)' = Held(a) \cup {c} /\ \A b \in Addrs \ {a} : Held(b)' = Held(b)
    BY <1>1, <1>3, <1>7 DEF Held, InGuard, GuardTypeOK
  <2>5. Counted(a)'
    <3>1. Cardinality(Held(a)) \in Nat /\ Cardinality(Held(a)') = Cardinality(Held(a)) + 1
      BY <1>6, <2>4, OneMoreConn
    <3>2. Count(active', a) = Cardinality(Held(a)) + 1
      BY <2>3 DEF GuardInv, Counted
    <3>3. Cardinality(Held(a)) < MaxConcurrent /\ MaxConcurrent \in Nat
      BY <1>4, <1>7 DEF GuardInv, Counted, P2PAssumption
    <3> QED
      BY <3>1, <3>2, <3>3 DEF Counted
  <2>6. \A b \in Addrs \ {a} : Counted(b)'
    BY <1>4, <1>5, <2>3, <2>4 DEF GuardInv, Counted
  <2> QED
    BY <2>2, <2>5, <2>6 DEF GuardInv
<1>8. CASE /\ conn' = [conn EXCEPT ![c] = "closed"]
           /\ active' = [x \in DOMAIN entries \cup {a} |-> Count(entries, x)]
  <2>1. DOMAIN active' = DOMAIN entries \cup {a} /\ active' \in [DOMAIN active' -> Nat]
    BY <1>5, <1>8
  <2>2. GuardTypeOK'
    BY <1>1, <1>3, <1>4, <1>8, <2>1 DEF GuardTypeOK, ConnStates, InGuard
  <2>3. \A b \in Addrs : Count(active', b) = Count(active, b)
    BY <1>4, <1>5, <1>8, <2>1 DEF Count
  <2>4. \A b \in Addrs : Held(b)' = Held(b)
    BY <1>1, <1>3, <1>8 DEF Held, InGuard, GuardTypeOK
  <2>5. \A b \in Addrs : Counted(b)'
    BY <2>3, <2>4 DEF GuardInv, Counted
  <2> QED
    BY <2>2, <2>5 DEF GuardInv
<1> QED
  BY <1>2, <1>7, <1>8

\* A release finds the entry of its connection: it counts at least that one.
LEMMA LeaveIsCounted ==
  ASSUME P2PAssumption, GuardInv, NEW c \in Conns, conn[c] \in InGuard, ReleaseIP(c),
         NEW s \in {"closed", "released"}, conn' = [conn EXCEPT ![c] = s], UNCHANGED from
  PROVE  GuardInv'
<1> DEFINE a == from[c]
<1>1. a \in Addrs /\ GuardTypeOK /\ Counted(a)
  BY DEF GuardInv, GuardTypeOK
<1>2. c \in Held(a) /\ Held(a) \in SUBSET Conns
  BY DEF Held
<1>3. /\ Cardinality(Held(a)) \in Nat \ {0}
      /\ Cardinality(Held(a) \ {c}) = Cardinality(Held(a)) - 1
  BY <1>2, OneConnLess
<1>4. a \in DOMAIN active /\ active[a] = Cardinality(Held(a))
  BY <1>1, <1>3 DEF Counted, Count
<1>5. DOMAIN active' = DOMAIN active /\ active'[a] = active[a] - 1
      /\ \A x \in DOMAIN active \ {a} : active'[x] = active[x]
  BY <1>3, <1>4 DEF ReleaseIP
<1>6. active' \in [DOMAIN active' -> Nat]
  BY <1>1, <1>3, <1>4 DEF ReleaseIP, GuardTypeOK
<1>7. GuardTypeOK'
  BY <1>1, <1>5, <1>6 DEF GuardTypeOK, ConnStates, InGuard
<1>8. Held(a)' = Held(a) \ {c} /\ \A b \in Addrs \ {a} : Held(b)' = Held(b)
  BY <1>1 DEF Held, InGuard, GuardTypeOK
<1>9. Counted(a)'
  <2>1. Count(active', a) = Cardinality(Held(a)) - 1
    BY <1>4, <1>5 DEF Count
  <2>2. Cardinality(Held(a)) <= MaxConcurrent /\ MaxConcurrent \in Nat
    BY <1>1 DEF Counted, P2PAssumption
  <2> QED
    BY <1>3, <1>8, <2>1, <2>2 DEF Counted
<1>10. \A b \in Addrs \ {a} : Counted(b)'
  BY <1>5, <1>8 DEF GuardInv, Counted, Count
<1> QED
  BY <1>7, <1>9, <1>10 DEF GuardInv

LEMMA ServedIsCounted ==
  ASSUME P2PAssumption, GuardInv, NEW c \in Conns, Served(c)
  PROVE  GuardInv'
<1>1. CASE Admit(c)
  <2>1. CASE conn' = [conn EXCEPT ![c] = "auth"] /\ UNCHANGED active
    BY <1>1, <2>1, GuardStays DEF Admit, ConnStates, InGuard
  <2>2. CASE conn' = [conn EXCEPT ![c] = "closed"] /\ ReleaseIP(c)
    BY <1>1, <2>2, LeaveIsCounted DEF Admit, InGuard
  <2> QED
    BY <1>1, <2>1, <2>2 DEF Admit
<1>2. CASE Authenticate(c)
  BY <1>2, GuardStays DEF Authenticate, ConnStates, InGuard
<1>3. CASE AuthFails(c)
  BY <1>3, GuardStays DEF AuthFails, ConnStates, InGuard
<1>4. CASE BridgeEnds(c)
  BY <1>4, GuardStays DEF BridgeEnds, ConnStates, InGuard
<1>5. CASE LeaveGuard(c)
  BY <1>5, LeaveIsCounted DEF LeaveGuard, InGuard
<1>6. CASE LeaveSemaphore(c)
  BY <1>6, GuardStays DEF LeaveSemaphore, ConnStates, InGuard
<1> QED
  BY <1>1, <1>2, <1>3, <1>4, <1>5, <1>6 DEF Served

LEMMA OtherStepsLeaveTheGuard ==
  ASSUME \/ Notify \/ Update \/ Remove \/ Closing \/ Deliver
         \/ \E n \in Notified : Handler(n) \/ Receiver(n)
  PROVE  UNCHANGED tcp
<1>1. CASE Notify \/ Update \/ Remove \/ Deliver
  BY <1>1 DEF Notify, Update, Remove, Deliver
<1>2. CASE Closing
  BY <1>2 DEF Closing, CloseDone, CloseDispatcher, CloseRegistry, CloseListener, CancelConn
<1>3. CASE \E n \in Notified : Handler(n) \/ Receiver(n)
  BY <1>3 DEF Handler, Receiver, Register, PunchSucceeds, PunchFails, ServeEnds, CloseResult,
              Receive, ReceiverIdles, ReceiverEnds
<1> QED
  BY <1>1, <1>2, <1>3

\* The guard's count of an address is the number of its connections between their
\* Acquire and their release, and within the limit, for any number of connections,
\* addresses and limits: refusals by the semaphore, sweeps and releases in any order
\* neither lose a connection nor keep one (ip_guard.go:46-101, direct_tcp.go:17-45).
THEOREM GuardIsExact == ASSUME P2PAssumption PROVE Spec => []GuardCountsConnections
<1>1. Init => GuardInv
  BY InitIsCounted
<1>2. GuardInv /\ [Next]_vars => GuardInv'
  <2> SUFFICES ASSUME GuardInv, [Next]_vars PROVE GuardInv'
    OBVIOUS
  <2>1. CASE Accept
    BY <2>1, AcceptIsCounted
  <2>2. CASE \E c \in Conns : Served(c)
    BY <2>2, ServedIsCounted
  <2>3. CASE \/ Notify \/ Update \/ Remove \/ Closing \/ Deliver
             \/ \E n \in Notified : Handler(n) \/ Receiver(n)
    BY <2>3, OtherStepsLeaveTheGuard, GuardUntouched
  <2>4. CASE UNCHANGED vars
    BY <2>4, GuardUntouched DEF vars
  <2> QED
    BY <2>1, <2>2, <2>3, <2>4 DEF Next
<1>3. GuardInv => GuardCountsConnections
  BY GuardInvIsTheProperty
<1> QED
  BY <1>1, <1>2, <1>3, PTL DEF Spec
=============================================================================
