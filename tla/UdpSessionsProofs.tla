--------------------------- MODULE UdpSessionsProofs ---------------------------
(***************************************************************************)
(* Theorems about UdpSessions: who owns the local sockets of the agent,    *)
(* and what the relay's session counts count.                              *)
(*                                                                         *)
(* SocketsAreOwned is not inductive.  Between the look-up of an identifier *)
(* and AddSessionWithID the datagram loop works without the lock, so the   *)
(* proof has to know that nobody else enters the identifier meanwhile,     *)
(* which would leave the socket it replaces behind, and that the socket    *)
(* the loop has dialled is its own.                                        *)
(*                                                                         *)
(* CountsAreTrue is inductive once the tables are typed; what its proof    *)
(* needs is that one entry more or less is one more or less to count.      *)
(***************************************************************************)
EXTENDS UdpSessions, FiniteSetTheorems, TLAPS

TypeOK ==
  /\ byKey \in [DOMAIN byKey -> SessionIds]
  /\ toAgent \subseteq SessionIds
  /\ table \in [DOMAIN table -> Sockets]
  /\ socket \in [Sockets -> {"unused", "open", "closed"}]
  /\ closing \subseteq Sockets
  /\ loop \in [at : {"receive", "dial", "add", "write", "done"}, id : SessionIds \cup {0},
               socket : Sockets \cup {NoSocket}]

\* Only the loop enters sessions: the identifier it did not find stays free.
IdIsFree == loop.at \in {"dial", "add"} => loop.id \notin DOMAIN table

\* What it has dialled belongs to nobody else.
DialledIsOwn ==
  loop.at = "add" =>
    /\ loop.socket \in Sockets /\ socket[loop.socket] = "open"
    /\ loop.socket \notin closing
    /\ \A id \in DOMAIN table : table[id] # loop.socket

\* A socket that is about to be closed has been used.
ClosingWasOpen == \A s \in closing : socket[s] # "unused"

IInv == TypeOK /\ IdIsFree /\ DialledIsOwn /\ ClosingWasOpen /\ SocketsAreOwned

\* The relay's steps, and those of readers and sweepers that take nothing out.
agentSockets == <<table, socket, closing, loop>>

LEMMA Quiet ==
  ASSUME IInv, UNCHANGED agentSockets,
         byKey' \in [DOMAIN byKey' -> SessionIds], toAgent' \subseteq SessionIds
  PROVE  IInv'
BY DEF IInv, TypeOK, IdIsFree, DialledIsOwn, ClosingWasOpen, SocketsAreOwned, agentSockets

LEMMA InitIsOwned == Init => IInv
<1> SUFFICES ASSUME Init PROVE IInv
  OBVIOUS
<1>1. /\ byKey \in [DOMAIN byKey -> SessionIds]
      /\ table \in [DOMAIN table -> Sockets]
      /\ DOMAIN table = {}
  BY DEF Init, NoEntries
<1>2. TypeOK
  BY <1>1 DEF Init, TypeOK, Receiving
<1> QED
  BY <1>1, <1>2 DEF Init, IInv, IdIsFree, DialledIsOwn, ClosingWasOpen, SocketsAreOwned, Receiving

\* byKey keeps its range whichever entries come and go.
RelayTypes == byKey \in [DOMAIN byKey -> SessionIds] /\ toAgent \subseteq SessionIds

LEMMA RelayStep == ASSUME IInv, Relay \/ Lose PROVE IInv'
<1>1. UNCHANGED agent
  BY DEF Relay, Lose, ClientKnown, ClientNew, Reply, RelayIdles, RelaySweep, RelayRemove,
         RelayClose
<1>2. RelayTypes
  BY DEF IInv, TypeOK, RelayTypes
<1>3. RelayTypes'
  <2>1. ASSUME NEW c \in Clients, ClientKnown(c) PROVE RelayTypes'
    BY <1>2, <2>1 DEF RelayTypes, ClientKnown
  <2>2. ASSUME NEW c \in Clients, ClientNew(c) PROVE RelayTypes'
    <3>1. PICK id \in SessionIds : byKey' = With(byKey, c, id) /\ toAgent' = toAgent \cup {id}
      BY <2>2 DEF ClientNew
    <3> QED
      BY <1>2, <3>1 DEF RelayTypes, With
  <2>3. CASE RelayRemove
    <3>1. PICK id \in relayExpired :
            byKey' = Without(byKey, {byID[id]}) \/ UNCHANGED byKey
      BY <2>3 DEF RelayRemove
    <3>2. UNCHANGED toAgent
      BY <2>3 DEF RelayRemove, wire
    <3> QED
      BY <1>2, <3>1, <3>2 DEF RelayTypes, Without
  <2>4. CASE RelayClose
    <3>1. byKey' = NoEntries /\ UNCHANGED toAgent
      BY <2>4 DEF RelayClose, wire
    <3> QED
      BY <1>2, <3>1 DEF RelayTypes, NoEntries
  <2>5. CASE Reply \/ RelayIdles \/ RelaySweep
    BY <1>2, <2>5 DEF RelayTypes, Reply, RelayIdles, RelaySweep, wire
  <2>6. CASE Lose
    BY <1>2, <2>6 DEF RelayTypes, Lose, relay
  <2> QED
    BY <2>1, <2>2, <2>3, <2>4, <2>5, <2>6 DEF Relay
<1> QED
  BY <1>1, <1>3, Quiet DEF agent, agentSockets, RelayTypes

\* The datagram loop.
LEMMA LoopStep == ASSUME IInv, Loop PROVE IInv'
<1>1. UNCHANGED <<byKey, closing>> /\ toAgent' \subseteq SessionIds
  BY DEF Loop, LoopReceive, LoopDial, LoopDialFails, LoopAdd, LoopRefused, LoopWrite, LoopEnds,
         relay, wire, IInv, TypeOK
<1>2. CASE LoopReceive
  <2>1. UNCHANGED <<table, socket>> /\ loop'.at \in {"write", "dial"}
    BY <1>2 DEF LoopReceive
  <2>2. PICK id \in toAgent :
          loop' = IF id \in DOMAIN table
                  THEN [at |-> "write", id |-> id, socket |-> table[id]]
                  ELSE [at |-> "dial", id |-> id, socket |-> NoSocket]
    BY <1>2 DEF LoopReceive
  <2>3. /\ loop'.at # "add" /\ loop.at # "add"
        /\ loop'.at = "dial" => loop'.id \notin DOMAIN table
    BY <1>2, <2>2 DEF LoopReceive
  <2>4. TypeOK'
    <3>1. id \in SessionIds \cup {0} /\ (id \in DOMAIN table => table[id] \in Sockets)
      BY DEF IInv, TypeOK
    <3>2. loop' \in [at : {"receive", "dial", "add", "write", "done"},
                     id : SessionIds \cup {0}, socket : Sockets \cup {NoSocket}]
      BY <2>2, <3>1
    <3> QED
      BY <1>1, <2>1, <3>2 DEF IInv, TypeOK
  <2>5. IdIsFree' /\ DialledIsOwn' /\ ClosingWasOpen'
    BY <1>1, <2>1, <2>3 DEF IInv, IdIsFree, DialledIsOwn, ClosingWasOpen
  <2>6. SocketsAreOwned'
    BY <1>1, <2>1, <2>3 DEF IInv, SocketsAreOwned
  <2> QED
    BY <2>4, <2>5, <2>6 DEF IInv
<1>3. CASE LoopDial
  <2>1. PICK s \in Sockets :
          /\ socket[s] = "unused"
          /\ socket' = [socket EXCEPT ![s] = "open"]
          /\ loop' = [loop EXCEPT !.at = "add", !.socket = s]
    BY <1>3 DEF LoopDial
  <2>2. UNCHANGED table /\ loop.at = "dial"
    BY <1>3 DEF LoopDial
  <2> QED
    BY <1>1, <2>1, <2>2
    DEF IInv, TypeOK, IdIsFree, DialledIsOwn, ClosingWasOpen, SocketsAreOwned
<1>4. CASE LoopAdd
  <2>1. /\ loop.at = "add"
        /\ table' = With(table, loop.id, loop.socket)
        /\ loop' = [loop EXCEPT !.at = "write"] /\ UNCHANGED socket
    BY <1>4 DEF LoopAdd
  <2>2. /\ DOMAIN table' = DOMAIN table \cup {loop.id} /\ loop.id \notin DOMAIN table
        /\ table'[loop.id] = loop.socket
        /\ \A x \in DOMAIN table : table'[x] = table[x]
        /\ table' \in [DOMAIN table' -> Sockets]
    BY <2>1 DEF With, IInv, TypeOK, IdIsFree, DialledIsOwn
  <2>3. TypeOK' /\ IdIsFree' /\ DialledIsOwn' /\ ClosingWasOpen'
    BY <1>1, <2>1, <2>2 DEF IInv, TypeOK, IdIsFree, DialledIsOwn, ClosingWasOpen
  <2>4. SocketsAreOwned'
    BY <1>1, <2>1, <2>2 DEF IInv, TypeOK, DialledIsOwn, SocketsAreOwned
  <2> QED
    BY <2>3, <2>4 DEF IInv
<1>5. CASE LoopRefused
  <2>1. /\ loop.at = "add" /\ loop' = Receiving /\ UNCHANGED table
        /\ socket' = [socket EXCEPT ![loop.socket] = "closed"]
    BY <1>5 DEF LoopRefused
  <2> QED
    BY <1>1, <2>1
    DEF IInv, TypeOK, IdIsFree, DialledIsOwn, ClosingWasOpen, SocketsAreOwned, Receiving
<1>6. CASE LoopDialFails \/ LoopWrite \/ LoopEnds
  <2>1. /\ UNCHANGED <<table, socket>> /\ loop.at # "add"
        /\ loop' = Receiving \/ loop' = [loop EXCEPT !.at = "done"]
    BY <1>6 DEF LoopDialFails, LoopWrite, LoopEnds
  <2> QED
    BY <1>1, <2>1
    DEF IInv, TypeOK, IdIsFree, DialledIsOwn, ClosingWasOpen, SocketsAreOwned, Receiving
<1> QED
  BY <1>2, <1>3, <1>4, <1>5, <1>6 DEF Loop

\* Readers, sweeper and Close.
LEMMA AgentStep == ASSUME IInv, Agent PROVE IInv'
<1>1. CASE Loop
  BY <1>1, LoopStep
<1>2. CASE ReaderGets \/ ReaderEnds \/ ReaderFails \/ AgentIdles \/ AgentSweep
  <2>1. UNCHANGED agentSockets /\ UNCHANGED <<byKey, toAgent>>
    BY <1>2 DEF ReaderGets, ReaderEnds, ReaderFails, AgentIdles, AgentSweep, relay, wire,
                agentSockets
  <2> QED
    BY <2>1, Quiet DEF IInv, TypeOK
<1>3. CASE AgentRemove
  <2>1. PICK id \in agentExpired :
          /\ table' = Without(table, {id})
          /\ closing' = closing \cup (IF id \in DOMAIN table THEN {table[id]} ELSE {})
    BY <1>3 DEF AgentRemove
  <2>2. UNCHANGED <<byKey, toAgent, socket, loop>>
    BY <1>3 DEF AgentRemove, relay, wire
  <2>3. /\ DOMAIN table' = DOMAIN table \ {id} /\ table' \in [DOMAIN table' -> Sockets]
        /\ \A x \in DOMAIN table' : table'[x] = table[x]
    BY <2>1 DEF Without, IInv, TypeOK
  <2>4. CASE id \notin DOMAIN table
    <3>1. closing' = closing
      BY <2>1, <2>4
    <3>2. DOMAIN table' = DOMAIN table /\ table' = table
      BY <2>1, <2>3, <2>4 DEF Without, IInv, TypeOK
    <3> QED
      BY <2>2, <3>1, <3>2, Quiet DEF agentSockets, IInv, TypeOK
  <2>5. CASE id \in DOMAIN table
    <3>1. /\ closing' = closing \cup {table[id]} /\ table[id] \in Sockets
          /\ socket[table[id]] = "open"
      BY <2>1, <2>5 DEF IInv, TypeOK, SocketsAreOwned
    <3>2. TypeOK' /\ IdIsFree'
      BY <2>2, <2>3, <3>1 DEF IInv, TypeOK, IdIsFree
    <3>3. DialledIsOwn' /\ ClosingWasOpen'
      BY <2>2, <2>3, <2>5, <3>1 DEF IInv, DialledIsOwn, ClosingWasOpen
    <3>4. ASSUME NEW s \in Sockets, socket[s] = "open"
          PROVE  \/ s \in closing'
                 \/ loop.at = "add" /\ loop.socket = s
                 \/ \E x \in DOMAIN table' : table'[x] = s
      BY <2>3, <3>1, <3>4 DEF IInv, SocketsAreOwned
    <3>5. ASSUME NEW x \in DOMAIN table'
          PROVE  /\ socket[table'[x]] = "open" /\ table'[x] \notin closing'
                 /\ \A other \in DOMAIN table' : table'[other] = table'[x] => other = x
      <4>1. x \in DOMAIN table /\ x # id /\ table'[x] = table[x]
        BY <2>3, <3>5
      <4> QED
        BY <2>3, <2>5, <3>1, <4>1 DEF IInv, SocketsAreOwned
    <3>6. SocketsAreOwned'
      BY <2>2, <3>4, <3>5 DEF SocketsAreOwned
    <3> QED
      BY <3>2, <3>3, <3>6 DEF IInv
  <2> QED
    BY <2>4, <2>5
<1>4. CASE CloseSocket
  <2>1. PICK s \in closing : closing' = closing \ {s} /\ socket' = [socket EXCEPT ![s] = "closed"]
    BY <1>4 DEF CloseSocket
  <2>2. UNCHANGED <<byKey, toAgent, table, loop>>
    BY <1>4 DEF CloseSocket, relay, wire
  <2>3. /\ s \in Sockets /\ socket' \in [Sockets -> {"unused", "open", "closed"}]
        /\ socket'[s] = "closed"
        /\ \A t \in Sockets : t # s => socket'[t] = socket[t]
    BY <2>1 DEF IInv, TypeOK
  <2>4. TypeOK' /\ IdIsFree' /\ DialledIsOwn' /\ ClosingWasOpen'
    BY <2>1, <2>2, <2>3 DEF IInv, TypeOK, IdIsFree, DialledIsOwn, ClosingWasOpen
  <2>5. SocketsAreOwned'
    BY <2>1, <2>2, <2>3 DEF IInv, TypeOK, SocketsAreOwned
  <2> QED
    BY <2>4, <2>5 DEF IInv
<1>5. CASE AgentClose
  <2>1. /\ closing' = closing \cup {table[id] : id \in DOMAIN table}
        /\ table' = NoEntries /\ UNCHANGED <<byKey, toAgent, socket, loop>>
    BY <1>5 DEF AgentClose, relay, wire
  <2>2. DOMAIN table' = {} /\ table' \in [DOMAIN table' -> Sockets]
    BY <2>1 DEF NoEntries
  <2>3. \A s \in closing' :
           s \in Sockets /\ (s \in closing \/ (\E id \in DOMAIN table : s = table[id]))
    BY <2>1 DEF IInv, TypeOK
  <2>4. TypeOK' /\ IdIsFree'
    BY <2>1, <2>2, <2>3 DEF IInv, TypeOK, IdIsFree
  <2>5. DialledIsOwn' /\ ClosingWasOpen'
    BY <2>1, <2>2, <2>3 DEF IInv, DialledIsOwn, ClosingWasOpen, SocketsAreOwned
  <2>6. SocketsAreOwned'
    BY <2>1, <2>2 DEF IInv, SocketsAreOwned
  <2> QED
    BY <2>4, <2>5, <2>6 DEF IInv
<1> QED
  BY <1>1, <1>2, <1>3, <1>4, <1>5 DEF Agent

LEMMA Owned == Spec => []IInv
<1>1. Init => IInv
  BY InitIsOwned
<1>2. ASSUME IInv, [Next]_vars PROVE IInv'
  <2>1. CASE Relay \/ Lose
    BY <1>2, <2>1, RelayStep
  <2>2. CASE Agent
    BY <1>2, <2>2, AgentStep
  <2>3. CASE UNCHANGED vars
    <3>1. UNCHANGED agentSockets /\ UNCHANGED <<byKey, toAgent>>
      BY <2>3 DEF vars, relay, agent, wire, agentSockets
    <3> QED
      BY <1>2, <3>1, Quiet DEF IInv, TypeOK
  <2> QED
    BY <1>2, <2>1, <2>2, <2>3 DEF Next
<1> QED
  BY <1>1, <1>2, PTL DEF Spec

\* Every local socket the agent has open is in its session table, about to be
\* closed, or just dialled, and no session of the table has a socket that is closed
\* or another's: for any number of sessions, sockets and limits (session.go:190-265,
\* client.go:332-348).
THEOREM LocalSocketsAreOwned == Spec => []SocketsAreOwned
<1>1. IInv => SocketsAreOwned
  BY DEF IInv
<1> QED
  BY <1>1, Owned, PTL

-----------------------------------------------------------------------------
(* The relay's tables and counts.                                          *)

RelayTypeOK ==
  /\ byID \in [DOMAIN byID -> Clients] /\ DOMAIN byID \subseteq SessionIds
  /\ byKey \in [DOMAIN byKey -> SessionIds]
  /\ perIP \in [Addrs -> Nat]

RelayInv == RelayTypeOK /\ CountsAreTrue

\* The sessions of an address.
Of(f, a) == {id \in DOMAIN f : f[id][1] = a}

\* A session more: its own address has one more, the others have what they had.
LEMMA OneMore ==
  ASSUME NEW f, NEW id, id \notin DOMAIN f, NEW c, NEW a, IsFiniteSet(DOMAIN f)
  PROVE  /\ Cardinality(Of(With(f, id, c), a)) =
              IF a = c[1] THEN Cardinality(Of(f, a)) + 1 ELSE Cardinality(Of(f, a))
         /\ Cardinality(DOMAIN With(f, id, c)) = Cardinality(DOMAIN f) + 1
<1> DEFINE g == With(f, id, c)
<1>1. /\ DOMAIN g = DOMAIN f \cup {id} /\ g[id] = c
      /\ \A x \in DOMAIN f : g[x] = f[x]
  BY DEF With
<1>2. Of(f, a) \subseteq DOMAIN f /\ IsFiniteSet(Of(f, a))
  BY FS_Subset DEF Of
<1> HIDE DEF g
<1>3. Of(g, a) = IF a = c[1] THEN Of(f, a) \cup {id} ELSE Of(f, a)
  BY <1>1 DEF Of
<1>4. id \notin Of(f, a)
  BY <1>2
<1> QED
  BY <1>1, <1>2, <1>3, <1>4, FS_AddElement DEF g

\* A session less.
LEMMA OneLess ==
  ASSUME NEW f, NEW id \in DOMAIN f, NEW a, IsFiniteSet(DOMAIN f)
  PROVE  /\ Cardinality(Of(Without(f, {id}), a)) =
              IF a = f[id][1] THEN Cardinality(Of(f, a)) - 1 ELSE Cardinality(Of(f, a))
         /\ Cardinality(DOMAIN Without(f, {id})) = Cardinality(DOMAIN f) - 1
<1> DEFINE g == Without(f, {id})
<1>1. DOMAIN g = DOMAIN f \ {id} /\ \A x \in DOMAIN g : g[x] = f[x]
  BY DEF Without
<1>2. Of(f, a) \subseteq DOMAIN f /\ IsFiniteSet(Of(f, a))
  BY FS_Subset DEF Of
<1> HIDE DEF g
<1>3. Of(g, a) = IF a = f[id][1] THEN Of(f, a) \ {id} ELSE Of(f, a)
  BY <1>1 DEF Of
<1>4. a = f[id][1] => id \in Of(f, a)
  BY DEF Of
<1> QED
  BY <1>1, <1>2, <1>3, <1>4, FS_RemoveElement DEF g

LEMMA CountsOf ==
  CountsAreTrue <=>
    /\ \A id \in DOMAIN byID : byID[id] \in DOMAIN byKey /\ byKey[byID[id]] = id
    /\ \A c \in DOMAIN byKey : byKey[c] \in DOMAIN byID /\ byID[byKey[c]] = c
    /\ \A a \in Addrs : perIP[a] = Cardinality(Of(byID, a)) /\ perIP[a] <= MaxPerIP
    /\ Cardinality(DOMAIN byID) <= MaxSessions
BY DEF CountsAreTrue, Of

LEMMA InitCounts == SessionsAssumption /\ Init => RelayInv
<1> SUFFICES ASSUME SessionsAssumption, Init PROVE RelayInv
  OBVIOUS
<1>1. DOMAIN byID = {} /\ DOMAIN byKey = {} /\ \A a \in Addrs : perIP[a] = 0
  BY DEF Init, NoEntries
<1>2. Cardinality(DOMAIN byID) = 0 /\ \A a \in Addrs : Of(byID, a) = {}
  BY <1>1, FS_EmptySet DEF Of
<1>3. RelayTypeOK
  BY <1>1 DEF RelayTypeOK, Init, NoEntries
<1>4. \A a \in Addrs : perIP[a] = Cardinality(Of(byID, a)) /\ perIP[a] <= MaxPerIP
  BY <1>1, <1>2, FS_EmptySet DEF SessionsAssumption
<1>5. Cardinality(DOMAIN byID) <= MaxSessions
  BY <1>2 DEF SessionsAssumption
<1> QED
  BY <1>1, <1>3, <1>4, <1>5, CountsOf DEF RelayInv

LEMMA NewCounts ==
  ASSUME SessionsAssumption, RelayInv, NEW c \in Clients, ClientNew(c) PROVE RelayInv'
<1>1. PICK id \in SessionIds \ DOMAIN byID : byID' = With(byID, id, c) /\ byKey' = With(byKey, c, id)
  BY DEF ClientNew
<1>2. /\ c \notin DOMAIN byKey /\ c[1] \in Addrs /\ perIP[c[1]] < MaxPerIP
      /\ Cardinality(DOMAIN byID) < MaxSessions
      /\ perIP' = [perIP EXCEPT ![c[1]] = @ + 1]
  BY DEF ClientNew, Clients
<1>3. IsFiniteSet(DOMAIN byID)
  BY FS_Subset DEF SessionsAssumption, RelayInv, RelayTypeOK
<1>4. /\ DOMAIN byID' = DOMAIN byID \cup {id} /\ byID'[id] = c
      /\ \A x \in DOMAIN byID : byID'[x] = byID[x]
      /\ DOMAIN byKey' = DOMAIN byKey \cup {c} /\ byKey'[c] = id
      /\ \A x \in DOMAIN byKey : byKey'[x] = byKey[x]
  <2>1. byID' = [x \in DOMAIN byID \cup {id} |-> IF x = id THEN c ELSE byID[x]]
    BY <1>1 DEF With
  <2>2. byKey' = [x \in DOMAIN byKey \cup {c} |-> IF x = c THEN id ELSE byKey[x]]
    BY <1>1 DEF With
  <2>3. /\ DOMAIN byID' = DOMAIN byID \cup {id} /\ byID'[id] = c
        /\ \A x \in DOMAIN byID : byID'[x] = byID[x]
    BY <2>1
  <2>4. /\ DOMAIN byKey' = DOMAIN byKey \cup {c} /\ byKey'[c] = id
        /\ \A x \in DOMAIN byKey : byKey'[x] = byKey[x]
    BY <1>2, <2>2
  <2> QED
    BY <2>3, <2>4
<1>5. RelayTypeOK'
  <2>1. byID' \in [DOMAIN byID' -> Clients] /\ DOMAIN byID' \subseteq SessionIds
    BY <1>1, <1>4 DEF RelayInv, RelayTypeOK, With
  <2>2. byKey' \in [DOMAIN byKey' -> SessionIds]
    BY <1>1, <1>4 DEF RelayInv, RelayTypeOK, With
  <2>3. perIP' \in [Addrs -> Nat]
    BY <1>2 DEF RelayInv, RelayTypeOK
  <2> QED
    BY <2>1, <2>2, <2>3 DEF RelayTypeOK
<1>6. ASSUME NEW a \in Addrs
      PROVE  perIP'[a] = Cardinality(Of(byID', a)) /\ perIP'[a] <= MaxPerIP
  <2>1. perIP[a] = Cardinality(Of(byID, a)) /\ perIP[a] <= MaxPerIP /\ perIP[a] \in Nat
    BY CountsOf DEF RelayInv, RelayTypeOK
  <2>2. Cardinality(Of(byID', a)) =
          IF a = c[1] THEN Cardinality(Of(byID, a)) + 1 ELSE Cardinality(Of(byID, a))
    BY <1>1, <1>3, OneMore
  <2>3. perIP'[a] = IF a = c[1] THEN perIP[a] + 1 ELSE perIP[a]
    BY <1>2 DEF RelayInv, RelayTypeOK
  <2> QED
    BY <1>2, <2>1, <2>2, <2>3 DEF SessionsAssumption
<1>7. Cardinality(DOMAIN byID') <= MaxSessions
  <2>1. Cardinality(DOMAIN byID') = Cardinality(DOMAIN byID) + 1 /\ Cardinality(DOMAIN byID) \in Nat
    BY <1>1, <1>3, OneMore, FS_CardinalityType
  <2> QED
    BY <1>2, <2>1 DEF SessionsAssumption
<1>8. /\ \A x \in DOMAIN byID' : byID'[x] \in DOMAIN byKey' /\ byKey'[byID'[x]] = x
      /\ \A d \in DOMAIN byKey' : byKey'[d] \in DOMAIN byID' /\ byID'[byKey'[d]] = d
  <2>1. /\ \A x \in DOMAIN byID : byID[x] \in DOMAIN byKey /\ byKey[byID[x]] = x
        /\ \A d \in DOMAIN byKey : byKey[d] \in DOMAIN byID /\ byID[byKey[d]] = d
    BY CountsOf DEF RelayInv
  <2> QED
    BY <1>2, <1>4, <2>1
<1> QED
  BY <1>5, <1>6, <1>7, <1>8 DEF RelayInv, CountsAreTrue, Of

LEMMA RemoveCounts == ASSUME SessionsAssumption, RelayInv, RelayRemove PROVE RelayInv'
<1>1. PICK id \in relayExpired :
        IF id \in DOMAIN byID
        THEN /\ byID' = Without(byID, {id}) /\ byKey' = Without(byKey, {byID[id]})
             /\ perIP' = [perIP EXCEPT ![byID[id][1]] = IF @ > 1 THEN @ - 1 ELSE 0]
        ELSE UNCHANGED <<byID, byKey, perIP>>
  BY DEF RelayRemove
<1>2. CASE id \notin DOMAIN byID
  BY <1>1, <1>2 DEF RelayInv, RelayTypeOK, CountsAreTrue
<1>3. CASE id \in DOMAIN byID
  <2>1. /\ byID' = Without(byID, {id}) /\ byKey' = Without(byKey, {byID[id]})
        /\ perIP' = [perIP EXCEPT ![byID[id][1]] = IF @ > 1 THEN @ - 1 ELSE 0]
    BY <1>1, <1>3
  <2>2. IsFiniteSet(DOMAIN byID)
    BY FS_Subset DEF SessionsAssumption, RelayInv, RelayTypeOK
  <2>3. /\ DOMAIN byID' = DOMAIN byID \ {id} /\ \A x \in DOMAIN byID' : byID'[x] = byID[x]
        /\ DOMAIN byKey' = DOMAIN byKey \ {byID[id]}
        /\ \A x \in DOMAIN byKey' : byKey'[x] = byKey[x]
    BY <2>1 DEF Without
  <2>4. byID[id] \in Clients /\ byID[id][1] \in Addrs
    BY <1>3 DEF RelayInv, RelayTypeOK, Clients
  <2>5. RelayTypeOK'
    <3>1. byID' \in [DOMAIN byID' -> Clients] /\ DOMAIN byID' \subseteq SessionIds
      BY <2>1, <2>3 DEF RelayInv, RelayTypeOK, Without
    <3>2. byKey' \in [DOMAIN byKey' -> SessionIds]
      BY <2>1, <2>3 DEF RelayInv, RelayTypeOK, Without
    <3>3. perIP' \in [Addrs -> Nat]
      BY <2>1, <2>4 DEF RelayInv, RelayTypeOK
    <3> QED
      BY <3>1, <3>2, <3>3 DEF RelayTypeOK
  <2>6. ASSUME NEW a \in Addrs
        PROVE  perIP'[a] = Cardinality(Of(byID', a)) /\ perIP'[a] <= MaxPerIP
    <3>1. perIP[a] = Cardinality(Of(byID, a)) /\ perIP[a] <= MaxPerIP /\ perIP[a] \in Nat
      BY CountsOf DEF RelayInv, RelayTypeOK
    <3>2. Cardinality(Of(byID', a)) =
            IF a = byID[id][1] THEN Cardinality(Of(byID, a)) - 1 ELSE Cardinality(Of(byID, a))
      BY <1>3, <2>1, <2>2, OneLess
    <3>3. perIP'[a] = IF a = byID[id][1] THEN (IF perIP[a] > 1 THEN perIP[a] - 1 ELSE 0)
                      ELSE perIP[a]
      BY <2>1 DEF RelayInv, RelayTypeOK
    <3>4. Of(byID', a) \in SUBSET DOMAIN byID /\ IsFiniteSet(Of(byID', a))
      <4>1. Of(byID', a) \in SUBSET DOMAIN byID
        BY <2>3 DEF Of
      <4> QED
        BY <2>2, <4>1, FS_Subset
    <3>5. Cardinality(Of(byID', a)) \in Nat
      BY <3>4, FS_CardinalityType
    <3> QED
      BY <3>1, <3>2, <3>3, <3>5 DEF SessionsAssumption
  <2>7. Cardinality(DOMAIN byID') <= MaxSessions
    <3>1. Cardinality(DOMAIN byID') = Cardinality(DOMAIN byID) - 1
      BY <1>3, <2>1, <2>2, OneLess
    <3>2. Cardinality(DOMAIN byID) \in Nat /\ Cardinality(DOMAIN byID) <= MaxSessions
      BY <2>2, FS_CardinalityType, CountsOf DEF RelayInv
    <3> QED
      BY <3>1, <3>2 DEF SessionsAssumption
  <2>8. /\ \A x \in DOMAIN byID' : byID'[x] \in DOMAIN byKey' /\ byKey'[byID'[x]] = x
        /\ \A d \in DOMAIN byKey' : byKey'[d] \in DOMAIN byID' /\ byID'[byKey'[d]] = d
    <3>1. /\ \A x \in DOMAIN byID : byID[x] \in DOMAIN byKey /\ byKey[byID[x]] = x
          /\ \A d \in DOMAIN byKey : byKey[d] \in DOMAIN byID /\ byID[byKey[d]] = d
      BY CountsOf DEF RelayInv
    <3> QED
      BY <1>3, <2>3, <3>1
  <2> QED
    BY <2>5, <2>6, <2>7, <2>8 DEF RelayInv, CountsAreTrue, Of
<1> QED
  BY <1>2, <1>3

LEMMA CloseCounts == ASSUME SessionsAssumption, RelayInv, RelayClose PROVE RelayInv'
<1>1. byID' = NoEntries /\ byKey' = NoEntries /\ perIP' = [a \in Addrs |-> 0]
  BY DEF RelayClose
<1>2. DOMAIN byID' = {} /\ DOMAIN byKey' = {} /\ \A a \in Addrs : perIP'[a] = 0
  BY <1>1 DEF NoEntries
<1>3. Cardinality(DOMAIN byID') = 0 /\ \A a \in Addrs : Of(byID', a) = {}
  BY <1>2, FS_EmptySet DEF Of
<1>4. RelayTypeOK'
  BY <1>1, <1>2 DEF RelayTypeOK, NoEntries
<1> QED
  BY <1>2, <1>3, <1>4, FS_EmptySet DEF RelayInv, SessionsAssumption, CountsAreTrue, Of

\* The relay refuses no client for sessions that are gone and admits none past a
\* limit: the count of every address is the number of its sessions, and the tables
\* by identifier and by client agree, for any limits and any set of clients, while
\* the listener, the sweep and Close run against each other (session.go:140-265).
THEOREM SessionCountsAreTrue == ASSUME SessionsAssumption PROVE Spec => []CountsAreTrue
<1>1. Init => RelayInv
  BY InitCounts
<1>2. RelayInv /\ [Next]_vars => RelayInv'
  <2> SUFFICES ASSUME RelayInv, [Next]_vars PROVE RelayInv'
    OBVIOUS
  <2>1. ASSUME UNCHANGED <<byID, byKey, perIP>> PROVE RelayInv'
    BY <2>1 DEF RelayInv, RelayTypeOK, CountsAreTrue
  <2>2. ASSUME NEW c \in Clients, ClientKnown(c) PROVE RelayInv'
    BY <2>1, <2>2 DEF ClientKnown
  <2>3. CASE Reply \/ RelayIdles \/ RelaySweep
    BY <2>1, <2>3 DEF Reply, RelayIdles, RelaySweep
  <2>4. CASE Lose \/ Agent \/ UNCHANGED vars
    <3>1. UNCHANGED relay
      BY <2>4 DEF Lose, Agent, Loop, LoopReceive, LoopDial, LoopDialFails, LoopAdd, LoopRefused,
           LoopWrite, LoopEnds, ReaderGets, ReaderEnds, ReaderFails, AgentIdles, AgentSweep,
           AgentRemove, CloseSocket, AgentClose, vars
    <3> QED
      BY <2>1, <3>1 DEF relay
  <2> QED
    BY <2>2, <2>3, <2>4, NewCounts, RemoveCounts, CloseCounts DEF Next, Relay
<1>3. RelayInv => CountsAreTrue
  BY DEF RelayInv
<1> QED
  BY <1>1, <1>2, <1>3, PTL DEF Spec
=============================================================================
