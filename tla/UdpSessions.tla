------------------------------ MODULE UdpSessions ------------------------------
(***************************************************************************)
(* The two session tables a public UDP client's traffic passes: the        *)
(* relay's SessionManager, keyed by client address, and the agent's, which *)
(* opens a local socket to the RDP service for every session identifier it *)
(* has not seen.                                                           *)
(*                                                                         *)
(* Goroutines: at the relay the public listener, the loop that receives    *)
(* from the agent and the sweeper; at the agent the datagram loop, one     *)
(* reader per local socket, the sweeper and whoever closes.  A step is a   *)
(* critical section of a SessionManager or an operation on a socket.       *)
(*                                                                         *)
(* Time is a flag: a session is idle once nothing has been heard of it for *)
(* the idle timeout.  The creation rate depends on nothing else, so a new  *)
(* session may be refused at any time.  A datagram is the identifier it    *)
(* carries (fragments and packets are in UdpChannel); one to the relay     *)
(* only matters in that it keeps a session from being idle, so any may     *)
(* arrive there.                                                           *)
(***************************************************************************)
EXTENDS Integers, FiniteSets

CONSTANTS
  Addrs, Ports,  \* a client is an address with a port
  SessionIds,    \* identifiers the relay may draw
  Sockets,       \* bound: local sockets the agent opens
  NoSocket,
  MaxSessions, MaxPerIP  \* SessionLimits

SessionsAssumption ==
  /\ NoSocket \notin Sockets
  /\ MaxSessions \in Nat /\ MaxPerIP \in Nat
  /\ IsFiniteSet(SessionIds)

VARIABLES
  \* relay
  byID, byKey, perIP, relayClosed,
  relayIdle,     \* sessions not heard of for idleTimeout
  relayExpired,  \* what the sweeper has found and not yet removed
  toAgent,       \* QUIC datagrams
  \* agent
  table,         \* byID, the session being its socket
  agentClosed, agentIdle, agentExpired,
  socket,        \* unused, open or closed
  closing,       \* sockets taken out of the table and not closed yet
  readers,       \* sockets with a readFromLocalUDPLoop
  loop           \* the datagram loop: where it is, with which identifier and socket

relay  == <<byID, byKey, perIP, relayClosed, relayIdle, relayExpired>>
agent  == <<table, agentClosed, agentIdle, agentExpired, socket, closing,
            readers, loop>>
wire   == toAgent
vars   == <<relay, agent, wire>>

Clients == Addrs \X Ports
NoEntries == [x \in {} |-> x]
Without(f, S) == [x \in DOMAIN f \ S |-> f[x]]
With(f, k, v) == [x \in DOMAIN f \cup {k} |-> IF x = k THEN v ELSE f[x]]
Receiving == [at |-> "receive", id |-> 0, socket |-> NoSocket]

Init ==
  /\ byID = NoEntries /\ byKey = NoEntries /\ perIP = [a \in Addrs |-> 0]
  /\ relayClosed = FALSE /\ relayIdle = {} /\ relayExpired = {}
  /\ toAgent = {}
  /\ table = NoEntries /\ agentClosed = FALSE
  /\ agentIdle = {} /\ agentExpired = {}
  /\ socket = [s \in Sockets |-> "unused"] /\ closing = {} /\ readers = {}
  /\ loop = Receiving

-----------------------------------------------------------------------------
(* Relay.                                                                  *)

\* GetOrCreateByKey for a client that has a session, and its packet forwarded.
ClientKnown(c) ==
  /\ c \in DOMAIN byKey
  /\ relayIdle' = relayIdle \ {byKey[c]}
  /\ toAgent' = toAgent \cup {byKey[c]}
  /\ UNCHANGED <<byID, byKey, perIP, relayClosed, relayExpired, agent>>

\* GetOrCreateByKey for a new one.  Beyond a limit, or the creation rate, its
\* packets are dropped.
ClientNew(c) ==
  /\ c \notin DOMAIN byKey
  /\ ~relayClosed /\ Cardinality(DOMAIN byID) < MaxSessions
  /\ perIP[c[1]] < MaxPerIP
  /\ \E id \in SessionIds \ DOMAIN byID :
       /\ byID' = With(byID, id, c) /\ byKey' = With(byKey, c, id)
       /\ toAgent' = toAgent \cup {id}
  /\ perIP' = [perIP EXCEPT ![c[1]] = @ + 1]
  /\ UNCHANGED <<relayClosed, relayIdle, relayExpired, agent>>

\* A reply of the agent, of whatever age: GetByID, and on to the client.
Reply ==
  /\ \E id \in SessionIds : relayIdle' = relayIdle \ {id}
  /\ UNCHANGED <<byID, byKey, perIP, relayClosed, relayExpired, wire, agent>>

\* idleTimeout after the last packet.
RelayIdles ==
  /\ \E id \in DOMAIN byID : relayIdle' = relayIdle \cup {id}
  /\ UNCHANGED <<byID, byKey, perIP, relayClosed, relayExpired, wire, agent>>

\* sweep, under the read lock.
RelaySweep ==
  /\ relayExpired = {} /\ relayIdle # {}
  /\ relayExpired' = relayIdle
  /\ UNCHANGED <<byID, byKey, perIP, relayClosed, relayIdle, wire, agent>>

\* Mutant of RelayRemove: an address with one session left keeps its count.
RelayRemoveKeepsLast ==
  /\ \E id \in relayExpired :
       /\ relayExpired' = relayExpired \ {id} /\ relayIdle' = relayIdle \ {id}
       /\ IF id \in DOMAIN byID
          THEN /\ byID' = Without(byID, {id}) /\ byKey' = Without(byKey, {byID[id]})
               /\ perIP' = [perIP EXCEPT ![byID[id][1]] = IF @ > 1 THEN @ - 1 ELSE @]
          ELSE UNCHANGED <<byID, byKey, perIP>>
  /\ UNCHANGED <<relayClosed, wire, agent>>

\* Remove, by identifier, of what the sweep found; by now it may have been used
\* again, or Close may have been there.
RelayRemove ==
  /\ \E id \in relayExpired :
       /\ relayExpired' = relayExpired \ {id} /\ relayIdle' = relayIdle \ {id}
       /\ IF id \in DOMAIN byID
          THEN /\ byID' = Without(byID, {id}) /\ byKey' = Without(byKey, {byID[id]})
               /\ perIP' = [perIP EXCEPT ![byID[id][1]] = IF @ > 1 THEN @ - 1 ELSE 0]
          ELSE UNCHANGED <<byID, byKey, perIP>>
  /\ UNCHANGED <<relayClosed, wire, agent>>

\* AgentSession.Close closes the manager.
RelayClose ==
  /\ ~relayClosed /\ relayClosed' = TRUE
  /\ byID' = NoEntries /\ byKey' = NoEntries /\ perIP' = [a \in Addrs |-> 0]
  /\ relayIdle' = {}
  /\ UNCHANGED <<relayExpired, wire, agent>>

-----------------------------------------------------------------------------
(* The datagrams to the agent.                                             *)

Lose ==
  /\ \E id \in toAgent : toAgent' = toAgent \ {id}
  /\ UNCHANGED <<relay, agent>>

-----------------------------------------------------------------------------
(* Agent: receiveDatagramsLoop.                                            *)

\* A datagram and GetByID.
LoopReceive ==
  /\ loop.at = "receive"
  /\ \E id \in toAgent :
       /\ toAgent' = toAgent \ {id}
       /\ IF id \in DOMAIN table
          THEN /\ loop' = [at |-> "write", id |-> id, socket |-> table[id]]
               /\ agentIdle' = agentIdle \ {id}
          ELSE /\ loop' = [at |-> "dial", id |-> id, socket |-> NoSocket]
               /\ UNCHANGED agentIdle
  /\ UNCHANGED <<relay, table, agentClosed, agentExpired, socket, closing,
                 readers>>

LoopDial ==
  /\ loop.at = "dial"
  /\ \E s \in {t \in Sockets : socket[t] = "unused"} :
       /\ socket' = [socket EXCEPT ![s] = "open"]
       /\ loop' = [loop EXCEPT !.at = "add", !.socket = s]
  /\ UNCHANGED <<relay, wire, table, agentClosed, agentIdle, agentExpired, closing,
                 readers>>

LoopDialFails ==
  /\ loop.at = "dial" /\ loop' = Receiving
  /\ UNCHANGED <<relay, wire, table, agentClosed, agentIdle, agentExpired, socket,
                 closing, readers>>

\* AddSessionWithID adds the session, and its reader starts.
LoopAdd ==
  /\ loop.at = "add" /\ ~agentClosed /\ Cardinality(DOMAIN table) < MaxSessions
  /\ table' = With(table, loop.id, loop.socket)
  /\ readers' = readers \cup {loop.socket}
  /\ loop' = [loop EXCEPT !.at = "write"]
  /\ UNCHANGED <<relay, wire, agentClosed, agentIdle, agentExpired, socket, closing>>

\* Mutant of LoopRefused: the loop goes on without closing the socket.
LoopRefusedLeaks ==
  /\ loop.at = "add"
  /\ loop' = Receiving
  /\ UNCHANGED <<relay, wire, table, agentClosed, agentIdle, agentExpired, socket,
                 closing, readers>>

\* AddSessionWithID returns nil: closed, too many or too fast.
LoopRefused ==
  /\ loop.at = "add"
  /\ socket' = [socket EXCEPT ![loop.socket] = "closed"]
  /\ loop' = Receiving
  /\ UNCHANGED <<relay, wire, table, agentClosed, agentIdle, agentExpired, closing,
                 readers>>

\* The packet goes to the RDP service, or nowhere if the socket is closed.
LoopWrite ==
  /\ loop.at = "write" /\ loop' = Receiving
  /\ UNCHANGED <<relay, wire, table, agentClosed, agentIdle, agentExpired, socket,
                 closing, readers>>

\* The transport is closed.
LoopEnds ==
  /\ loop.at = "receive" /\ agentClosed
  /\ loop' = [loop EXCEPT !.at = "done"]
  /\ UNCHANGED <<relay, wire, table, agentClosed, agentIdle, agentExpired, socket,
                 closing, readers>>

-----------------------------------------------------------------------------
(* Agent: the readers, the sweeper, Close.                                 *)

\* readFromLocalUDPLoop: a packet of the RDP service goes to the relay.
ReaderGets ==
  /\ \E id \in DOMAIN table :
       /\ table[id] \in readers /\ socket[table[id]] = "open"
       /\ agentIdle' = agentIdle \ {id}
  /\ UNCHANGED <<relay, toAgent, table, agentClosed, agentExpired, socket, closing,
                 readers, loop>>

\* Its read fails because the socket was closed.
ReaderEnds ==
  /\ \E s \in readers : socket[s] = "closed" /\ readers' = readers \ {s}
  /\ UNCHANGED <<relay, wire, table, agentClosed, agentIdle, agentExpired, socket,
                 closing, loop>>

\* Its read fails because the RDP service's port was unreachable for a moment.
\* The session stays in the table.
ReaderFails ==
  /\ \E s \in readers : socket[s] = "open" /\ readers' = readers \ {s}
  /\ UNCHANGED <<relay, wire, table, agentClosed, agentIdle, agentExpired, socket,
                 closing, loop>>

AgentIdles ==
  /\ \E id \in DOMAIN table : agentIdle' = agentIdle \cup {id}
  /\ UNCHANGED <<relay, wire, table, agentClosed, agentExpired, socket, closing,
                 readers, loop>>

AgentSweep ==
  /\ agentExpired = {} /\ agentIdle # {}
  /\ agentExpired' = agentIdle
  /\ UNCHANGED <<relay, wire, table, agentClosed, agentIdle, socket, closing,
                 readers, loop>>

\* Remove, the critical section.
AgentRemove ==
  /\ \E id \in agentExpired :
       /\ agentExpired' = agentExpired \ {id} /\ agentIdle' = agentIdle \ {id}
       /\ table' = Without(table, {id})
       /\ closing' = closing \cup (IF id \in DOMAIN table THEN {table[id]} ELSE {})
  /\ UNCHANGED <<relay, wire, agentClosed, socket, readers, loop>>

\* UDPSession.Close, after Remove or Close has let go of the lock.
CloseSocket ==
  /\ \E s \in closing :
       /\ closing' = closing \ {s}
       /\ socket' = [socket EXCEPT ![s] = "closed"]
  /\ UNCHANGED <<relay, wire, table, agentClosed, agentIdle, agentExpired,
                 readers, loop>>

\* Mutant of AgentClose: the sessions are dropped without closing their sockets.
AgentCloseDrops ==
  /\ ~agentClosed /\ agentClosed' = TRUE
  /\ table' = NoEntries /\ agentIdle' = {}
  /\ UNCHANGED <<relay, wire, agentExpired, socket, readers, loop, closing>>

\* SessionManager.Close when connectAndServe returns; the datagram loop may
\* still be running.
AgentClose ==
  /\ ~agentClosed /\ agentClosed' = TRUE
  /\ closing' = closing \cup {table[id] : id \in DOMAIN table}
  /\ table' = NoEntries /\ agentIdle' = {}
  /\ UNCHANGED <<relay, wire, agentExpired, socket, readers, loop>>

-----------------------------------------------------------------------------
Relay == \/ \E c \in Clients : ClientKnown(c) \/ ClientNew(c)
         \/ Reply \/ RelayIdles \/ RelaySweep \/ RelayRemove \/ RelayClose
Loop  == LoopReceive \/ LoopDial \/ LoopDialFails \/ LoopAdd \/ LoopRefused \/ LoopWrite
         \/ LoopEnds
Agent == Loop \/ ReaderGets \/ ReaderEnds \/ ReaderFails \/ AgentIdles
         \/ AgentSweep \/ AgentRemove \/ CloseSocket \/ AgentClose

Next == Relay \/ Lose \/ Agent

\* The agent's goroutines keep running: a socket is closed by whoever took it
\* out of the table, its reader then fails, and the datagram loop finishes the
\* datagram it has.
Handling == LoopDialFails \/ LoopAdd \/ LoopRefused \/ LoopWrite

Spec == Init /\ [][Next]_vars /\ WF_vars(CloseSocket) /\ WF_vars(ReaderEnds) /\ WF_vars(Handling)

-----------------------------------------------------------------------------
(* Properties.                                                             *)

\* The relay's limits are checked against the truth: both tables hold the same
\* sessions and the count of every address is the number of its sessions, also
\* when the sweep, a revived session and Close meet (session.go:140-265).
CountsAreTrue ==
  /\ \A id \in DOMAIN byID : byID[id] \in DOMAIN byKey /\ byKey[byID[id]] = id
  /\ \A c \in DOMAIN byKey : byKey[c] \in DOMAIN byID /\ byID[byKey[c]] = c
  /\ \A a \in Addrs :
       perIP[a] = Cardinality({id \in DOMAIN byID : byID[id][1] = a}) /\ perIP[a] <= MaxPerIP
  /\ Cardinality(DOMAIN byID) <= MaxSessions

\* No local socket is forgotten or closed under a session: an open one is in the
\* table, is about to be closed by whoever took it out, or has just been opened
\* by the loop; and the table offers no socket that is being closed, or that
\* another session has (session.go:190-265, client.go:332-348).
SocketsAreOwned ==
  /\ \A s \in Sockets : socket[s] = "open" =>
       \/ s \in closing
       \/ loop.at = "add" /\ loop.socket = s
       \/ \E id \in DOMAIN table : table[id] = s
  /\ \A id \in DOMAIN table :
       /\ socket[table[id]] = "open" /\ table[id] \notin closing
       /\ \A other \in DOMAIN table : table[other] = table[id] => other = id

\* When connectAndServe returns the agent lets go of everything, whatever the
\* datagram loop was doing at that moment: every local socket is closed and its
\* reader gone (client.go:179-181, session.go:240-265).
StopReleases ==
  agentClosed ~> readers = {} /\ \A s \in Sockets : socket[s] # "open"
=============================================================================
