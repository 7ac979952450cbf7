------------------------------- MODULE AgentP2P -------------------------------
(***************************************************************************)
(* The agent's side of direct connections, for one connection to the       *)
(* relay: the registry of P2P sessions, the dispatcher that owns the UDP   *)
(* punch socket, the handler of each CONNECT_NOTIFY with its two loops,    *)
(* and the direct TCP connections with their guard and semaphore.          *)
(*                                                                         *)
(* Goroutines: connectAndServe, which closes everything when it returns,   *)
(* the control message reader, the dispatcher's readLoop, two per session, *)
(* the accept loop and one per TCP connection.  A step is a critical       *)
(* section of the registry, the dispatcher or the guard.  Go ends the      *)
(* whole program when a closed channel is closed or sent to; panicked      *)
(* records that.                                                           *)
(*                                                                         *)
(* Punch and data packets are counted, not told apart; candidates, tokens  *)
(* and addresses are data.  The rate limit of the guard depends on time    *)
(* only, so it may refuse at any time.                                     *)
(***************************************************************************)
EXTENDS Naturals, FiniteSets

CONSTANTS
  Ids,           \* session identifiers
  Notified,      \* bound: CONNECT_NOTIFY messages, each makes a p2pSession
  Conns, Addrs,  \* bound: direct TCP connections, and where they come from
  Nobody,        \* no p2pSession, no address
  QueueSize,     \* dispatcherQueueSize
  MaxConcurrent, MaxHandshakes  \* of the guard and the semaphore

P2PAssumption ==
  /\ Nobody \notin Notified \cup Addrs
  /\ QueueSize \in Nat /\ MaxConcurrent \in Nat /\ MaxHandshakes \in Nat
  /\ IsFiniteSet(Conns)

VARIABLES
  stage,      \* how far connectAndServe has got with closing
  panicked,
  \* p2pSessionRegistry
  sessions,   \* the p2pSession of an identifier
  id,         \* of a p2pSession
  cancelled,  \* p2pSessions whose context was cancelled
  updatesClosed,
  \* UDPDispatcher
  doneClosed, \* done and the socket
  dispatch,   \* its sessions
  packets,    \* a p2pSession's channel: none, open or closed
  queued,     \* packets in it
  \* handleIncomingP2PPunch
  handler,    \* none, start, punch, serve, close or done
  ended,      \* sessionCtx was cancelled by the handler itself
  receiver,   \* its loop from the peer runs
  \* direct TCP
  conn,       \* new, admitted, auth, bridge, over, released or closed
  from,       \* where a connection comes from
  active      \* IPGuard: connections of an address it has an entry for

registry   == <<sessions, id, cancelled, updatesClosed>>
dispatcher == <<doneClosed, dispatch, packets, queued>>
punching   == <<handler, ended, receiver>>
tcp        == <<conn, from, active>>
vars       == <<stage, panicked, registry, dispatcher, punching, tcp>>

Stages == {"serving", "dispatcher", "registry", "listener", "cancel"}
Entries(f) == {x \in DOMAIN f : f[x] # Nobody}

\* The parent of every context below connectAndServe.
connCancelled == stage = "cancel"
ContextDone(n) == connCancelled \/ n \in cancelled \/ n \in ended

Init ==
  /\ stage = "serving" /\ panicked = FALSE
  /\ sessions = [i \in Ids |-> Nobody] /\ id = [n \in Notified |-> Nobody]
  /\ cancelled = {} /\ updatesClosed = {}
  /\ doneClosed = FALSE /\ dispatch = [i \in Ids |-> Nobody]
  /\ packets = [n \in Notified |-> "none"] /\ queued = [n \in Notified |-> 0]
  /\ handler = [n \in Notified |-> "none"] /\ ended = {} /\ receiver = {}
  /\ conn = [c \in Conns |-> "new"] /\ from = [c \in Conns |-> Nobody]
  /\ active = [a \in {} |-> 0]

-----------------------------------------------------------------------------
(* controlMessageReader.  It ends when the control stream is closed, which *)
(* is after the registry.                                                  *)

Reading == stage \notin {"listener", "cancel"}

\* CONNECT_NOTIFY: register, and the handler starts.
Notify ==
  /\ Reading
  /\ \E n \in Notified, i \in Ids :
       LET old == sessions[i] IN
       /\ handler[n] = "none"
       /\ sessions' = [sessions EXCEPT ![i] = n] /\ id' = [id EXCEPT ![n] = i]
       /\ handler' = [handler EXCEPT ![n] = "start"]
       /\ cancelled' = cancelled \cup ({old} \ {Nobody})
       /\ updatesClosed' = updatesClosed \cup ({old} \ {Nobody})
       /\ panicked' = (panicked \/ old \in updatesClosed)
  /\ UNCHANGED <<stage, dispatcher, ended, receiver, tcp>>

\* CANDIDATE_EXCHANGE: update sends to the session's channel, or drops.
Update ==
  /\ Reading
  /\ \E i \in Entries(sessions) : panicked' = (panicked \/ sessions[i] \in updatesClosed)
  /\ UNCHANGED <<stage, registry, dispatcher, punching, tcp>>

\* Mutant of Remove: the entry stays.
RemoveKeepsEntry ==
  /\ Reading
  /\ \E i \in Entries(sessions) :
       /\ cancelled' = cancelled \cup {sessions[i]}
       /\ updatesClosed' = updatesClosed \cup {sessions[i]}
       /\ panicked' = (panicked \/ sessions[i] \in updatesClosed)
  /\ UNCHANGED <<stage, sessions, id, dispatcher, punching, tcp>>

\* SESSION_CLOSE: remove.
Remove ==
  /\ Reading
  /\ \E i \in Entries(sessions) :
       /\ sessions' = [sessions EXCEPT ![i] = Nobody]
       /\ cancelled' = cancelled \cup {sessions[i]}
       /\ updatesClosed' = updatesClosed \cup {sessions[i]}
       /\ panicked' = (panicked \/ sessions[i] \in updatesClosed)
  /\ UNCHANGED <<stage, id, dispatcher, punching, tcp>>

-----------------------------------------------------------------------------
(* connectAndServe returns: its deferred calls, the last one first.        *)

\* UDPDispatcher.Close, before the lock: readLoop and Register see it.
CloseDone ==
  /\ stage = "serving" /\ ~doneClosed /\ doneClosed' = TRUE
  /\ UNCHANGED <<stage, panicked, registry, dispatch, packets, queued, punching, tcp>>

\* Under the lock.
CloseDispatcher ==
  /\ stage = "serving" /\ doneClosed /\ stage' = "dispatcher"
  /\ LET all == {dispatch[i] : i \in Entries(dispatch)} IN
       /\ panicked' = (panicked \/ \E n \in all : packets[n] = "closed")
       /\ packets' = [n \in Notified |-> IF n \in all THEN "closed" ELSE packets[n]]
       /\ queued' = [n \in Notified |-> IF n \in all THEN 0 ELSE queued[n]]
  /\ dispatch' = [i \in Ids |-> Nobody]
  /\ UNCHANGED <<registry, doneClosed, punching, tcp>>

\* p2pSessionRegistry.close.  Nothing keeps a later CONNECT_NOTIFY out.
CloseRegistry ==
  /\ stage = "dispatcher" /\ stage' = "registry"
  /\ LET all == {sessions[i] : i \in Entries(sessions)} IN
       /\ panicked' = (panicked \/ all \cap updatesClosed # {})
       /\ updatesClosed' = updatesClosed \cup all
       /\ cancelled' = cancelled \cup all
  /\ sessions' = [i \in Ids |-> Nobody]
  /\ UNCHANGED <<id, dispatcher, punching, tcp>>

\* The listener and the control stream.
CloseListener ==
  /\ stage = "registry" /\ stage' = "listener"
  /\ UNCHANGED <<panicked, registry, dispatcher, punching, tcp>>

CancelConn ==
  /\ stage = "listener" /\ stage' = "cancel"
  /\ UNCHANGED <<panicked, registry, dispatcher, punching, tcp>>

-----------------------------------------------------------------------------
(* UDPDispatcher.readLoop, under the read lock.                            *)

Deliver ==
  /\ ~doneClosed
  /\ \E i \in Entries(dispatch) :
       LET n == dispatch[i] IN
       /\ panicked' = (panicked \/ packets[n] = "closed")
       /\ queued' = [queued EXCEPT ![n] = IF @ < QueueSize THEN @ + 1 ELSE @]
  /\ UNCHANGED <<stage, registry, doneClosed, dispatch, packets, punching, tcp>>

-----------------------------------------------------------------------------
(* handleIncomingP2PPunch.                                                 *)

HandlerDone(n) == handler' = [handler EXCEPT ![n] = "done"]

\* PunchUDPDispatched registers.
Register(n) ==
  /\ handler[n] = "start"
  /\ \/ /\ doneClosed \/ dispatch[id[n]] # Nobody
        /\ HandlerDone(n)
        /\ UNCHANGED <<dispatch, packets>>
     \/ /\ ~doneClosed /\ dispatch[id[n]] = Nobody
        /\ dispatch' = [dispatch EXCEPT ![id[n]] = n]
        /\ packets' = [packets EXCEPT ![n] = "open"]
        /\ handler' = [handler EXCEPT ![n] = "punch"]
  /\ UNCHANGED <<stage, panicked, registry, doneClosed, queued, ended, receiver, tcp>>

\* What Register returned to give the registration back: once, and only if it
\* is still this session's.
Release(n) ==
  IF dispatch[id[n]] = n
  THEN /\ dispatch' = [dispatch EXCEPT ![id[n]] = Nobody]
       /\ packets' = [packets EXCEPT ![n] = "closed"]
       /\ panicked' = (panicked \/ packets[n] = "closed")
       /\ queued' = [queued EXCEPT ![n] = 0]
  ELSE UNCHANGED <<dispatch, packets, panicked, queued>>

\* The peer's packet arrived.  The two loops start, unless the RDP service's
\* socket cannot be opened.
PunchSucceeds(n) ==
  /\ handler[n] = "punch" /\ queued[n] > 0
  /\ queued' = [queued EXCEPT ![n] = @ - 1]
  /\ \/ handler' = [handler EXCEPT ![n] = "serve"] /\ receiver' = receiver \cup {n}
     \/ handler' = [handler EXCEPT ![n] = "close"] /\ UNCHANGED receiver
  /\ UNCHANGED <<stage, panicked, registry, doneClosed, dispatch, packets, ended, tcp>>

\* Three seconds have passed or the session is over.
PunchFails(n) ==
  /\ handler[n] = "punch" /\ HandlerDone(n) /\ Release(n)
  /\ UNCHANGED <<stage, registry, doneClosed, ended, receiver, tcp>>

\* The loop from the peer takes a packet.
Receive(n) ==
  /\ n \in receiver /\ queued[n] > 0
  /\ queued' = [queued EXCEPT ![n] = @ - 1]
  /\ UNCHANGED <<stage, panicked, registry, doneClosed, dispatch, packets, punching, tcp>>

\* Nothing from the peer for too long: the session is given up.
ReceiverIdles(n) ==
  /\ n \in receiver /\ queued[n] = 0 /\ packets[n] = "open"
  /\ receiver' = receiver \ {n} /\ ended' = ended \cup {n}
  /\ UNCHANGED <<stage, panicked, registry, dispatcher, handler, tcp>>

\* It sees the context; a closed channel alone does not end it.
ReceiverEnds(n) ==
  /\ n \in receiver /\ ContextDone(n)
  /\ receiver' = receiver \ {n}
  /\ UNCHANGED <<stage, panicked, registry, dispatcher, handler, ended, tcp>>

\* The loop to the peer sees the context, or its read from the RDP service fails.
ServeEnds(n) ==
  /\ handler[n] = "serve"
  /\ handler' = [handler EXCEPT ![n] = "close"]
  /\ UNCHANGED <<stage, panicked, registry, dispatcher, ended, receiver, tcp>>

\* Mutant of CloseResult: the session is over, but its registration stays.
CloseResultKeeps(n) ==
  /\ handler[n] = "close" /\ HandlerDone(n) /\ ended' = ended \cup {n}
  /\ UNCHANGED <<dispatch, packets, panicked, queued>>
  /\ UNCHANGED <<stage, registry, doneClosed, receiver, tcp>>

\* Deferred: PunchResult.Close and sessionCancel.
CloseResult(n) ==
  /\ handler[n] = "close" /\ HandlerDone(n) /\ ended' = ended \cup {n}
  /\ Release(n)
  /\ UNCHANGED <<stage, registry, doneClosed, receiver, tcp>>

-----------------------------------------------------------------------------
(* acceptDirectTCP and handleDirectTCP.                                    *)

\* Mutant of Swept: idle is whoever has not been seen lately.
SweptAny == {[x \in DOMAIN active \ D |-> active[x]] : D \in SUBSET DOMAIN active}

\* The entries of the guard after the sweep that may come with an Acquire: only
\* addresses without a connection are dropped.
Swept ==
  {[x \in DOMAIN active \ D |-> active[x]] : D \in SUBSET {x \in DOMAIN active : active[x] = 0}}

Count(entries, a) == IF a \in DOMAIN entries THEN entries[a] ELSE 0

\* Accept and Acquire.
Accept ==
  /\ stage \notin {"listener", "cancel"}
  /\ \E c \in Conns, a \in Addrs :
       /\ conn[c] = "new"
       /\ from' = [from EXCEPT ![c] = a]
       /\ \E entries \in Swept :
            \/ /\ Count(entries, a) < MaxConcurrent
               /\ conn' = [conn EXCEPT ![c] = "admitted"]
               /\ active' = [x \in DOMAIN entries \cup {a} |-> Count(entries, x) + IF x = a THEN 1 ELSE 0]
            \/ /\ conn' = [conn EXCEPT ![c] = "closed"]
               /\ active' = [x \in DOMAIN entries \cup {a} |-> Count(entries, x)]
  /\ UNCHANGED <<stage, panicked, registry, dispatcher, punching>>

\* A connection's release of the guard.
ReleaseIP(c) ==
  active' = [active EXCEPT ![from[c]] = IF @ > 0 THEN @ - 1 ELSE @]

Handshakes == {c \in Conns : conn[c] \in {"auth", "bridge", "over", "released"}}

\* The semaphore: the connection gets its goroutine, or is turned away.
Admit(c) ==
  /\ conn[c] = "admitted"
  /\ \/ /\ Cardinality(Handshakes) < MaxHandshakes
        /\ conn' = [conn EXCEPT ![c] = "auth"]
        /\ UNCHANGED active
     \/ /\ Cardinality(Handshakes) >= MaxHandshakes
        /\ conn' = [conn EXCEPT ![c] = "closed"] /\ ReleaseIP(c)
  /\ UNCHANGED <<stage, panicked, registry, dispatcher, punching, from>>

\* AcceptTCPPeer: lookup finds a session whose context is not done.
Authenticate(c) ==
  /\ conn[c] = "auth" /\ ~connCancelled
  /\ \E i \in Entries(sessions) : sessions[i] \notin cancelled
  /\ conn' = [conn EXCEPT ![c] = "bridge"]
  /\ UNCHANGED <<stage, panicked, registry, dispatcher, punching, from, active>>

\* It does not, the handshake fails or times out, or RDP cannot be reached.
AuthFails(c) ==
  /\ conn[c] = "auth" /\ conn' = [conn EXCEPT ![c] = "over"]
  /\ UNCHANGED <<stage, panicked, registry, dispatcher, punching, from, active>>

\* Mutant of BridgeEnds: only the two sides end a bridge, not the context.
BridgeEndsByPeer(c) ==
  /\ conn[c] = "bridge" /\ ~connCancelled /\ conn' = [conn EXCEPT ![c] = "over"]
  /\ UNCHANGED <<stage, panicked, registry, dispatcher, punching, from, active>>

\* One side has closed, or the connection to the relay is over.
BridgeEnds(c) ==
  /\ conn[c] = "bridge" /\ conn' = [conn EXCEPT ![c] = "over"]
  /\ UNCHANGED <<stage, panicked, registry, dispatcher, punching, from, active>>

\* Deferred: the guard, then the semaphore.
LeaveGuard(c) ==
  /\ conn[c] = "over" /\ conn' = [conn EXCEPT ![c] = "released"] /\ ReleaseIP(c)
  /\ UNCHANGED <<stage, panicked, registry, dispatcher, punching, from>>

LeaveSemaphore(c) ==
  /\ conn[c] = "released" /\ conn' = [conn EXCEPT ![c] = "closed"]
  /\ UNCHANGED <<stage, panicked, registry, dispatcher, punching, from, active>>

-----------------------------------------------------------------------------
Closing == CloseDone \/ CloseDispatcher \/ CloseRegistry \/ CloseListener \/ CancelConn
Handler(n) == Register(n) \/ PunchSucceeds(n) \/ PunchFails(n) \/ ServeEnds(n) \/ CloseResult(n)
Receiver(n) == Receive(n) \/ ReceiverIdles(n) \/ ReceiverEnds(n)
Served(c) == Admit(c) \/ Authenticate(c) \/ AuthFails(c) \/ BridgeEnds(c) \/ LeaveGuard(c)
             \/ LeaveSemaphore(c)

Next ==
  \/ Notify \/ Update \/ Remove \/ Closing \/ Deliver \/ Accept
  \/ \E n \in Notified : Handler(n) \/ Receiver(n)
  \/ \E c \in Conns : Served(c)

\* What has to go on: deferred calls, a punch (it has a timeout), a handler and
\* its loops once their context is done, and of a connection its handshake (it
\* has a timeout too), its bridge once the relay connection is over, and its
\* clean-up.  Each of these happens once, so fairness to each is not needed.
Progress ==
  \/ stage # "serving" /\ Closing
  \/ \E n \in Notified :
       \/ Register(n) \/ PunchSucceeds(n) \/ PunchFails(n) \/ CloseResult(n) \/ ReceiverEnds(n)
       \/ ContextDone(n) /\ ServeEnds(n)
  \/ \E c \in Conns :
       \/ Admit(c) \/ Authenticate(c) \/ AuthFails(c) \/ LeaveGuard(c) \/ LeaveSemaphore(c)
       \/ connCancelled /\ BridgeEnds(c)

Spec == Init /\ [][Next]_vars /\ WF_vars(Progress)

-----------------------------------------------------------------------------
(* Properties.                                                             *)

\* No channel is closed twice or sent to after its close, whatever replaces,
\* removes, releases and closes sessions at the same time: that would end the
\* agent (p2p_sessions.go:45-101, udp_dispatcher.go:89-130, 146-166).
NeverPanics == ~panicked

\* The guard knows every connection it has admitted, through sweeps, refusals
\* by the semaphore and late releases, and none for ever (ip_guard.go:46-101).
GuardCountsConnections ==
  \A a \in Addrs :
    LET held == {c \in Conns : from[c] = a /\ conn[c] \in {"admitted", "auth", "bridge", "over"}} IN
    /\ Count(active, a) = Cardinality(held)
    /\ Cardinality(held) <= MaxConcurrent

\* A session that is revoked lets go of its place at the dispatcher and of its
\* goroutines, at whatever point of the punch or of its service it was
\* (client.go:471-609).
Over(n) == handler[n] \in {"none", "done"} /\ n \notin receiver /\ packets[n] # "open"
RevokedOver == \A n \in cancelled : Over(n)
RevokedSessionsEnd == ~RevokedOver ~> RevokedOver

\* When connectAndServe returns, all it has started ends: handlers, loops and
\* direct connections, also those that were accepted or announced while it was
\* closing (client.go:103-149, direct_tcp.go:79-84).
AllOver == (\A n \in Notified : Over(n)) /\ (\A c \in Conns : conn[c] \in {"new", "closed"})
ReturnEndsAll == connCancelled ~> AllOver
=============================================================================
