----------------------------- MODULE PathManager -----------------------------
(***************************************************************************)
(* The controller's choice between a direct path and the relay             *)
(* (path.Manager and ParallelRace) with the two goroutines of the local    *)
(* proxy that carry UDP over the chosen path.                              *)
(*                                                                         *)
(* Seven goroutines meet here: the UDP punch, the TCP probe and the timer  *)
(* of the race, the proxy's receiver (ReceiveUDP in a loop) and sender     *)
(* (SendUDP per packet), whoever closes the manager, and the network.  The *)
(* selected paths are atomics, read and partly written without the lock.   *)
(*                                                                         *)
(* Packets have no contents.  Direct LAN and direct UDP (or TCP) are one   *)
(* path "direct"; the relay transport is never nil, as in ConnectTarget;   *)
(* the end of the whole program is left out.                               *)
(***************************************************************************)

VARIABLES
  datagrams,  \* transport.SupportsDatagrams(relayTransport), fixed
  relayUp,    \* the relay transport works
  tcpPath, udpPath,
  punch,      \* directUDPPunch is not nil
  sock,       \* the UDP socket of the punch, opened by ConnectTarget
  mu,         \* who holds Manager.mu for writing
  waitable,   \* pathChanged is not nil
  woken,      \* the channel the receiver waits on has been closed
  closed, cancelled,
  udpRace, tcpRace, timer, closer, receiver, sender

paths  == <<tcpPath, udpPath>>
signal == <<waitable, woken>>
race   == <<udpRace, tcpRace, timer>>
users  == <<receiver, sender>>
vars == <<datagrams, relayUp, paths, punch, sock, mu, signal, closed, cancelled,
          race, closer, users>>

Free == "nobody"

Init ==
  /\ datagrams \in BOOLEAN
  /\ relayUp = TRUE
  /\ tcpPath = "unknown" /\ udpPath = "unknown"
  /\ punch = FALSE /\ sock = "open"
  /\ mu = Free
  /\ waitable = FALSE /\ woken = FALSE
  /\ closed = FALSE /\ cancelled = FALSE
  /\ udpRace = "punching" /\ tcpRace = "probing" /\ timer = "waiting"
  /\ closer = "idle" /\ receiver = "top" /\ sender = "idle"

\* notifyPathChanged: closes the channel and forgets it.
NotifyPathChanged ==
  /\ waitable' = FALSE
  /\ woken' = (woken \/ waitable)

\* The path that is not direct: the relay when it carries datagrams.
RelayOrDisabled == IF datagrams THEN "relay" ELSE "disabled"

-----------------------------------------------------------------------------
(* The race: UDP punch.                                                    *)

PunchSucceeds ==
  /\ udpRace = "punching"
  /\ udpRace' = "set"
  /\ UNCHANGED <<datagrams, relayUp, paths, punch, sock, mu, signal, closed,
                 cancelled, tcpRace, timer, closer, users>>

\* The timeout, or the manager's context: the socket is closed at once.
PunchFails ==
  /\ udpRace = "punching"
  /\ sock' = "closed"
  /\ udpRace' = "done"
  /\ UNCHANGED <<datagrams, relayUp, paths, punch, mu, signal, closed, cancelled,
                 tcpRace, timer, closer, users>>

\* SetDirectUDP, the check before the lock.
SetUDP ==
  /\ udpRace = "set"
  /\ IF closed THEN sock' = "closed" /\ udpRace' = "done"
               ELSE udpRace' = "lock" /\ UNCHANGED sock
  /\ UNCHANGED <<datagrams, relayUp, paths, punch, mu, signal, closed, cancelled,
                 tcpRace, timer, closer, users>>

\* Mutant of StoreUDP: no second check of closed under the lock.
StoreUDPUnchecked ==
  /\ udpRace = "lock" /\ mu = Free
  /\ mu' = "udpRace" /\ udpRace' = "notify"
  /\ punch' = TRUE /\ udpPath' = "direct"
  /\ UNCHANGED <<datagrams, relayUp, tcpPath, sock, signal, closed, cancelled,
                 tcpRace, timer, closer, users>>

\* Mutant of StoreUDP: the second early return forgets to release the lock, and
\* the goroutine leaves with it.
StoreUDPHolds ==
  /\ udpRace = "lock" /\ mu = Free
  /\ \/ /\ closed
        /\ sock' = "closed" /\ udpRace' = "done" /\ mu' = "udpRace"
        /\ UNCHANGED <<punch, udpPath>>
     \/ /\ ~closed
        /\ mu' = "udpRace" /\ udpRace' = "notify"
        /\ punch' = TRUE /\ udpPath' = "direct"
        /\ UNCHANGED sock
  /\ UNCHANGED <<datagrams, relayUp, tcpPath, signal, closed, cancelled, tcpRace,
                 timer, closer, users>>

\* SetDirectUDP under the lock: the second check, then the path.
StoreUDP ==
  /\ udpRace = "lock" /\ mu = Free
  /\ \/ /\ closed
        /\ sock' = "closed" /\ udpRace' = "done"
        /\ UNCHANGED <<mu, punch, udpPath>>
     \/ /\ ~closed
        /\ mu' = "udpRace" /\ udpRace' = "notify"
        /\ punch' = TRUE /\ udpPath' = "direct"
        /\ UNCHANGED sock
  /\ UNCHANGED <<datagrams, relayUp, tcpPath, signal, closed, cancelled, tcpRace,
                 timer, closer, users>>

NotifyUDP ==
  /\ udpRace = "notify"
  /\ NotifyPathChanged
  /\ mu' = Free /\ udpRace' = "done"
  /\ UNCHANGED <<datagrams, relayUp, paths, punch, sock, closed, cancelled,
                 tcpRace, timer, closer, users>>

-----------------------------------------------------------------------------
(* The race: TCP probe.  SetDirectTCP does not take the lock.              *)

ProbeEnds ==
  /\ tcpRace = "probing"
  /\ tcpRace' \in {"set", "done"}
  /\ UNCHANGED <<datagrams, relayUp, paths, punch, sock, mu, signal, closed,
                 cancelled, udpRace, timer, closer, users>>

SetTCP ==
  /\ tcpRace = "set"
  /\ tcpRace' = IF closed THEN "done" ELSE "store"
  /\ UNCHANGED <<datagrams, relayUp, paths, punch, sock, mu, signal, closed,
                 cancelled, udpRace, timer, closer, users>>

StoreTCP ==
  /\ tcpRace = "store"
  /\ tcpPath' = "direct" /\ tcpRace' = "notify"
  /\ UNCHANGED <<datagrams, relayUp, udpPath, punch, sock, mu, signal, closed,
                 cancelled, udpRace, timer, closer, users>>

NotifyTCP ==
  /\ tcpRace = "notify"
  /\ NotifyPathChanged
  /\ tcpRace' = "done"
  /\ UNCHANGED <<datagrams, relayUp, paths, punch, sock, mu, closed, cancelled,
                 udpRace, timer, closer, users>>

-----------------------------------------------------------------------------
(* The race: 300 ms later, the relay.                                      *)

\* Mutant of TimerFires: the relay is activated only if neither path is known.
TimerNeedsBothUnknown ==
  /\ timer = "waiting"
  /\ \/ timer' = IF {tcpPath, udpPath} = {"unknown"} THEN "lock" ELSE "done"
     \/ cancelled /\ timer' = "done"
  /\ UNCHANGED <<datagrams, relayUp, paths, punch, sock, mu, signal, closed,
                 cancelled, udpRace, tcpRace, closer, users>>

\* The timer fires, or the manager's context is done.
TimerFires ==
  /\ timer = "waiting"
  /\ \/ timer' = IF "unknown" \in {tcpPath, udpPath} THEN "lock" ELSE "done"
     \/ cancelled /\ timer' = "done"
  /\ UNCHANGED <<datagrams, relayUp, paths, punch, sock, mu, signal, closed,
                 cancelled, udpRace, tcpRace, closer, users>>

\* SetQUICRelay: the lock, and the load of tcpPath ...
LoadTCP ==
  /\ timer = "lock" /\ mu = Free
  /\ mu' = "timer"
  /\ timer' = IF tcpPath = "unknown" THEN "storeTCP" ELSE "storeUDP"
  /\ UNCHANGED <<datagrams, relayUp, paths, punch, sock, signal, closed, cancelled,
                 udpRace, tcpRace, closer, users>>

\* ... its store, which does not look again ...
RelayTCP ==
  /\ timer = "storeTCP"
  /\ tcpPath' = "relay" /\ timer' = "storeUDP"
  /\ UNCHANGED <<datagrams, relayUp, udpPath, punch, sock, mu, signal, closed,
                 cancelled, udpRace, tcpRace, closer, users>>

\* Mutant of RelayUDP: the relay replaces whatever was selected before.
RelayUDPAlways ==
  /\ timer = "storeUDP"
  /\ udpPath' = RelayOrDisabled
  /\ timer' = "notify"
  /\ UNCHANGED <<datagrams, relayUp, tcpPath, punch, sock, mu, signal, closed,
                 cancelled, udpRace, tcpRace, closer, users>>

\* ... udpPath, which only changes under the lock ...
RelayUDP ==
  /\ timer = "storeUDP"
  /\ udpPath' = IF udpPath = "unknown" THEN RelayOrDisabled ELSE udpPath
  /\ timer' = "notify"
  /\ UNCHANGED <<datagrams, relayUp, tcpPath, punch, sock, mu, signal, closed,
                 cancelled, udpRace, tcpRace, closer, users>>

NotifyRelay ==
  /\ timer = "notify"
  /\ NotifyPathChanged
  /\ mu' = Free /\ timer' = "done"
  /\ UNCHANGED <<datagrams, relayUp, paths, punch, sock, closed, cancelled,
                 udpRace, tcpRace, closer, users>>

-----------------------------------------------------------------------------
(* FallbackUDPFromDirect, one critical section.                            *)

\* Mutant of FallbackUDP: the socket goes, the path stays.
FallbackKeepsPath ==
  /\ mu = Free
  /\ sock' = IF punch THEN "closed" ELSE sock
  /\ punch' = FALSE
  /\ NotifyPathChanged
  /\ UNCHANGED <<datagrams, relayUp, paths, mu, closed, cancelled, race, closer>>

\* Mutant of FallbackUDP: the path changes, the dead socket stays selected.
FallbackKeepsSocket ==
  /\ mu = Free
  /\ udpPath' = IF udpPath = "direct" THEN RelayOrDisabled ELSE udpPath
  /\ NotifyPathChanged
  /\ UNCHANGED <<datagrams, relayUp, tcpPath, punch, sock, mu, closed, cancelled,
                 race, closer>>

FallbackUDP ==
  /\ mu = Free
  /\ \/ /\ udpPath = "direct"
        /\ sock' = IF punch THEN "closed" ELSE sock
        /\ punch' = FALSE
        /\ udpPath' = RelayOrDisabled
        /\ NotifyPathChanged
     \/ /\ udpPath # "direct"
        /\ UNCHANGED <<sock, punch, udpPath, signal>>
  /\ UNCHANGED <<datagrams, relayUp, tcpPath, mu, closed, cancelled, race, closer>>

-----------------------------------------------------------------------------
(* The proxy's receiver: ReceiveUDP, called again whenever it returns.     *)

receiverOnly == <<datagrams, relayUp, paths, punch, sock, mu, closed, cancelled,
                  race, closer, sender>>

\* The top of the loop: the manager's context, then the path.
ReceiveTop ==
  /\ receiver = "top"
  /\ receiver' = IF cancelled THEN "returned"
                 ELSE CASE udpPath = "direct"   -> "punch"
                        [] udpPath = "relay"    -> "relay"
                        [] udpPath = "disabled" -> "disabled"
                        [] udpPath = "unknown"  -> "await"
  /\ UNCHANGED <<signal, receiverOnly>>

\* The punch result is read under the lock.
ReceivePunch ==
  /\ receiver = "punch" /\ mu = Free
  /\ receiver' = IF punch THEN "read" ELSE "fallback"
  /\ UNCHANGED <<signal, receiverOnly>>

ReceiveFallback ==
  /\ receiver = "fallback"
  /\ FallbackUDP
  /\ receiver' = "top"
  /\ UNCHANGED sender

\* A packet, the 200 ms deadline, or a closed socket.
ReadSocket ==
  /\ receiver = "read"
  /\ receiver' = "top"
  /\ UNCHANGED <<signal, receiverOnly>>

\* ReceiveDatagram waits for the relay and nothing else.
RelayDatagram ==
  /\ receiver = "relay" /\ relayUp
  /\ receiver' = "top"
  /\ UNCHANGED <<signal, receiverOnly>>

RelayError ==
  /\ receiver = "relay" /\ ~relayUp
  /\ receiver' = "top"
  /\ UNCHANGED <<signal, receiverOnly>>

\* Mutant of TakeWaiter: no second look at the path.
TakeWaiterAndPark ==
  /\ receiver = "await"
  /\ waitable' = TRUE /\ woken' = FALSE
  /\ receiver' = "parked"
  /\ UNCHANGED receiverOnly

\* awaitPathChange: the channel first ...
TakeWaiter ==
  /\ receiver = "await"
  /\ waitable' = TRUE /\ woken' = FALSE
  /\ receiver' = "recheck"
  /\ UNCHANGED receiverOnly

\* ... then the path once more ...
Recheck ==
  /\ receiver = "recheck"
  /\ receiver' = IF udpPath # "unknown" THEN "top" ELSE "parked"
  /\ UNCHANGED <<signal, receiverOnly>>

\* ... then the wait.
Wake ==
  /\ receiver = "parked"
  /\ \/ woken /\ receiver' = "top"
     \/ cancelled /\ receiver' = "returned"
  /\ UNCHANGED <<signal, receiverOnly>>

-----------------------------------------------------------------------------
(* The proxy's sender: SendUDP for every packet mstsc sends.               *)

senderOnly == <<datagrams, relayUp, paths, punch, sock, mu, signal, closed,
                cancelled, race, closer, receiver>>

\* mstsc sends a packet.
Packet ==
  /\ sender = "idle"
  /\ sender' = "send"
  /\ UNCHANGED senderOnly

\* Anything but a direct path ends the call: the packet is given to the relay,
\* or refused.
SendPath ==
  /\ sender = "send"
  /\ sender' = IF udpPath = "direct" THEN "punch" ELSE "idle"
  /\ UNCHANGED senderOnly

SendPunch ==
  /\ sender = "punch" /\ mu = Free
  /\ sender' = IF punch THEN "write" ELSE "fallback"
  /\ UNCHANGED senderOnly

\* A write fails on a closed socket, and may fail on an open one.
WriteSocket ==
  /\ sender = "write"
  /\ \/ sock = "open" /\ sender' = "idle"
     \/ sender' = "fallback"
  /\ UNCHANGED senderOnly

\* FallbackUDPFromDirect, then SendUDP again.
SendFallback ==
  /\ sender = "fallback"
  /\ FallbackUDP
  /\ sender' = "send"
  /\ UNCHANGED receiver

-----------------------------------------------------------------------------
(* Close, and the relay transport.                                         *)

\* SESSION_CLOSE, or StartLocalProxy that fails.
Close ==
  /\ closer = "idle"
  /\ closed' = TRUE /\ closer' = "cancel"
  /\ UNCHANGED <<datagrams, relayUp, paths, punch, sock, mu, signal, cancelled,
                 race, users>>

Cancel ==
  /\ closer = "cancel"
  /\ cancelled' = TRUE /\ closer' = "lock"
  /\ UNCHANGED <<datagrams, relayUp, paths, punch, sock, mu, signal, closed, race, users>>

CloseSocket ==
  /\ closer = "lock" /\ mu = Free
  /\ sock' = IF punch THEN "closed" ELSE sock
  /\ closer' = "done"
  /\ UNCHANGED <<datagrams, relayUp, paths, punch, mu, signal, closed, cancelled,
                 race, users>>

RelayLost ==
  /\ relayUp
  /\ relayUp' = FALSE
  /\ UNCHANGED <<datagrams, paths, punch, sock, mu, signal, closed, cancelled, race,
                 closer, users>>

-----------------------------------------------------------------------------
UDPRace   == PunchSucceeds \/ PunchFails \/ SetUDP \/ StoreUDP \/ NotifyUDP
TCPRace   == ProbeEnds \/ SetTCP \/ StoreTCP \/ NotifyTCP
Timer     == TimerFires \/ LoadTCP \/ RelayTCP \/ RelayUDP \/ NotifyRelay
Closer    == Cancel \/ CloseSocket
\* What the receiver does without waiting for the other side.
Receiver  == \/ ReceiveTop \/ ReceivePunch \/ ReceiveFallback \/ ReadSocket
             \/ RelayError \/ TakeWaiter \/ Recheck \/ Wake
Sender    == SendPath \/ SendPunch \/ WriteSocket \/ SendFallback

Next == UDPRace \/ TCPRace \/ Timer \/ Closer \/ Receiver \/ Sender
        \/ Packet \/ Close \/ RelayDatagram \/ RelayLost

Spec == Init /\ [][Next]_vars

\* Every goroutine that can run does.  The lock is held for a part of one call
\* of the race and of its timer only, so weak fairness is enough to get it.
\* Nobody has to send a packet or a relay datagram, to close the manager, or to
\* lose the relay.
Fairness ==
  /\ WF_vars(UDPRace) /\ WF_vars(TCPRace) /\ WF_vars(Timer)
  /\ WF_vars(Closer) /\ WF_vars(Receiver) /\ WF_vars(Sender)

FairSpec == Spec /\ Fairness

-----------------------------------------------------------------------------
(* Properties.                                                             *)

FlagsOK ==
  /\ datagrams \in BOOLEAN /\ relayUp \in BOOLEAN /\ punch \in BOOLEAN
  /\ waitable \in BOOLEAN /\ woken \in BOOLEAN
  /\ closed \in BOOLEAN /\ cancelled \in BOOLEAN

\* Manager.mu is held by the goroutine that is inside its critical section, and
\* by nobody who has left it, by an early return either.
LockHeld ==
  /\ (mu = "udpRace") <=> (udpRace = "notify")
  /\ (mu = "timer") <=> (timer \in {"storeTCP", "storeUDP", "notify"})

\* Every variable stays in its range, and the lock with its holder: whoever
\* returns from SetDirectUDP or SetQUICRelay has released it (manager.go:163-179,
\* 244-261).
TypeOK ==
  /\ LockHeld
  /\ FlagsOK
  /\ tcpPath \in {"unknown", "direct", "relay"}
  /\ udpPath \in {"unknown", "direct", "relay", "disabled"}
  /\ sock \in {"open", "closed"}
  /\ mu \in {Free, "udpRace", "timer"}
  /\ udpRace \in {"punching", "set", "lock", "notify", "done"}
  /\ tcpRace \in {"probing", "set", "store", "notify", "done"}
  /\ timer \in {"waiting", "lock", "storeTCP", "storeUDP", "notify", "done"}
  /\ closer \in {"idle", "cancel", "lock", "done"}
  /\ receiver \in {"top", "punch", "fallback", "read", "relay", "disabled", "await",
                   "recheck", "parked", "returned"}
  /\ sender \in {"idle", "send", "punch", "write", "fallback"}

\* The punch socket is never lost: as long as it is open, the race still has to
\* decide about it or the manager refers to it and has not been closed.  Close
\* and SetDirectUDP can meet in any order (manager.go:157-169, 463-476).
SocketHasAnOwner ==
  sock = "open" => \/ udpRace \in {"punching", "set", "lock"}
                   \/ punch /\ closer # "done"

\* The atomic path and the pointer it stands for change together for whoever
\* takes the lock: a direct path has its punch result, and an open socket until
\* Close; without a direct path no result is left behind (manager.go:164-174,
\* 196-215).
PathMatchesPunch ==
  mu = Free => /\ (udpPath = "direct") <=> punch
               /\ punch => (sock = "open" \/ closer = "done")

\* A direct UDP path is only given up together with its socket: the relay's
\* timer, which may fire while the punch succeeds, never takes it away
\* (manager.go:245-258).
DirectUDPIsKept ==
  [][(udpPath = "direct" /\ udpPath' # "direct") => (sock' = "closed" /\ ~punch')]_vars

\* The race decides both paths, whatever succeeds first and in whichever order:
\* the relay's timer (manager.go:518-531) is the last resort of each.
PathsAreDecided ==
  <>(closed \/ (tcpPath # "unknown" /\ udpPath # "unknown"))

\* A receiver that waits for the first path does not miss it: "registering the
\* waiter before re-reading the path closes the window" (manager.go:440-442).
NoLostWakeup ==
  (receiver \in {"await", "recheck", "parked"} /\ udpPath # "unknown")
    ~> receiver \notin {"await", "recheck", "parked"}

\* SendUDP calls itself after a fallback; it does not do so for ever, whatever
\* the receiver and the race do to the path meanwhile (manager.go:301-322).
SenderReturns == sender # "idle" ~> sender = "idle"

\* "Waiters wake the instant a path is usable instead of polling for it"
\* (manager.go:86-87): once a direct path is selected the receiver, wherever it
\* waits, comes to read from it.
DirectPathIsRead ==
  (udpPath = "direct" /\ receiver \in {"relay", "disabled", "parked"}) ~>
    (udpPath # "direct" \/ closed \/ receiver \notin {"relay", "disabled", "parked"})
=============================================================================
