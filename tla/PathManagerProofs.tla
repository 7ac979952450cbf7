-------------------------- MODULE PathManagerProofs --------------------------
(***************************************************************************)
(* Theorems about PathManager: who owns the punch socket, and what the     *)
(* lock protects.  The properties compare the path, the punch result and   *)
(* the socket only while nobody holds the lock; they are not inductive     *)
(* because a step is allowed or not by where the three goroutines that     *)
(* change them are.  Inv adds that to the types and the holder of the      *)
(* lock: that the socket is open and unselected while the punch decides,   *)
(* and that the closed flag is the closer's progress.                      *)
(***************************************************************************)
EXTENDS PathManager, TLAPS

\* closed is set by the first step of Close and never reset.
ClosedByCloser == closed <=> (closer # "idle")

\* The UDP punch still has to decide about its socket.
Deciding == udpRace \in {"punching", "set", "lock"}

\* Until then nobody else knows the socket.
SocketIsFresh == Deciding => sock = "open" /\ ~punch

\* Path and punch result agree even for a reader without the lock.
PunchIsDirect ==
  /\ (udpPath = "direct") <=> punch
  /\ punch => (sock = "open" \/ closer = "done")

Inv == /\ TypeOK /\ ClosedByCloser /\ SocketIsFresh /\ PunchIsDirect
       /\ SocketHasAnOwner

-----------------------------------------------------------------------------
\* At the start of a session (ConnectTarget, path.NewManager) nothing is
\* selected and the punch holds the only reference to its socket.
LEMMA InitInv == Init => Inv
  BY DEF Init, Inv, TypeOK, FlagsOK, LockHeld, ClosedByCloser, SocketIsFresh, Deciding,
         PunchIsDirect, SocketHasAnOwner, Free

\* The flags are only ever set to TRUE or FALSE, or combined with one another.
LEMMA FlagsInv == ASSUME FlagsOK, [Next]_vars PROVE FlagsOK'
<1> USE DEF FlagsOK, paths, signal, race, users
<1>1. CASE UNCHANGED vars
  BY <1>1 DEF vars
<1>2. ASSUME NotifyPathChanged PROVE waitable' \in BOOLEAN /\ woken' \in BOOLEAN
  BY <1>2, Zenon DEF NotifyPathChanged
<1>3. ASSUME FallbackUDP PROVE FlagsOK'
  BY <1>2, <1>3, Zenon DEF FallbackUDP
<1>4. CASE UDPRace
  BY <1>2, <1>4, Zenon DEF UDPRace, PunchSucceeds, PunchFails, SetUDP, StoreUDP, NotifyUDP
<1>5. CASE TCPRace
  BY <1>2, <1>5, Zenon DEF TCPRace, ProbeEnds, SetTCP, StoreTCP, NotifyTCP
<1>6. CASE Timer
  BY <1>2, <1>6, Zenon DEF Timer, TimerFires, LoadTCP, RelayTCP, RelayUDP, NotifyRelay
<1>7. CASE Close \/ Closer \/ RelayLost
  BY <1>7, Zenon DEF Close, Closer, Cancel, CloseSocket, RelayLost
<1>8. CASE Receiver \/ RelayDatagram
  BY <1>3, <1>8, Zenon DEF Receiver, ReceiveTop, ReceivePunch, ReceiveFallback, ReadSocket,
     RelayError, RelayDatagram, TakeWaiter, Recheck, Wake, receiverOnly
<1>9. CASE Sender \/ Packet
  BY <1>3, <1>9, Zenon DEF Sender, SendPath, SendPunch, WriteSocket, SendFallback, Packet,
     senderOnly
<1> QED
  BY <1>1, <1>4, <1>5, <1>6, <1>7, <1>8, <1>9, Zenon DEF Next

\* FallbackUDPFromDirect (manager.go:196-215), whoever calls it, keeps the
\* invariant when the caller only moves on to its next line.
LEMMA FallbackInv ==
  ASSUME Inv, FlagsOK', FallbackUDP, UNCHANGED sender \/ UNCHANGED receiver,
         receiver' \in {receiver, "top"}, sender' \in {sender, "send"}
  PROVE  Inv'
<1>1. TypeOK'
  BY DEF Inv, TypeOK, LockHeld, FallbackUDP, RelayOrDisabled, NotifyPathChanged, race,
         signal
<1>2. ClosedByCloser'
  BY DEF Inv, ClosedByCloser, FallbackUDP, race
<1>3. SocketIsFresh' /\ PunchIsDirect'
  BY DEF Inv, SocketIsFresh, Deciding, PunchIsDirect, FallbackUDP, RelayOrDisabled, race
<1>4. SocketHasAnOwner'
  BY DEF Inv, SocketHasAnOwner, SocketIsFresh, Deciding, PunchIsDirect, FallbackUDP, race
<1> QED
  BY <1>1, <1>2, <1>3, <1>4 DEF Inv

\* A step that leaves the lock, the punch and the closer alone, as those of the
\* receiver, the sender, the TCP probe and the relay do.
LEMMA BystanderInv ==
  ASSUME Inv, TypeOK', UNCHANGED <<udpPath, punch, sock, mu, closed, udpRace, timer, closer>>
  PROVE  Inv'
  BY DEF Inv, ClosedByCloser, SocketIsFresh, Deciding, PunchIsDirect, SocketHasAnOwner

\* The punch: SetDirectUDP's two checks of closed decide between closing the
\* socket and selecting it (manager.go:157-180).
LEMMA UDPRaceInv == ASSUME Inv, FlagsOK', UDPRace PROVE Inv'
<1> USE DEF Inv, TypeOK, LockHeld, ClosedByCloser, SocketIsFresh, Deciding,
            PunchIsDirect, SocketHasAnOwner, paths, signal, race, users, Free
<1>1. CASE PunchSucceeds
  BY <1>1 DEF PunchSucceeds
<1>2. CASE PunchFails
  BY <1>2 DEF PunchFails
<1>3. CASE SetUDP
  BY <1>3 DEF SetUDP
<1>4. CASE StoreUDP
  BY <1>4 DEF StoreUDP
<1>5. CASE NotifyUDP
  BY <1>5 DEF NotifyUDP, NotifyPathChanged
<1> QED
  BY <1>1, <1>2, <1>3, <1>4, <1>5 DEF UDPRace

\* SetDirectTCP stores its path without the lock (manager.go:182-194).
LEMMA TCPRaceInv == ASSUME Inv, FlagsOK', TCPRace PROVE Inv'
<1> USE DEF paths, signal, race, users
<1>1. TypeOK'
  BY DEF Inv, TypeOK, LockHeld, TCPRace, ProbeEnds, SetTCP, StoreTCP, NotifyTCP, NotifyPathChanged
<1>2. UNCHANGED <<udpPath, punch, sock, mu, closed, udpRace, timer, closer>>
  BY DEF TCPRace, ProbeEnds, SetTCP, StoreTCP, NotifyTCP
<1> QED
  BY <1>1, <1>2, BystanderInv

\* SetQUICRelay: under the lock an unknown UDP path becomes the relay's, and
\* only an unknown one (manager.go:245-258).
LEMMA TimerInv == ASSUME Inv, FlagsOK', Timer PROVE Inv'
<1> USE DEF Inv, TypeOK, LockHeld, ClosedByCloser, SocketIsFresh, Deciding,
            PunchIsDirect, SocketHasAnOwner, paths, signal, race, users, Free
<1>1. CASE TimerFires
  BY <1>1 DEF TimerFires
<1>2. CASE LoadTCP
  BY <1>2 DEF LoadTCP
<1>3. CASE RelayTCP
  BY <1>3 DEF RelayTCP
<1>4. CASE RelayUDP
  BY <1>4 DEF RelayUDP, RelayOrDisabled
<1>5. CASE NotifyRelay
  BY <1>5 DEF NotifyRelay, NotifyPathChanged
<1> QED
  BY <1>1, <1>2, <1>3, <1>4, <1>5 DEF Timer

\* Close and, between its steps, anybody else (manager.go:463-476).
LEMMA CloserInv == ASSUME Inv, FlagsOK', Close \/ Closer PROVE Inv'
<1> USE DEF Inv, TypeOK, LockHeld, ClosedByCloser, SocketIsFresh, Deciding,
            PunchIsDirect, SocketHasAnOwner, paths, signal, race, users, Free
<1>1. CASE Close
  BY <1>1 DEF Close
<1>2. CASE Cancel
  BY <1>2 DEF Cancel
<1>3. CASE CloseSocket
  BY <1>3 DEF CloseSocket
<1> QED
  BY <1>1, <1>2, <1>3 DEF Closer

\* ReceiveUDP changes the selection by a fallback only (manager.go:363-434).
LEMMA ReceiverInv == ASSUME Inv, FlagsOK', Receiver \/ RelayDatagram PROVE Inv'
<1> USE DEF paths, signal, race, receiverOnly
<1>1. CASE ReceiveFallback
  BY <1>1, FallbackInv DEF ReceiveFallback
<1>2. CASE ~ReceiveFallback
  <2>1. TypeOK'
    BY <1>2 DEF Inv, TypeOK, LockHeld, Receiver, ReceiveTop, ReceivePunch, ReadSocket,
                RelayError, RelayDatagram, TakeWaiter, Recheck, Wake
  <2>2. UNCHANGED <<udpPath, punch, sock, mu, closed, udpRace, timer, closer>>
    BY <1>2 DEF Receiver, ReceiveTop, ReceivePunch, ReadSocket, RelayError,
                RelayDatagram, TakeWaiter, Recheck, Wake
  <2> QED
    BY <2>1, <2>2, BystanderInv
<1> QED
  BY <1>1, <1>2

\* So does SendUDP (manager.go:262-324).
LEMMA SenderInv == ASSUME Inv, FlagsOK', Sender \/ Packet PROVE Inv'
<1> USE DEF paths, signal, race, senderOnly
<1>1. CASE SendFallback
  BY <1>1, FallbackInv DEF SendFallback
<1>2. CASE ~SendFallback
  <2>1. TypeOK'
    BY <1>2 DEF Inv, TypeOK, LockHeld, Sender, SendPath, SendPunch, WriteSocket, Packet
  <2>2. UNCHANGED <<udpPath, punch, sock, mu, closed, udpRace, timer, closer>>
    BY <1>2 DEF Sender, SendPath, SendPunch, WriteSocket, Packet
  <2> QED
    BY <2>1, <2>2, BystanderInv
<1> QED
  BY <1>1, <1>2

\* Every step of every goroutine keeps the invariant.
LEMMA NextInv == ASSUME Inv, [Next]_vars PROVE Inv'
<1>0. FlagsOK'
  BY FlagsInv DEF Inv, TypeOK
<1>1. CASE UNCHANGED vars
  BY <1>0, <1>1 DEF vars, paths, signal, race, users, Inv, TypeOK, LockHeld,
              ClosedByCloser, SocketIsFresh, Deciding, PunchIsDirect, SocketHasAnOwner
<1>2. CASE RelayLost
  <2>1. TypeOK'
    BY <1>0, <1>2 DEF Inv, TypeOK, LockHeld, RelayLost, paths, signal, race, users
  <2> QED
    BY <1>2, <2>1, BystanderInv DEF RelayLost, paths, race
<1> QED
  BY <1>0, <1>1, <1>2, UDPRaceInv, TCPRaceInv, TimerInv, CloserInv, ReceiverInv, SenderInv
     DEF Next

\* The strengthened invariant holds in every reachable state.
THEOREM Invariant == Spec => []Inv
  BY InitInv, NextInv, PTL DEF Spec

-----------------------------------------------------------------------------
\* Every variable of the manager and its goroutines stays in its range, and no
\* return of SetDirectUDP or SetQUICRelay keeps Manager.mu (manager.go:163-179,
\* 244-261).
THEOREM TypeCorrect == Spec => []TypeOK
<1>1. Inv => TypeOK
  BY DEF Inv
<1> QED
  BY <1>1, Invariant, PTL

\* No interleaving of the punch, Close and a fallback leaks the punch socket
\* (manager.go:157-169, 196-215, 463-476).
THEOREM SocketOwned == Spec => []SocketHasAnOwner
<1>1. Inv => SocketHasAnOwner
  BY DEF Inv
<1> QED
  BY <1>1, Invariant, PTL

\* Whoever holds the lock finds a punch result exactly when the UDP path is
\* direct, with its socket open until Close (manager.go:164-174, 196-215).
THEOREM PathAndPunchAgree == Spec => []PathMatchesPunch
<1>1. Inv => PathMatchesPunch
  BY DEF Inv, PunchIsDirect, PathMatchesPunch
<1> QED
  BY <1>1, Invariant, PTL

\* Only a fallback gives up a direct UDP path, and it closes the socket with
\* it; the relay's timer does not (manager.go:196-215, 245-258).
THEOREM DirectUDPKept == Spec => DirectUDPIsKept
<1> DEFINE Given == udpPath = "direct" /\ udpPath' # "direct"
           Kept  == Given => sock' = "closed" /\ ~punch'
<1>1. ASSUME Inv, [Next]_vars PROVE Kept
  <2> SUFFICES ASSUME Given PROVE sock' = "closed" /\ ~punch'
    OBVIOUS
  <2>1. CASE FallbackUDP
    BY <2>1, <1>1 DEF Inv, PunchIsDirect, FallbackUDP
  <2>2. CASE UDPRace \/ TCPRace
    BY <2>2 DEF UDPRace, PunchSucceeds, PunchFails, SetUDP, StoreUDP, NotifyUDP,
                TCPRace, ProbeEnds, SetTCP, StoreTCP, NotifyTCP, paths
  <2>3. CASE Timer
    BY <2>3 DEF Timer, TimerFires, LoadTCP, RelayTCP, RelayUDP, NotifyRelay, paths
  <2>4. CASE Closer \/ Close \/ RelayLost \/ UNCHANGED vars
    BY <2>4 DEF Closer, Cancel, CloseSocket, Close, RelayLost, vars, paths
  <2>5. CASE (Receiver \/ RelayDatagram) /\ ~ReceiveFallback
    BY <2>5 DEF Receiver, ReceiveTop, ReceivePunch, ReadSocket, RelayError,
                RelayDatagram, TakeWaiter, Recheck, Wake, receiverOnly, paths
  <2>6. CASE (Sender \/ Packet) /\ ~SendFallback
    BY <2>6 DEF Sender, SendPath, SendPunch, WriteSocket, Packet, senderOnly, paths
  <2> QED
    BY <1>1, <2>1, <2>2, <2>3, <2>4, <2>5, <2>6
       DEF Next, ReceiveFallback, SendFallback
<1>2. ASSUME Inv, [Next]_vars PROVE [Kept]_vars
  BY <1>1, <1>2
<1> QED
  BY <1>2, Invariant, PTL DEF Spec, DirectUDPIsKept
=============================================================================
