------------------------ MODULE RelayRegistryProofs ------------------------
(***************************************************************************)
(* Proofs about RelayRegistry for every set of devices, connections and    *)
(* console goroutines and every port range.                                *)
(*                                                                         *)
(* TypeOK, NoGhosts and ListenersHaveAnOwner are inductive once TypeOK is  *)
(* at hand.  The port properties are not: PortIInv adds what every handler *)
(* and every row knows about the port at each stage of a registration.     *)
(***************************************************************************)
EXTENDS RelayRegistry, TLAPS

-----------------------------------------------------------------------------
(* Type correctness.                                                       *)

USE DEF PCs, SockStates, handlerVars, mapVars, portVars, dbVars, Goto, Return,
        CloseSession

\* A handler past AUTH works for a device.
LEMMA DevKnown ==
  ASSUME TypeOK, NEW c \in Conns, pc[c] # "idle"
  PROVE  dev[c] \in Devices
  BY DEF TypeOK, HandlerTypeOK

\* The initial state is well typed.
LEMMA InitTypeOK == Init => TypeOK
  BY DEF Init, TypeOK, HandlerTypeOK, SessionTypeOK, PortTypeOK, RowTypeOK,
         ConsoleTypeOK, AdminStates, IdleAdmin

\* The steps of a registering handler, and of the network, keep the types.
LEMMA RegisterTypeOK ==
  ASSUME TypeOK, NEW c \in Conns, Authenticate(c) \/ Register(c) \/ Drop(c)
  PROVE  TypeOK'
<1> USE DevKnown DEF TypeOK, HandlerTypeOK, SessionTypeOK, PortTypeOK, RowTypeOK,
                     ConsoleTypeOK
<1>1. CASE Authenticate(c)  BY <1>1 DEF Authenticate
<1>2. CASE NoRegister(c)  BY <1>2 DEF NoRegister
<1>3. CASE ReusePort(c)  BY <1>3 DEF ReusePort
<1>4. CASE AllocatePort(c)  BY <1>4 DEF AllocatePort, FreePorts
<1>5. CASE NoPort(c)  BY <1>5 DEF NoPort
<1>6. CASE ReadExisting(c)  BY <1>6 DEF ReadExisting
<1>7. CASE BeginCloseOld(c)  BY <1>7 DEF BeginCloseOld
<1>8. CASE EndCloseOld(c)  BY <1>8 DEF EndCloseOld
<1>17. CASE OldAlreadyClosed(c)  BY <1>17 DEF OldAlreadyClosed
<1>9. CASE PersistKnown(c)  BY <1>9 DEF PersistKnown
<1>10. CASE PersistNew(c)  BY <1>10 DEF PersistNew
<1>11. CASE PersistFails(c)  BY <1>11 DEF PersistFails
<1>12. CASE Bind(c)  BY <1>12 DEF Bind
<1>13. CASE BindFails(c)  BY <1>13 DEF BindFails
<1>14. CASE RegisterOnline(c)  BY <1>14 DEF RegisterOnline
<1>15. CASE RegisterPeer(c)  BY <1>15 DEF RegisterPeer
<1>16. CASE Drop(c)  BY <1>16 DEF Drop
<1> QED
  BY <1>1, <1>2, <1>3, <1>4, <1>5, <1>6, <1>7, <1>8,
     <1>9, <1>10, <1>11, <1>12, <1>13, <1>14, <1>15, <1>16, <1>17 DEF Register

\* The steps of a handler whose control loop has ended keep the types.
LEMMA UnregisterTypeOK ==
  ASSUME TypeOK, NEW c \in Conns, Unregister(c)
  PROVE  TypeOK'
<1> USE DevKnown DEF TypeOK, HandlerTypeOK, SessionTypeOK, PortTypeOK, RowTypeOK,
                     ConsoleTypeOK
<1>1. CASE ControlLoopEnds(c)  BY <1>1 DEF ControlLoopEnds
<1>2. CASE UnregisterPeer(c)  BY <1>2 DEF UnregisterPeer
<1>3. CASE RemoveMaps(c)  BY <1>3 DEF RemoveMaps
<1>4. CASE BeginClose(c)  BY <1>4 DEF BeginClose
<1>5. CASE AlreadyClosed(c)  BY <1>5 DEF AlreadyClosed
<1>6. CASE EndClose(c)  BY <1>6 DEF EndClose
<1> QED  BY <1>1, <1>2, <1>3, <1>4, <1>5, <1>6 DEF Unregister

\* A request goes on to a well-typed stage when it is done with the session.
LEMMA AfterCloseType ==
  ASSUME ConsoleTypeOK, NEW a \in Admins, adm[a].pc # "idle"
  PROVE  /\ AfterClose(a) \in AdminStates
         /\ AfterClose(a).pc \notin {"close", "closing"}
         /\ AfterClose(a).pc # "idle" => AfterClose(a).dev \in Devices
  BY RegistryAssumption DEF AfterClose, AdminStates, IdleAdmin, ConsoleTypeOK

\* Giving one request a well-typed stage keeps all of them well typed.
LEMMA ConsoleUpdate ==
  ASSUME ConsoleTypeOK, NEW a \in Admins, NEW r \in AdminStates,
         r.pc # "idle" => r.dev \in Devices,
         r.pc \in {"close", "closing"} => r.victim \in Conns,
         adm' = [adm EXCEPT ![a] = r]
  PROVE  ConsoleTypeOK'
  BY DEF ConsoleTypeOK

\* The requests of the console keep the types.
LEMMA RequestTypeOK ==
  ASSUME TypeOK, NEW a \in Admins, NEW d \in Devices,
         Disable(a, d) \/ Disconnect(a, d) \/ Delete(a, d)
  PROVE  TypeOK'
<1>1. PICK r \in AdminStates :
        r.pc = "disconnect" /\ r.dev = d /\ adm' = [adm EXCEPT ![a] = r]
  BY DEF Disable, Disconnect, Delete, Request, AdminStates
<1>2. ConsoleTypeOK'
  BY <1>1, ConsoleUpdate DEF TypeOK
<1>3. (HandlerTypeOK /\ SessionTypeOK /\ PortTypeOK)'
  BY DEF Disable, Disconnect, Delete, Request, TypeOK, HandlerTypeOK, SessionTypeOK,
         PortTypeOK
<1>4. RowTypeOK'
  BY DEF Disable, Disconnect, Delete, Request, TypeOK, RowTypeOK
<1> QED  BY <1>2, <1>3, <1>4 DEF TypeOK

LEMMA FinishRequestTypeOK ==
  ASSUME TypeOK, NEW a \in Admins, FinishRequest(a)
  PROVE  TypeOK'
<1>1. adm[a] \in AdminStates /\ (adm[a].pc # "idle" => adm[a].dev \in Devices)
  BY DEF TypeOK, ConsoleTypeOK
<1>2. CASE DisconnectDevice(a)
  <2> DEFINE s == online[adm[a].dev]
             r == [adm[a] EXCEPT !.pc = "close", !.victim = s]
  <2>1. adm[a].dev \in Devices /\ s \in Conns \cup {NoConn} /\ adm[a].pc # "idle"
    BY <1>1, <1>2 DEF DisconnectDevice, TypeOK, SessionTypeOK
  <2>2. \/ adm' = [adm EXCEPT ![a] = AfterClose(a)]
        \/ s # NoConn /\ adm' = [adm EXCEPT ![a] = r]
    BY <1>2 DEF DisconnectDevice
  <2>3. ASSUME s # NoConn
        PROVE  r \in AdminStates /\ r.dev \in Devices /\ r.victim \in Conns
    BY <1>1, <2>1, <2>3 DEF AdminStates
  <2>4. ConsoleTypeOK'
    BY <2>1, <2>2, <2>3, AfterCloseType, ConsoleUpdate DEF TypeOK
  <2>5. SessionTypeOK'
    BY <1>2, <2>1 DEF DisconnectDevice, TypeOK, SessionTypeOK
  <2>6. (HandlerTypeOK /\ PortTypeOK /\ RowTypeOK)'
    BY <1>2 DEF DisconnectDevice, TypeOK, HandlerTypeOK, PortTypeOK, RowTypeOK
  <2> QED  BY <2>4, <2>5, <2>6 DEF TypeOK
<1>5. CASE BeginDisconnect(a)
  <2> DEFINE r == [adm[a] EXCEPT !.pc = "closing"]
  <2>1. adm[a].victim \in Conns
    BY <1>5 DEF BeginDisconnect, TypeOK, ConsoleTypeOK
  <2>2. r \in AdminStates /\ r.dev \in Devices /\ r.victim \in Conns
    BY <1>1, <1>5, <2>1 DEF BeginDisconnect, AdminStates
  <2>3. \/ adm' = [adm EXCEPT ![a] = AfterClose(a)]
        \/ adm' = [adm EXCEPT ![a] = r]
    BY <1>5 DEF BeginDisconnect
  <2>4. ConsoleTypeOK'
    BY <1>5, <2>2, <2>3, AfterCloseType, ConsoleUpdate DEF BeginDisconnect, TypeOK
  <2>5. SessionTypeOK'
    BY <1>5, <2>1 DEF BeginDisconnect, TypeOK, SessionTypeOK
  <2>6. (HandlerTypeOK /\ PortTypeOK /\ RowTypeOK)'
    BY <1>5 DEF BeginDisconnect, TypeOK, HandlerTypeOK, PortTypeOK, RowTypeOK
  <2> QED  BY <2>4, <2>5, <2>6 DEF TypeOK
<1>3. CASE EndDisconnect(a)
  <2>1. ConsoleTypeOK'
    BY <1>3, AfterCloseType, ConsoleUpdate DEF EndDisconnect, TypeOK
  <2>2. (HandlerTypeOK /\ SessionTypeOK /\ PortTypeOK /\ RowTypeOK)'
    BY <1>3 DEF EndDisconnect, TypeOK, HandlerTypeOK, SessionTypeOK, PortTypeOK, RowTypeOK
  <2> QED  BY <2>1, <2>2 DEF TypeOK
<1>4. CASE ReleasePort(a)
  <2>1. ConsoleTypeOK'
    BY <1>4 DEF ReleasePort, TypeOK, ConsoleTypeOK, IdleAdmin, AdminStates
  <2>2. (HandlerTypeOK /\ SessionTypeOK /\ PortTypeOK /\ RowTypeOK)'
    BY <1>4 DEF ReleasePort, TypeOK, HandlerTypeOK, SessionTypeOK, PortTypeOK, RowTypeOK
  <2> QED  BY <2>1, <2>2 DEF TypeOK
<1> QED  BY <1>2, <1>3, <1>4, <1>5 DEF FinishRequest

\* A restart keeps the types.
LEMMA RestartTypeOK == TypeOK /\ Restart => TypeOK'
  BY DEF TypeOK, HandlerTypeOK, SessionTypeOK, PortTypeOK, RowTypeOK, ConsoleTypeOK,
         Restart, PreloadPorts, AdminStates, IdleAdmin

LEMMA NextTypeOK == TypeOK /\ [Next]_vars => TypeOK'
<1> SUFFICES ASSUME TypeOK, [Next]_vars PROVE TypeOK'
  OBVIOUS
<1>1. ASSUME NEW c \in Conns, Authenticate(c) \/ Register(c) \/ Drop(c) PROVE TypeOK'
  BY <1>1, RegisterTypeOK
<1>2. ASSUME NEW c \in Conns, Unregister(c) PROVE TypeOK'
  BY <1>2, UnregisterTypeOK
<1>3. ASSUME NEW d \in Devices, Invite(d) \/ Enable(d) PROVE TypeOK'
  BY <1>3 DEF TypeOK, HandlerTypeOK, SessionTypeOK, PortTypeOK, RowTypeOK,
              ConsoleTypeOK, Invite, Enable
<1>4. ASSUME NEW a \in Admins, NEW d \in Devices,
             Disable(a, d) \/ Disconnect(a, d) \/ Delete(a, d)
      PROVE  TypeOK'
  BY <1>4, RequestTypeOK
<1>5. ASSUME NEW a \in Admins, FinishRequest(a) PROVE TypeOK'
  BY <1>5, FinishRequestTypeOK
<1>6. CASE Restart
  BY <1>6, RestartTypeOK
<1>7. CASE UNCHANGED vars
  BY <1>7 DEF TypeOK, HandlerTypeOK, SessionTypeOK, PortTypeOK, RowTypeOK,
              ConsoleTypeOK, vars
<1> QED  BY <1>1, <1>2, <1>3, <1>4, <1>5, <1>6, <1>7 DEF Next

\* The type invariant: whatever the interleaving of handlers, console requests
\* and restarts, every variable of the registry stays in its range, disabled
\* devices have a row, and who works on a device or closes a session has one.
THEOREM TypeCorrect == Spec => []TypeOK
  BY InitTypeOK, NextTypeOK, PTL DEF Spec

-----------------------------------------------------------------------------
(* The tables hold no ghosts.                                              *)

\* Whatever a step does to the tables, it leaves only live handlers in them.
LEMMA NextNoGhosts == TypeOK /\ NoGhosts /\ [Next]_vars => NoGhosts'
<1> SUFFICES ASSUME TypeOK, NoGhosts, [Next]_vars PROVE NoGhosts'
  OBVIOUS
<1> USE DEF NoGhosts, Listed, Peered, TypeOK, HandlerTypeOK, SessionTypeOK
<1>1. ASSUME NEW c \in Conns, Authenticate(c) \/ Register(c) \/ Drop(c)
      PROVE  NoGhosts'
  <2>1. CASE Authenticate(c)  BY <1>1, <2>1 DEF Authenticate
  <2>2. CASE NoRegister(c)  BY <1>1, <2>2 DEF NoRegister
  <2>3. CASE ReusePort(c)  BY <1>1, <2>3 DEF ReusePort
  <2>4. CASE AllocatePort(c)  BY <1>1, <2>4 DEF AllocatePort
  <2>5. CASE NoPort(c)  BY <1>1, <2>5 DEF NoPort
  <2>6. CASE ReadExisting(c)  BY <1>1, <2>6 DEF ReadExisting
  <2>7. CASE BeginCloseOld(c)  BY <1>1, <2>7 DEF BeginCloseOld
  <2>8. CASE OldAlreadyClosed(c) \/ EndCloseOld(c)
    BY <1>1, <2>8 DEF OldAlreadyClosed, EndCloseOld
  <2>9. CASE PersistKnown(c)  BY <1>1, <2>9 DEF PersistKnown
  <2>10. CASE PersistNew(c)  BY <1>1, <2>10 DEF PersistNew
  <2>11. CASE PersistFails(c)  BY <1>1, <2>11 DEF PersistFails
  <2>12. CASE Bind(c)  BY <1>1, <2>12 DEF Bind
  <2>13. CASE BindFails(c)  BY <1>1, <2>13 DEF BindFails
  <2>14. CASE RegisterOnline(c)  BY <1>1, <2>14 DEF RegisterOnline
  <2>15. CASE RegisterPeer(c)  BY <1>1, <2>15 DEF RegisterPeer
  <2>16. CASE Drop(c)  BY <1>1, <2>16 DEF Drop
  <2> QED
    BY <1>1, <2>1, <2>2, <2>3, <2>4, <2>5, <2>6, <2>7, <2>8,
       <2>9, <2>10, <2>11, <2>12, <2>13, <2>14, <2>15, <2>16 DEF Register
<1>2. ASSUME NEW c \in Conns, Unregister(c) PROVE NoGhosts'
  <2>1. CASE ControlLoopEnds(c)  BY <1>2, <2>1 DEF ControlLoopEnds
  <2>2. CASE UnregisterPeer(c)  BY <1>2, <2>2 DEF UnregisterPeer
  <2>3. CASE RemoveMaps(c)  BY <1>2, <2>3 DEF RemoveMaps
  <2>4. CASE BeginClose(c)  BY <1>2, <2>4 DEF BeginClose
  <2>5. CASE AlreadyClosed(c)  BY <1>2, <2>5 DEF AlreadyClosed
  <2>6. CASE EndClose(c)  BY <1>2, <2>6 DEF EndClose
  <2> QED  BY <1>2, <2>1, <2>2, <2>3, <2>4, <2>5, <2>6 DEF Unregister
<1>3. ASSUME NEW d \in Devices, Invite(d) \/ Enable(d) PROVE NoGhosts'
  BY <1>3 DEF Invite, Enable
<1>4. ASSUME NEW a \in Admins, NEW d \in Devices,
             Disable(a, d) \/ Disconnect(a, d) \/ Delete(a, d)
      PROVE  NoGhosts'
  BY <1>4 DEF Disable, Disconnect, Delete, Request, IdleAdmin, ConsoleTypeOK
<1>5. ASSUME NEW a \in Admins, FinishRequest(a) PROVE NoGhosts'
  <2>1. CASE DisconnectDevice(a)  BY <1>5, <2>1
    DEF DisconnectDevice, AfterClose, IdleAdmin, ConsoleTypeOK
  <2>2. CASE EndDisconnect(a)  BY <1>5, <2>2 DEF EndDisconnect, AfterClose, IdleAdmin
  <2>3. CASE ReleasePort(a)  BY <1>5, <2>3 DEF ReleasePort, IdleAdmin
  <2>4. CASE BeginDisconnect(a)  BY <1>5, <2>4 DEF BeginDisconnect, AfterClose, IdleAdmin
  <2> QED  BY <1>5, <2>1, <2>2, <2>3, <2>4 DEF FinishRequest
<1>6. CASE Restart  BY <1>6 DEF Restart, PreloadPorts
<1>7. CASE UNCHANGED vars  BY <1>7 DEF vars
<1> QED  BY <1>1, <1>2, <1>3, <1>4, <1>5, <1>6, <1>7 DEF Next

\* agentsByDevice and coordinator.peers never hold a session whose handler has
\* ended or that belongs to another device.
THEOREM TablesHoldNoGhosts == Spec => []NoGhosts
<1>1. Init => NoGhosts
  BY DEF Init, NoGhosts
<1> QED  BY <1>1, NextNoGhosts, TypeCorrect, PTL DEF Spec

-----------------------------------------------------------------------------
(* Every open listener has an owner.                                       *)

\* No step leaves open listeners without a goroutine that will close them.
LEMMA NextListenersHaveAnOwner == TypeOK /\ ListenersHaveAnOwner /\ [Next]_vars => ListenersHaveAnOwner'
<1> SUFFICES ASSUME TypeOK, ListenersHaveAnOwner, [Next]_vars PROVE ListenersHaveAnOwner'
  OBVIOUS
<1> USE DEF ListenersHaveAnOwner, Closer, WillClose, Listed, TypeOK, HandlerTypeOK, SessionTypeOK
<1>1. ASSUME NEW c \in Conns, Authenticate(c) \/ Register(c) \/ Drop(c)
      PROVE  ListenersHaveAnOwner'
  <2>1. CASE Authenticate(c)  BY <1>1, <2>1 DEF Authenticate
  <2>2. CASE NoRegister(c)  BY <1>1, <2>2 DEF NoRegister
  <2>3. CASE ReusePort(c)  BY <1>1, <2>3 DEF ReusePort
  <2>4. CASE AllocatePort(c)  BY <1>1, <2>4 DEF AllocatePort
  <2>5. CASE NoPort(c)  BY <1>1, <2>5 DEF NoPort
  <2>6. CASE ReadExisting(c)  BY <1>1, <2>6 DEF ReadExisting
  <2>7. CASE BeginCloseOld(c)  BY <1>1, <2>7 DEF BeginCloseOld
  <2>8. CASE OldAlreadyClosed(c) \/ EndCloseOld(c)
    BY <1>1, <2>8 DEF OldAlreadyClosed, EndCloseOld
  <2>9. CASE PersistKnown(c)  BY <1>1, <2>9 DEF PersistKnown
  <2>10. CASE PersistNew(c)  BY <1>1, <2>10 DEF PersistNew
  <2>11. CASE PersistFails(c)  BY <1>1, <2>11 DEF PersistFails
  <2>12. CASE Bind(c)  BY <1>1, <2>12 DEF Bind
  <2>13. CASE BindFails(c)  BY <1>1, <2>13 DEF BindFails
  <2>14. CASE RegisterOnline(c)  BY <1>1, <2>14 DEF RegisterOnline
  <2>15. CASE RegisterPeer(c)  BY <1>1, <2>15 DEF RegisterPeer
  <2>16. CASE Drop(c)  BY <1>1, <2>16 DEF Drop
  <2> QED
    BY <1>1, <2>1, <2>2, <2>3, <2>4, <2>5, <2>6, <2>7, <2>8,
       <2>9, <2>10, <2>11, <2>12, <2>13, <2>14, <2>15, <2>16 DEF Register
<1>2. ASSUME NEW c \in Conns, Unregister(c) PROVE ListenersHaveAnOwner'
  <2>1. CASE ControlLoopEnds(c)  BY <1>2, <2>1 DEF ControlLoopEnds
  <2>2. CASE UnregisterPeer(c)  BY <1>2, <2>2 DEF UnregisterPeer
  <2>3. CASE RemoveMaps(c)  BY <1>2, <2>3 DEF RemoveMaps
  <2>4. CASE BeginClose(c)  BY <1>2, <2>4 DEF BeginClose
  <2>5. CASE AlreadyClosed(c)  BY <1>2, <2>5 DEF AlreadyClosed
  <2>6. CASE EndClose(c)  BY <1>2, <2>6 DEF EndClose
  <2> QED  BY <1>2, <2>1, <2>2, <2>3, <2>4, <2>5, <2>6 DEF Unregister
<1>3. ASSUME NEW d \in Devices, Invite(d) \/ Enable(d) PROVE ListenersHaveAnOwner'
  BY <1>3 DEF Invite, Enable
<1>4. ASSUME NEW a \in Admins, NEW d \in Devices,
             Disable(a, d) \/ Disconnect(a, d) \/ Delete(a, d)
      PROVE  ListenersHaveAnOwner'
  BY <1>4 DEF Disable, Disconnect, Delete, Request, IdleAdmin, ConsoleTypeOK
<1>5. ASSUME NEW a \in Admins, FinishRequest(a) PROVE ListenersHaveAnOwner'
  <2>1. CASE DisconnectDevice(a)
    <3>1. \A r \in Admins : r # a => adm'[r] = adm[r]
      BY <2>1 DEF DisconnectDevice, ConsoleTypeOK
    <3> QED  BY <2>1, <3>1 DEF DisconnectDevice
  <2>2. CASE BeginDisconnect(a)
    <3>1. /\ adm[a].pc = "close" /\ adm[a].victim \in Conns
          /\ adm \in [Admins -> AdminStates]
      BY <2>2 DEF BeginDisconnect, ConsoleTypeOK
    <3>2. \A r \in Admins : r # a => adm'[r] = adm[r]
      BY <2>2, <3>1 DEF BeginDisconnect
    <3>3. CASE sock[adm[a].victim] = "open"
      <4>1. adm'[a].pc = "closing" /\ adm'[a].victim = adm[a].victim
        BY <2>2, <3>1, <3>3 DEF BeginDisconnect, AdminStates
      <4> QED  BY <2>2, <3>1, <3>2, <3>3, <4>1 DEF BeginDisconnect
    <3>4. CASE sock[adm[a].victim] # "open"
      BY <2>2, <3>1, <3>2, <3>4 DEF BeginDisconnect
    <3> QED  BY <3>3, <3>4
  <2>3. CASE EndDisconnect(a)  BY <1>5, <2>3 DEF EndDisconnect, AfterClose, IdleAdmin
  <2>4. CASE ReleasePort(a)  BY <1>5, <2>4 DEF ReleasePort, IdleAdmin
  <2> QED  BY <1>5, <2>1, <2>2, <2>3, <2>4 DEF FinishRequest
<1>6. CASE Restart  BY <1>6 DEF Restart, PreloadPorts
<1>7. CASE UNCHANGED vars  BY <1>7 DEF vars
<1> QED  BY <1>1, <1>2, <1>3, <1>4, <1>5, <1>6, <1>7 DEF Next

\* As long as the public listeners of a session are open, some goroutine still
\* has to close them, although all but one caller of Close return at once.
THEOREM ListenersAreNeverLeaked == Spec => []ListenersHaveAnOwner
<1>1. Init => ListenersHaveAnOwner
  BY DEF Init, ListenersHaveAnOwner
<1> QED  BY <1>1, NextListenersHaveAnOwner, TypeCorrect, PTL DEF Spec

-----------------------------------------------------------------------------
(* Who removes a session from the online table.                            *)

\* The late clean-up of an old connection never takes a newer session of the
\* device out: a session leaves agentsByDevice by its own handler or closed, or
\* is taken out by the request that closes it.
THEOREM NobodyElseRemovesASession == Spec => OnlyOwnEntryRemoved
<1>1. ASSUME TypeOK, [Next]_vars, NEW d \in Devices,
             online[d] # NoConn, online'[d] # online[d]
      PROVE  \/ pc[online[d]] = "removeMaps" \/ sock'[online[d]] # "open"
             \/ \E a \in Admins : adm'[a].victim = online[d]
  <2>1. online[d] \in Conns
    BY <1>1 DEF TypeOK, SessionTypeOK
  <2>2. ASSUME NEW c \in Conns, RegisterOnline(c)
        PROVE  sock'[online[d]] # "open"
    BY <1>1, <2>1, <2>2 DEF RegisterOnline, TypeOK, SessionTypeOK
  <2>3. ASSUME NEW c \in Conns, RemoveMaps(c)
        PROVE  pc[online[d]] = "removeMaps"
    BY <1>1, <2>1, <2>3 DEF RemoveMaps, TypeOK, SessionTypeOK
  <2>4. ASSUME NEW a \in Admins, DisconnectDevice(a)
        PROVE  adm'[a].victim = online[d]
    BY <1>1, <2>1, <2>4 DEF DisconnectDevice, TypeOK, SessionTypeOK, ConsoleTypeOK,
                            AdminStates
  <2>5. CASE Restart
    BY <2>1, <2>5 DEF Restart
  <2>6. \/ Restart
        \/ \E c \in Conns : RegisterOnline(c) \/ RemoveMaps(c)
        \/ \E a \in Admins : DisconnectDevice(a)
    <3>1. ASSUME NEW c \in Conns, Authenticate(c) \/ Unregister(c) \/ Drop(c)
          PROVE  RemoveMaps(c)
      BY <1>1, <3>1 DEF Authenticate, Drop, Unregister, ControlLoopEnds,
                        UnregisterPeer, BeginClose, AlreadyClosed, EndClose
    <3>2. ASSUME NEW c \in Conns, Register(c)
          PROVE  RegisterOnline(c)
      BY <1>1, <3>2 DEF Register, NoRegister, ReusePort, AllocatePort, NoPort,
                        ReadExisting, BeginCloseOld, OldAlreadyClosed, EndCloseOld, PersistKnown,
                        PersistNew, PersistFails, Bind, BindFails, RegisterPeer
    <3>3. ASSUME NEW a \in Admins, NEW e \in Devices,
                 Disable(a, e) \/ Disconnect(a, e) \/ Delete(a, e)
          PROVE  FALSE
      BY <1>1, <3>3 DEF Disable, Disconnect, Delete, Request
    <3>4. ASSUME NEW a \in Admins, FinishRequest(a) PROVE DisconnectDevice(a)
      BY <1>1, <3>4 DEF FinishRequest, BeginDisconnect, EndDisconnect, ReleasePort
    <3>5. ~UNCHANGED vars /\ ~ \E e \in Devices : Invite(e) \/ Enable(e)
      BY <1>1 DEF vars, Invite, Enable
    <3> QED  BY <1>1, <3>1, <3>2, <3>3, <3>4, <3>5 DEF Next
  <2> QED  BY <2>2, <2>3, <2>4, <2>5, <2>6
<1>2. TypeOK /\ [Next]_vars
        => \A d \in Devices : online[d] # NoConn /\ online'[d] # online[d]
             => \/ pc[online[d]] = "removeMaps"
                \/ sock'[online[d]] # "open"
                \/ \E a \in Admins : adm'[a].victim = online[d]
  BY <1>1
<1>3. Spec => [][\A d \in Devices : online[d] # NoConn /\ online'[d] # online[d]
                  => \/ pc[online[d]] = "removeMaps"
                     \/ sock'[online[d]] # "open"
                     \/ \E a \in Admins : adm'[a].victim = online[d]]_vars
  BY <1>2, TypeCorrect, PTL DEF Spec
<1> QED  BY <1>3 DEF OnlyOwnEntryRemoved

-----------------------------------------------------------------------------
(* Ports.  From here on no device is deleted.                              *)

Holding(c)   == pc[c] \notin {"idle", "authed", "done"}
Persisted(c) == Holding(c) /\ pc[c] \notin {"closeExisting", "closeOld", "closingOld", "persist"}
Serving(c)   == pc[c] \notin {"idle", "done"}

\* What a handler knows of the port it carries: PortManager gave it to its
\* device and, once persist is behind it, so says the row.
HandlerPorts ==
  \A c \in Conns :
    /\ Holding(c) => port[c] # 0 /\ devPort[dev[c]] = port[c]
    /\ Persisted(c) => dev[c] \in registered /\ dbPort[dev[c]] = port[c]
    /\ Serving(c) /\ ~enrolling[c] => dev[c] \in registered

\* SQLite never knows a port that PortManager does not, and what agents were
\* told is what the rows say.
RowPorts ==
  \A d \in Devices :
    /\ dbPort[d] # 0 => d \in registered /\ devPort[d] = dbPort[d]
    /\ announced[d] # 0 => dbPort[d] = announced[d]

\* The two tables of the manager list the same sessions.
ByPortAgrees ==
  /\ \A d \in Devices : online[d] # NoConn => byPort[port[online[d]]] = online[d]
  /\ \A p \in Ports : byPort[p] # NoConn =>
       /\ port[byPort[p]] = p
       /\ dev[byPort[p]] \in Devices
       /\ online[dev[byPort[p]]] = byPort[p]

\* No request is a deletion.
NoDeletion == \A a \in Admins : ~adm[a].delete /\ adm[a].pc # "release"

PortIInv == PortMapsInverse /\ HandlerPorts /\ RowPorts /\ ByPortAgrees

\* 0, the absence of a port, is no port: the range starts above it.
LEMMA PortsNotZero == 0 \notin Ports
  BY RegistryAssumption DEF Ports

\* What PortIInv says of an online session.
LEMMA OnlineSession ==
  ASSUME TypeOK, NoGhosts, PortIInv, NEW d \in Devices, online[d] # NoConn
  PROVE  /\ online[d] \in Conns /\ dev[online[d]] = d /\ Persisted(online[d])
         /\ port[online[d]] \in Ports /\ devPort[d] = port[online[d]]
         /\ dbPort[d] = port[online[d]] /\ portDev[port[online[d]]] = d
<1>1. online[d] \in Conns /\ dev[online[d]] = d /\ Persisted(online[d])
  BY DEF TypeOK, SessionTypeOK, NoGhosts, Listed, Persisted, Holding
<1>2. /\ port[online[d]] # 0 /\ devPort[d] = port[online[d]]
      /\ dbPort[d] = port[online[d]]
  BY <1>1 DEF PortIInv, HandlerPorts, Persisted
<1> QED
  BY <1>1, <1>2, PortsNotZero DEF TypeOK, HandlerTypeOK, PortIInv, PortMapsInverse

\* Devices that both have a port have different ports.
LEMMA PortsDiffer ==
  ASSUME PortIInv, NEW d \in Devices, NEW e \in Devices,
         devPort[d] = devPort[e], devPort[d] # 0
  PROVE  d = e
  BY DEF PortIInv, PortMapsInverse

-----------------------------------------------------------------------------
(* Steps that have nothing to do with ports.                               *)

\* Nothing that PortIInv mentions changes, but handlers may end or go on within
\* a stage of the registration.
Quiet ==
  /\ UNCHANGED <<dev, enrolling, port, mapVars, portVars, registered, dbPort, announced>>
  /\ \A c \in Conns : /\ Holding(c)' => Holding(c)
                      /\ Persisted(c)' => Persisted(c)
                      /\ Serving(c)' => Serving(c)

LEMMA QuietKeepsPorts == PortIInv /\ Quiet => PortIInv'
<1> SUFFICES ASSUME PortIInv, Quiet PROVE PortIInv'
  OBVIOUS
<1>1. PortMapsInverse' /\ RowPorts' /\ ByPortAgrees'
  BY DEF Quiet, PortIInv, PortMapsInverse, RowPorts, ByPortAgrees
<1>2. HandlerPorts'
  BY DEF Quiet, PortIInv, HandlerPorts
<1> QED  BY <1>1, <1>2 DEF PortIInv

\* The steps of a handler that are quiet.
LEMMA HandlerQuiet ==
  ASSUME TypeOK, NEW c \in Conns,
         \/ NoRegister(c) \/ NoPort(c) \/ ReadExisting(c) \/ BeginCloseOld(c)
         \/ OldAlreadyClosed(c) \/ EndCloseOld(c) \/ PersistFails(c) \/ Bind(c) \/ BindFails(c)
         \/ (Unregister(c) /\ ~RemoveMaps(c)) \/ Drop(c)
  PROVE  Quiet
<1> USE DEF TypeOK, HandlerTypeOK, Quiet, Holding, Persisted, Serving
<1>1. CASE NoRegister(c) \/ NoPort(c) \/ PersistFails(c) \/ BindFails(c)
  BY <1>1 DEF NoRegister, NoPort, PersistFails, BindFails
<1>2. CASE ReadExisting(c) \/ BeginCloseOld(c) \/ OldAlreadyClosed(c) \/ EndCloseOld(c)
  BY <1>2 DEF ReadExisting, BeginCloseOld, OldAlreadyClosed, EndCloseOld
<1>3. CASE Bind(c) \/ Drop(c)
  BY <1>3 DEF Bind, Drop
<1>4. CASE ControlLoopEnds(c) \/ UnregisterPeer(c) \/ BeginClose(c)
  BY <1>4 DEF ControlLoopEnds, UnregisterPeer, BeginClose
<1>5. CASE AlreadyClosed(c) \/ EndClose(c)
  BY <1>5 DEF AlreadyClosed, EndClose
<1> QED  BY <1>1, <1>2, <1>3, <1>4, <1>5 DEF Unregister

\* The console's requests, but for the removal of a session, are quiet.
LEMMA ConsoleQuiet ==
  ASSUME ~CanDelete, TypeOK, NoDeletion,
         \/ \E d \in Devices : Invite(d) \/ Enable(d)
         \/ \E a \in Admins, d \in Devices :
              Disable(a, d) \/ Disconnect(a, d) \/ Delete(a, d)
         \/ \E a \in Admins : BeginDisconnect(a) \/ EndDisconnect(a) \/ ReleasePort(a)
  PROVE  Quiet
<1> USE DEF Quiet, Holding, Persisted, Serving
<1>1. CASE \E d \in Devices : Invite(d) \/ Enable(d)
  BY <1>1 DEF Invite, Enable
<1>2. CASE \E a \in Admins, d \in Devices :
             Disable(a, d) \/ Disconnect(a, d) \/ Delete(a, d)
  BY <1>2 DEF Disable, Disconnect, Delete, Request
<1>3. CASE \E a \in Admins : BeginDisconnect(a) \/ EndDisconnect(a)
  BY <1>3 DEF BeginDisconnect, EndDisconnect
<1>4. ~ \E a \in Admins : ReleasePort(a)
  BY DEF ReleasePort, NoDeletion
<1> QED  BY <1>1, <1>2, <1>3, <1>4

-----------------------------------------------------------------------------
(* Steps that read or write a port.                                        *)

\* Handlers that are not in any table are not concerned by its agreement.
LEMMA UnlistedPort ==
  ASSUME TypeOK, NoGhosts, PortIInv, NEW c \in Conns, ~Listed(c)
  PROVE  /\ \A d \in Devices : online[d] # c
         /\ \A p \in Ports : byPort[p] # c
<1>1. \A d \in Devices : online[d] # c
  BY RegistryAssumption DEF NoGhosts
<1> QED
  BY <1>1, RegistryAssumption DEF PortIInv, ByPortAgrees

\* A handler that has just authenticated holds no port; one that is not
\* enrolling found a row.
LEMMA AuthenticateKeepsPorts ==
  ASSUME TypeOK, NoGhosts, PortIInv, NEW c \in Conns, Authenticate(c)
  PROVE  PortIInv'
<1>1. PortMapsInverse' /\ RowPorts'
  BY DEF Authenticate, PortIInv, PortMapsInverse, RowPorts
<1>2. HandlerPorts'
  BY DEF Authenticate, TypeOK, HandlerTypeOK, PortIInv, HandlerPorts, Holding,
         Persisted, Serving
<1>3. ByPortAgrees'
  <2>1. /\ \A d \in Devices : online[d] # c
        /\ \A p \in Ports : byPort[p] # c
    BY UnlistedPort DEF Authenticate, Listed
  <2>2. \A s \in Conns \ {c} : dev'[s] = dev[s]
    BY DEF Authenticate, TypeOK, HandlerTypeOK
  <2> QED  BY <2>1, <2>2 DEF Authenticate, TypeOK, SessionTypeOK, PortIInv, ByPortAgrees
<1> QED  BY <1>1, <1>2, <1>3 DEF PortIInv

\* A handler that is given a port is in no table, so they go on agreeing.
LEMMA GivenPortAgrees ==
  ASSUME TypeOK, NoGhosts, PortIInv, NEW c \in Conns, pc[c] = "authed",
         NEW p \in Ports, port' = [port EXCEPT ![c] = p],
         UNCHANGED <<dev, mapVars>>
  PROVE  ByPortAgrees'
<1>1. /\ \A d \in Devices : online[d] # c
      /\ \A q \in Ports : byPort[q] # c
  BY UnlistedPort DEF Listed
<1>2. \A s \in Conns \ {c} : port'[s] = port[s]
  BY DEF TypeOK, HandlerTypeOK
<1> QED  BY <1>1, <1>2 DEF TypeOK, SessionTypeOK, PortIInv, ByPortAgrees

\* A device that comes back is given the port it has.
LEMMA ReusePortKeepsPorts ==
  ASSUME TypeOK, NoGhosts, PortIInv, NEW c \in Conns, ReusePort(c)
  PROVE  PortIInv'
<1>1. PortMapsInverse' /\ RowPorts'
  BY DEF ReusePort, PortIInv, PortMapsInverse, RowPorts
<1>2. dev[c] \in Devices /\ devPort[dev[c]] \in Ports
  BY DevKnown DEF ReusePort, TypeOK, PortTypeOK
<1>3. HandlerPorts'
  BY <1>2 DEF ReusePort, TypeOK, HandlerTypeOK, PortIInv, HandlerPorts, Holding,
              Persisted, Serving
<1>4. ByPortAgrees'
  BY <1>2, GivenPortAgrees DEF ReusePort
<1> QED  BY <1>1, <1>3, <1>4 DEF PortIInv

\* A fresh port belongs to nobody, and no row, handler or session of the device
\* knows a port yet.
LEMMA AllocatePortKeepsPorts ==
  ASSUME TypeOK, NoGhosts, PortIInv, NEW c \in Conns, AllocatePort(c)
  PROVE  PortIInv'
<1>1. PICK p \in FreePorts :
        /\ devPort' = [devPort EXCEPT ![dev[c]] = p]
        /\ portDev' = [portDev EXCEPT ![p] = dev[c]]
        /\ port' = [port EXCEPT ![c] = p]
  BY DEF AllocatePort
<1>2. dev[c] \in Devices /\ p \in Ports /\ p # 0 /\ portDev[p] = NoDevice
  BY DevKnown, PortsNotZero DEF AllocatePort, FreePorts
<1>3. devPort[dev[c]] = 0 /\ dbPort[dev[c]] = 0
  BY <1>2 DEF AllocatePort, PortIInv, RowPorts
<1>4. \A s \in Conns : Holding(s) => dev[s] # dev[c]
  BY <1>3 DEF PortIInv, HandlerPorts
<1>5. PortMapsInverse'
  <2>1. /\ devPort'[dev[c]] = p /\ \A d \in Devices \ {dev[c]} : devPort'[d] = devPort[d]
        /\ portDev'[p] = dev[c] /\ \A q \in Ports \ {p} : portDev'[q] = portDev[q]
    BY <1>1, <1>2 DEF TypeOK, PortTypeOK
  <2>2. \A d \in Devices : devPort[d] # p
    BY <1>2, RegistryAssumption DEF PortIInv, PortMapsInverse
  <2>3. \A q \in Ports : portDev[q] # dev[c]
    BY <1>2, <1>3, PortsNotZero, RegistryAssumption DEF PortIInv, PortMapsInverse
  <2>4. /\ \A d \in Devices : devPort[d] \in Ports \cup {0}
        /\ \A q \in Ports : portDev[q] \in Devices \cup {NoDevice}
    BY DEF TypeOK, PortTypeOK
  <2>5. \A d \in Devices : devPort'[d] # 0 => portDev'[devPort'[d]] = d
    BY <1>2, <2>1, <2>2, <2>4 DEF PortIInv, PortMapsInverse
  <2>6. \A q \in Ports : portDev'[q] # NoDevice => devPort'[portDev'[q]] = q
    BY <1>2, <2>1, <2>3, <2>4 DEF PortIInv, PortMapsInverse
  <2> QED  BY <2>5, <2>6 DEF PortMapsInverse
<1>6. HandlerPorts'
  <2>1. port'[c] = p /\ devPort'[dev[c]] = p
    BY <1>1, <1>2 DEF TypeOK, HandlerTypeOK, PortTypeOK
  <2>2. pc'[c] = "closeExisting" /\ \A s \in Conns \ {c} : pc'[s] = pc[s]
    BY DEF AllocatePort, TypeOK, HandlerTypeOK
  <2>3. \A s \in Conns \ {c} : port'[s] = port[s]
    BY <1>1 DEF TypeOK, HandlerTypeOK
  <2>4. \A s \in Conns : Holding(s) => devPort'[dev[s]] = devPort[dev[s]]
    <3> SUFFICES ASSUME NEW s \in Conns, Holding(s)
                 PROVE  devPort'[dev[s]] = devPort[dev[s]]
      OBVIOUS
    <3>1. dev[s] \in Devices /\ dev[s] # dev[c]
      BY <1>4, DevKnown DEF Holding
    <3> QED  BY <1>1, <3>1 DEF TypeOK, PortTypeOK
  <2>5. UNCHANGED <<dev, enrolling, registered, dbPort>>
    BY DEF AllocatePort
  <2>6. dev[c] \in registered \/ enrolling[c]
    BY DEF AllocatePort, PortIInv, HandlerPorts, Serving
  <2> QED
    BY <1>2, <2>1, <2>2, <2>3, <2>4, <2>5, <2>6
    DEF PortIInv, HandlerPorts, Holding, Persisted, Serving
<1>7. RowPorts'
  <2>1. \A d \in Devices \ {dev[c]} : devPort'[d] = devPort[d]
    BY <1>1 DEF TypeOK, PortTypeOK
  <2> QED  BY <1>3, <2>1 DEF AllocatePort, PortIInv, RowPorts
<1>8. ByPortAgrees'
  BY <1>1, <1>2, GivenPortAgrees DEF AllocatePort
<1> QED  BY <1>5, <1>6, <1>7, <1>8 DEF PortIInv

\* Writing a row stores the port that PortManager has for the device, and leaves
\* a port that was already stored as it was.
LEMMA PersistStores ==
  ASSUME TypeOK, PortIInv, NEW c \in Conns, PersistKnown(c) \/ PersistNew(c)
  PROVE  /\ dev[c] \in Devices /\ port[c] # 0 /\ devPort[dev[c]] = port[c]
         /\ registered' = registered \cup {dev[c]}
         /\ dbPort' = [dbPort EXCEPT ![dev[c]] = port[c]]
         /\ dbPort[dev[c]] \in {0, port[c]}
<1>1. dev[c] \in Devices /\ pc[c] = "persist"
  BY DevKnown DEF PersistKnown, PersistNew
<1>2. port[c] # 0 /\ devPort[dev[c]] = port[c]
  BY <1>1 DEF PortIInv, HandlerPorts, Holding
<1>3. dbPort[dev[c]] \in {0, port[c]}
  BY <1>1, <1>2 DEF PortIInv, RowPorts
<1>4. CASE PersistKnown(c)
  <2>1. dev[c] \in registered
    BY <1>1, <1>4 DEF PersistKnown, PortIInv, HandlerPorts, Serving
  <2> QED  BY <1>1, <1>2, <1>3, <1>4, <2>1 DEF PersistKnown
<1>5. CASE PersistNew(c)
  BY <1>1, <1>2, <1>3, <1>5 DEF PersistNew, TypeOK, RowTypeOK
<1> QED  BY <1>4, <1>5

LEMMA PersistKeepsPorts ==
  ASSUME TypeOK, PortIInv, NEW c \in Conns, PersistKnown(c) \/ PersistNew(c)
  PROVE  PortIInv'
<1>1. /\ dev[c] \in Devices /\ port[c] # 0 /\ devPort[dev[c]] = port[c]
      /\ registered' = registered \cup {dev[c]}
      /\ dbPort' = [dbPort EXCEPT ![dev[c]] = port[c]]
      /\ dbPort[dev[c]] \in {0, port[c]}
  BY PersistStores
<1>2. UNCHANGED <<dev, enrolling, port, mapVars, portVars, announced>>
  BY DEF PersistKnown, PersistNew
<1>3. /\ pc[c] = "persist" /\ pc'[c] = "bind"
      /\ \A s \in Conns \ {c} : pc'[s] = pc[s]
  BY DEF PersistKnown, PersistNew, TypeOK, HandlerTypeOK
<1>4. /\ dbPort'[dev[c]] = port[c]
      /\ \A d \in Devices \ {dev[c]} : dbPort'[d] = dbPort[d]
  BY <1>1 DEF TypeOK, RowTypeOK
<1>5. PortMapsInverse' /\ ByPortAgrees'
  BY <1>2 DEF PortIInv, PortMapsInverse, ByPortAgrees
<1>6. RowPorts'
  BY <1>1, <1>2, <1>4 DEF PortIInv, RowPorts
<1>7. HandlerPorts'
  <2> SUFFICES ASSUME NEW s \in Conns
               PROVE  /\ Holding(s)' => port'[s] # 0 /\ devPort'[dev'[s]] = port'[s]
                      /\ Persisted(s)' => dev'[s] \in registered' /\ dbPort'[dev'[s]] = port'[s]
                      /\ Serving(s)' /\ ~enrolling'[s] => dev'[s] \in registered'
    BY DEF HandlerPorts
  <2>1. /\ Holding(s) => port[s] # 0 /\ devPort[dev[s]] = port[s]
        /\ Persisted(s) => dev[s] \in registered /\ dbPort[dev[s]] = port[s]
        /\ Serving(s) /\ ~enrolling[s] => dev[s] \in registered
    BY DEF PortIInv, HandlerPorts
  <2>2. CASE s = c
    BY <1>1, <1>2, <1>3, <1>4, <2>2
  <2>3. CASE s # c
    <3>1. (Holding(s)' <=> Holding(s)) /\ (Persisted(s)' <=> Persisted(s)) /\ (Serving(s)' <=> Serving(s))
      BY <1>3, <2>3 DEF Holding, Persisted, Serving
    <3>2. Persisted(s) => dev[s] \in Devices
      BY DevKnown DEF Persisted, Holding
    <3>3. Persisted(s) => Holding(s)
      BY DEF Persisted
    <3> QED  BY <1>1, <1>2, <1>4, <2>1, <3>1, <3>2, <3>3
  <2> QED  BY <2>2, <2>3
<1> QED  BY <1>5, <1>6, <1>7 DEF PortIInv

\* A session enters both tables at the port of its device; the one it replaces
\* was there at the same port, any other is at another.
LEMMA RegisterOnlineKeepsPorts ==
  ASSUME TypeOK, NoGhosts, PortIInv, NEW c \in Conns, RegisterOnline(c)
  PROVE  PortIInv'
<1>1. /\ dev[c] \in Devices /\ Persisted(c) /\ Holding(c)
      /\ port[c] # 0 /\ devPort[dev[c]] = port[c] /\ port[c] \in Ports
  BY DevKnown DEF RegisterOnline, Persisted, Holding, PortIInv, HandlerPorts,
                  TypeOK, HandlerTypeOK
<1>2. PortMapsInverse' /\ RowPorts'
  BY DEF RegisterOnline, PortIInv, PortMapsInverse, RowPorts
<1>3. HandlerPorts'
  BY DEF RegisterOnline, TypeOK, HandlerTypeOK, PortIInv, HandlerPorts, Holding,
         Persisted, Serving
<1>4. /\ online'[dev[c]] = c /\ \A d \in Devices \ {dev[c]} : online'[d] = online[d]
      /\ byPort'[port[c]] = c /\ \A p \in Ports \ {port[c]} : byPort'[p] = byPort[p]
      /\ UNCHANGED <<dev, port>>
  BY <1>1 DEF RegisterOnline, TypeOK, SessionTypeOK
<1>5. \A d \in Devices : online'[d] # NoConn => byPort'[port'[online'[d]]] = online'[d]
  <2> SUFFICES ASSUME NEW d \in Devices \ {dev[c]}, online[d] # NoConn
               PROVE  byPort'[port[online[d]]] = online[d]
    BY <1>4
  <2>1. /\ port[online[d]] \in Ports /\ devPort[d] = port[online[d]]
    BY OnlineSession
  <2>2. port[online[d]] # port[c]
    BY <1>1, <2>1, PortsDiffer
  <2> QED  BY <1>4, <2>1, <2>2 DEF PortIInv, ByPortAgrees
<1>6. \A p \in Ports : byPort'[p] # NoConn =>
        /\ port'[byPort'[p]] = p
        /\ dev'[byPort'[p]] \in Devices
        /\ online'[dev'[byPort'[p]]] = byPort'[p]
  <2>1. CASE \A p \in Ports \ {port[c]} : byPort[p] # NoConn => dev[byPort[p]] # dev[c]
    BY <1>1, <1>4, <2>1 DEF PortIInv, ByPortAgrees
  <2>2. ASSUME NEW p \in Ports \ {port[c]}, byPort[p] # NoConn, dev[byPort[p]] = dev[c]
        PROVE  FALSE
    <3>1. online[dev[c]] = byPort[p] /\ port[byPort[p]] = p
      BY <2>2 DEF PortIInv, ByPortAgrees
    <3>2. devPort[dev[c]] = port[online[dev[c]]]
      BY <1>1, <2>2, <3>1, OnlineSession
    <3> QED  BY <1>1, <3>1, <3>2
  <2> QED  BY <2>1, <2>2
<1>7. ByPortAgrees'
  BY <1>5, <1>6 DEF ByPortAgrees
<1> QED  BY <1>2, <1>3, <1>7 DEF PortIInv

\* What PORT_ASSIGN tells the agent is what the row says.
LEMMA RegisterPeerKeepsPorts ==
  ASSUME TypeOK, PortIInv, NEW c \in Conns, RegisterPeer(c)
  PROVE  PortIInv'
<1>1. dev[c] \in Devices /\ dbPort[dev[c]] = port[c]
  BY DevKnown DEF RegisterPeer, PortIInv, HandlerPorts, Persisted, Holding
<1>2. PortMapsInverse' /\ ByPortAgrees'
  BY DEF RegisterPeer, PortIInv, PortMapsInverse, ByPortAgrees
<1>3. HandlerPorts'
  BY DEF RegisterPeer, TypeOK, HandlerTypeOK, PortIInv, HandlerPorts, Holding,
         Persisted, Serving
<1>4. \A d \in Devices : announced'[d] = announced[d] \/ (d = dev[c] /\ announced'[d] = port[c])
  BY DEF RegisterPeer, TypeOK, PortTypeOK
<1>5. RowPorts'
  BY <1>1, <1>4 DEF RegisterPeer, PortIInv, RowPorts
<1> QED  BY <1>2, <1>3, <1>5 DEF PortIInv

\* The entries of an online session are removed from both tables together.
LEMMA RemovalAgrees ==
  ASSUME TypeOK, NoGhosts, PortIInv, NEW d \in Devices, online[d] # NoConn,
         online' = [online EXCEPT ![d] = NoConn],
         byPort' = [byPort EXCEPT ![port[online[d]]] = NoConn],
         UNCHANGED <<dev, port>>
  PROVE  ByPortAgrees'
<1>1. /\ port[online[d]] \in Ports /\ devPort[d] = port[online[d]]
      /\ dev[online[d]] = d /\ byPort[port[online[d]]] = online[d]
  BY OnlineSession DEF PortIInv, ByPortAgrees
<1>2. /\ online'[d] = NoConn /\ \A e \in Devices \ {d} : online'[e] = online[e]
      /\ byPort'[port[online[d]]] = NoConn
      /\ \A p \in Ports \ {port[online[d]]} : byPort'[p] = byPort[p]
  BY <1>1 DEF TypeOK, SessionTypeOK
<1>3. ASSUME NEW e \in Devices, online'[e] # NoConn
      PROVE  byPort'[port'[online'[e]]] = online'[e]
  <2>1. e # d /\ online'[e] = online[e]
    BY <1>2, <1>3
  <2>2. port[online[e]] \in Ports /\ devPort[e] = port[online[e]]
    BY <1>3, <2>1, OnlineSession
  <2>3. port[online[e]] # port[online[d]]
    BY <1>1, <2>1, <2>2, PortsNotZero, PortsDiffer
  <2> QED  BY <1>2, <1>3, <2>1, <2>2, <2>3 DEF PortIInv, ByPortAgrees
<1>4. ASSUME NEW p \in Ports, byPort'[p] # NoConn
      PROVE  /\ port'[byPort'[p]] = p
             /\ dev'[byPort'[p]] \in Devices
             /\ online'[dev'[byPort'[p]]] = byPort'[p]
  <2>1. p # port[online[d]] /\ byPort'[p] = byPort[p]
    BY <1>2, <1>4
  <2>2. port[byPort[p]] = p /\ dev[byPort[p]] \in Devices /\ online[dev[byPort[p]]] = byPort[p]
    BY <1>4, <2>1 DEF PortIInv, ByPortAgrees
  <2>3. dev[byPort[p]] # d
    BY <2>1, <2>2
  <2> QED  BY <1>2, <2>1, <2>2, <2>3
<1> QED  BY <1>3, <1>4 DEF ByPortAgrees

LEMMA RemoveMapsKeepsPorts ==
  ASSUME TypeOK, NoGhosts, PortIInv, NEW c \in Conns, RemoveMaps(c)
  PROVE  PortIInv'
<1>1. PortMapsInverse' /\ RowPorts'
  BY DEF RemoveMaps, PortIInv, PortMapsInverse, RowPorts
<1>2. HandlerPorts'
  BY DEF RemoveMaps, TypeOK, HandlerTypeOK, PortIInv, HandlerPorts, Holding,
         Persisted, Serving
<1>3. CASE online[dev[c]] = c
  <2>1. dev[c] \in Devices /\ online[dev[c]] # NoConn
    BY <1>3, DevKnown, RegistryAssumption DEF RemoveMaps
  <2>2. ByPortAgrees'
    BY <1>3, <2>1, RemovalAgrees DEF RemoveMaps
  <2> QED  BY <1>1, <1>2, <2>2 DEF PortIInv
<1>4. CASE online[dev[c]] # c
  <2>1. ByPortAgrees'
    BY <1>4 DEF RemoveMaps, PortIInv, ByPortAgrees
  <2> QED  BY <1>1, <1>2, <2>1 DEF PortIInv
<1> QED  BY <1>3, <1>4

LEMMA DisconnectDeviceKeepsPorts ==
  ASSUME TypeOK, NoGhosts, PortIInv, NEW a \in Admins, DisconnectDevice(a)
  PROVE  PortIInv'
<1>1. PortMapsInverse' /\ RowPorts'
  BY DEF DisconnectDevice, PortIInv, PortMapsInverse, RowPorts
<1>2. HandlerPorts'
  BY DEF DisconnectDevice, PortIInv, HandlerPorts, Holding, Persisted, Serving
<1>3. CASE online[adm[a].dev] # NoConn
  <2>1. adm[a].dev \in Devices
    BY DEF DisconnectDevice, TypeOK, ConsoleTypeOK
  <2>2. ByPortAgrees'
    BY <1>3, <2>1, RemovalAgrees DEF DisconnectDevice
  <2> QED  BY <1>1, <1>2, <2>2 DEF PortIInv
<1>4. CASE online[adm[a].dev] = NoConn
  <2>1. ByPortAgrees'
    BY <1>4 DEF DisconnectDevice, PortIInv, ByPortAgrees
  <2> QED  BY <1>1, <1>2, <2>1 DEF PortIInv
<1> QED  BY <1>3, <1>4

\* PortManager is rebuilt from rows that say what it had said before.
LEMMA RestartKeepsPorts ==
  ASSUME TypeOK, PortIInv, Restart
  PROVE  PortIInv'
<1>1. \A d \in Devices : devPort'[d] = dbPort[d]
  <2> SUFFICES ASSUME NEW d \in Devices PROVE devPort'[d] = dbPort[d]
    OBVIOUS
  <2>1. devPort'[d] = IF d \in registered /\ dbPort[d] \in Ports THEN dbPort[d] ELSE 0
    BY DEF Restart, PreloadPorts
  <2>2. dbPort[d] \in Ports \cup {0} /\ (dbPort[d] # 0 => d \in registered)
    BY DEF TypeOK, RowTypeOK, PortIInv, RowPorts
  <2> QED  BY <2>1, <2>2
<1>2. \A p \in Ports : \A d \in PortClaimants(p) :
        d \in Devices /\ dbPort[d] = p /\ devPort[d] = p
  BY PortsNotZero DEF PortClaimants, TypeOK, RowTypeOK, PortIInv, RowPorts
<1>3. PortMapsInverse'
  <2>1. ASSUME NEW d \in Devices, devPort'[d] # 0
        PROVE  portDev'[devPort'[d]] = d
    <3>1. dbPort[d] # 0 /\ dbPort[d] \in Ports /\ devPort[d] = dbPort[d] /\ d \in registered
      BY <1>1, <2>1 DEF TypeOK, RowTypeOK, PortIInv, RowPorts
    <3>2. d \in PortClaimants(dbPort[d])
      BY <3>1 DEF PortClaimants
    <3>3. portDev'[dbPort[d]] \in PortClaimants(dbPort[d])
      BY <3>1, <3>2 DEF Restart, PreloadPorts
    <3>4. devPort[portDev'[dbPort[d]]] = dbPort[d] /\ portDev'[dbPort[d]] \in Devices
      BY <1>2, <3>1, <3>3
    <3>5. portDev'[dbPort[d]] = d
      BY <3>1, <3>4, PortsDiffer
    <3> QED  BY <1>1, <3>5
  <2>2. ASSUME NEW p \in Ports, portDev'[p] # NoDevice
        PROVE  devPort'[portDev'[p]] = p
    <3>1. portDev'[p] \in PortClaimants(p)
      BY <2>2 DEF Restart, PreloadPorts
    <3> QED  BY <1>1, <1>2, <3>1
  <2> QED  BY <2>1, <2>2 DEF PortMapsInverse
<1>4. RowPorts'
  BY <1>1 DEF Restart, PortIInv, RowPorts
<1>5. HandlerPorts'
  BY DEF Restart, HandlerPorts, Holding, Persisted, Serving
<1>6. ByPortAgrees'
  BY DEF Restart, ByPortAgrees
<1> QED  BY <1>3, <1>4, <1>5, <1>6 DEF PortIInv

-----------------------------------------------------------------------------
(* The theorems about ports.                                               *)

\* Without DELETE requests no request is ever a deletion.
LEMMA NextNoDeletion ==
  ASSUME ~CanDelete, TypeOK, NoDeletion, [Next]_vars
  PROVE  NoDeletion'
<1> USE DEF NoDeletion, TypeOK, ConsoleTypeOK
<1>1. ASSUME NEW a \in Admins, NEW d \in Devices,
             Disable(a, d) \/ Disconnect(a, d) \/ Delete(a, d)
      PROVE  NoDeletion'
  BY <1>1 DEF Disable, Disconnect, Delete, Request
<1>2. ASSUME NEW a \in Admins, FinishRequest(a) PROVE NoDeletion'
  <2>1. CASE DisconnectDevice(a)
    BY <2>1 DEF DisconnectDevice, AfterClose, IdleAdmin, AdminStates
  <2>2. CASE EndDisconnect(a)
    BY <2>2 DEF EndDisconnect, AfterClose, IdleAdmin, AdminStates
  <2>3. CASE ReleasePort(a)
    BY <2>3 DEF ReleasePort
  <2>4. CASE BeginDisconnect(a)
    BY <2>4 DEF BeginDisconnect, AfterClose, IdleAdmin, AdminStates
  <2> QED  BY <1>2, <2>1, <2>2, <2>3, <2>4 DEF FinishRequest
<1>3. ASSUME NEW c \in Conns, Authenticate(c) \/ Unregister(c) \/ Drop(c)
      PROVE  NoDeletion'
  BY <1>3 DEF Authenticate, Drop, Unregister, ControlLoopEnds, UnregisterPeer,
              RemoveMaps, BeginClose, AlreadyClosed, EndClose
<1>4. ASSUME NEW c \in Conns, Register(c) PROVE NoDeletion'
  BY <1>4 DEF Register, NoRegister, ReusePort, AllocatePort, NoPort,
              ReadExisting, BeginCloseOld, OldAlreadyClosed, EndCloseOld, PersistKnown,
              PersistNew, PersistFails, Bind, BindFails, RegisterOnline,
              RegisterPeer
<1>5. CASE Restart  BY <1>5 DEF Restart, IdleAdmin
<1>6. CASE \E d \in Devices : Invite(d) \/ Enable(d)
  BY <1>6 DEF Invite, Enable
<1>7. CASE UNCHANGED vars  BY <1>7 DEF vars
<1> QED  BY <1>1, <1>2, <1>3, <1>4, <1>5, <1>6, <1>7 DEF Next

\* Every step keeps what handlers, rows and tables know of ports.
LEMMA NextPorts ==
  ASSUME ~CanDelete, TypeOK, NoGhosts, NoDeletion, PortIInv, [Next]_vars
  PROVE  PortIInv'
<1>1. ASSUME NEW c \in Conns, Register(c) PROVE PortIInv'
  BY <1>1, ReusePortKeepsPorts, AllocatePortKeepsPorts, PersistKeepsPorts,
     RegisterOnlineKeepsPorts, RegisterPeerKeepsPorts, HandlerQuiet,
     QuietKeepsPorts DEF Register
<1>2. ASSUME NEW c \in Conns, Authenticate(c) \/ Unregister(c) \/ Drop(c)
      PROVE  PortIInv'
  BY <1>2, AuthenticateKeepsPorts, RemoveMapsKeepsPorts, HandlerQuiet,
     QuietKeepsPorts DEF Unregister
<1>3. ASSUME NEW a \in Admins, FinishRequest(a) PROVE PortIInv'
  BY <1>3, DisconnectDeviceKeepsPorts, ConsoleQuiet, QuietKeepsPorts
  DEF FinishRequest
<1>4. CASE \/ \E d \in Devices : Invite(d) \/ Enable(d)
           \/ \E a \in Admins, d \in Devices :
                Disable(a, d) \/ Disconnect(a, d) \/ Delete(a, d)
  BY <1>4, ConsoleQuiet, QuietKeepsPorts
<1>5. CASE Restart  BY <1>5, RestartKeepsPorts
<1>6. CASE UNCHANGED vars
  <2>1. Quiet
    BY <1>6 DEF vars, Quiet, Holding, Persisted, Serving
  <2> QED  BY <2>1, QuietKeepsPorts
<1> QED  BY <1>1, <1>2, <1>3, <1>4, <1>5, <1>6 DEF Next

\* On a relay whose console deletes no device PortIInv always holds.
LEMMA PortsInvariant ==
  ASSUME ~CanDelete
  PROVE  Spec => [](NoDeletion /\ PortIInv)
<1>1. Init => NoDeletion /\ PortIInv
  BY DEF Init, NoDeletion, PortIInv, PortMapsInverse, HandlerPorts, RowPorts,
         ByPortAgrees, Holding, Persisted, Serving, IdleAdmin
<1>2. TypeOK /\ NoGhosts /\ NoDeletion /\ PortIInv /\ [Next]_vars
        => (NoDeletion /\ PortIInv)'
  BY NextNoDeletion, NextPorts
<1> QED  BY <1>1, <1>2, TypeCorrect, TablesHoldNoGhosts, PTL DEF Spec

\* The two maps of PortManager are inverse, however registrations, consoles and
\* restarts interleave.
THEOREM PortMapsAreInverse ==
  ASSUME ~CanDelete
  PROVE  Spec => []PortMapsInverse
<1>1. PortIInv => PortMapsInverse
  BY DEF PortIInv
<1> QED  BY <1>1, PortsInvariant, PTL

\* Two rows never have the same public port although nothing in the schema
\* keeps them from it.
THEOREM PersistedPortsAreDistinct ==
  ASSUME ~CanDelete
  PROVE  Spec => []PersistedPortsDistinct
<1>1. TypeOK /\ PortIInv => PersistedPortsDistinct
  <2> SUFFICES ASSUME TypeOK, PortIInv, NEW d \in registered, NEW e \in registered,
                      dbPort[d] = dbPort[e], dbPort[d] # 0
               PROVE  d = e
    BY DEF PersistedPortsDistinct
  <2>1. d \in Devices /\ e \in Devices
    BY DEF TypeOK, RowTypeOK
  <2>2. devPort[d] = dbPort[d] /\ devPort[e] = dbPort[e]
    BY <2>1 DEF PortIInv, RowPorts
  <2> QED  BY <2>1, <2>2, PortsDiffer
<1> QED  BY <1>1, PortsInvariant, TypeCorrect, PTL

\* An online session listens on the port that PortManager and SQLite have for its
\* device, and both tables of the manager list it.
THEOREM OnlinePortsAlwaysAgree ==
  ASSUME ~CanDelete
  PROVE  Spec => []OnlinePortsAgree
<1>1. TypeOK /\ NoGhosts /\ PortIInv => OnlinePortsAgree
  BY OnlineSession, PortsNotZero DEF OnlinePortsAgree, PortIInv, ByPortAgrees
<1> QED  BY <1>1, PortsInvariant, TypeCorrect, TablesHoldNoGhosts, PTL

\* An agent that was told a public port keeps it.
THEOREM AnnouncedPortIsStable ==
  ASSUME ~CanDelete
  PROVE  Spec => StablePort
<1>1. ASSUME TypeOK, PortIInv, [Next]_vars, NEW d \in Devices, announced[d] # 0
      PROVE  announced'[d] = announced[d]
  <2>1. CASE announced' = announced
    BY <2>1
  <2>2. ASSUME NEW c \in Conns, RegisterPeer(c)
        PROVE  announced'[d] = announced[d]
    <3>1. dev[c] \in Devices /\ dbPort[dev[c]] = port[c]
      BY <1>1, <2>2, DevKnown DEF RegisterPeer, PortIInv, HandlerPorts, Persisted, Holding
    <3>2. announced'[d] = announced[d] \/ (d = dev[c] /\ announced'[d] = port[c])
      BY <1>1, <2>2 DEF RegisterPeer, TypeOK, PortTypeOK
    <3> QED  BY <1>1, <3>1, <3>2 DEF PortIInv, RowPorts
  <2>3. announced' = announced \/ \E c \in Conns : RegisterPeer(c)
    <3>1. ASSUME NEW c \in Conns, Authenticate(c) \/ Unregister(c) \/ Drop(c)
          PROVE  announced' = announced
      BY <3>1 DEF Authenticate, Drop, Unregister, ControlLoopEnds, UnregisterPeer,
                  RemoveMaps, BeginClose, AlreadyClosed, EndClose
    <3>2. ASSUME NEW c \in Conns, Register(c)
          PROVE  announced' = announced \/ RegisterPeer(c)
      BY <3>2 DEF Register, NoRegister, ReusePort, AllocatePort, NoPort,
                  ReadExisting, BeginCloseOld, OldAlreadyClosed, EndCloseOld, PersistKnown,
                  PersistNew, PersistFails, Bind, BindFails, RegisterOnline
    <3>3. ASSUME NEW a \in Admins, NEW e \in Devices,
                 Disable(a, e) \/ Disconnect(a, e) \/ Delete(a, e)
          PROVE  announced' = announced
      BY <3>3 DEF Disable, Disconnect, Delete, Request
    <3>4. ASSUME NEW a \in Admins, FinishRequest(a) PROVE announced' = announced
      BY <3>4 DEF FinishRequest, DisconnectDevice, BeginDisconnect, EndDisconnect,
                  ReleasePort
    <3>5. CASE Restart \/ UNCHANGED vars \/ \E e \in Devices : Invite(e) \/ Enable(e)
      BY <3>5 DEF Restart, vars, Invite, Enable
    <3> QED  BY <1>1, <3>1, <3>2, <3>3, <3>4, <3>5 DEF Next
  <2> QED  BY <2>1, <2>2, <2>3
<1>2. TypeOK /\ PortIInv /\ [Next]_vars
        => \A d \in Devices : announced[d] # 0 => announced'[d] = announced[d]
  BY <1>1
<1>3. Spec => [][\A d \in Devices : announced[d] # 0 => announced'[d] = announced[d]]_vars
  BY <1>2, PortsInvariant, TypeCorrect, PTL DEF Spec
<1> QED  BY <1>3 DEF StablePort

=============================================================================
