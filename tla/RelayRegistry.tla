--------------------------- MODULE RelayRegistry ---------------------------
(***************************************************************************)
(* The relay's registry of controlled agents: what happens between the     *)
(* acceptance of a connection and its end (AgentManager.Handle-            *)
(* IncomingConnection, REGISTER branch), the public-port table             *)
(* (PortManager), the table of online sessions, the peer table of the      *)
(* session coordinator, the rows of the agents table, and the requests of  *)
(* the web console that reach into all of them.                            *)
(*                                                                         *)
(* Every accepted connection is served by a goroutine of its own and every *)
(* console request by another.  A step below is what such a goroutine does *)
(* between two points where another one can get in: a database statement,  *)
(* a critical section, a system call.  A connection is used once, as in    *)
(* the code: an agent that reconnects is a new element of Conns.           *)
(*                                                                         *)
(* A connection that AUTH refuses changes nothing and is left out.  The    *)
(* CONNECT_REQUEST branch (controllers), secrets and tokens as data, and   *)
(* the traffic of a session are not part of this module.                   *)
(***************************************************************************)
EXTENDS Integers

CONSTANTS Devices,    \* device identifiers
          Conns,      \* connections the relay accepts, one handler each
          Admins,     \* goroutines of the web console that change devices
          FirstPort,  \* public port range of the configuration, inclusive
          LastPort,
          CanDelete,  \* whether the console deletes devices
          NoConn, NoDevice

Ports == FirstPort .. LastPort

ASSUME RegistryAssumption ==
  /\ FirstPort \in Nat \ {0} /\ LastPort \in Nat
  /\ NoConn \notin Conns /\ NoDevice \notin Devices
  /\ CanDelete \in BOOLEAN

VARIABLES
  \* one handler (and the AgentSession it builds) per connection
  pc,         \* where the handler is
  dev,        \* the authenticated device identifier
  enrolling,  \* newDevice: this registration consumes an invitation
  port,       \* the public port it was given, 0 before
  victim,     \* old of closeExistingAgent
  sock,       \* public listeners of the session and its closed flag
  alive,      \* the transport to the agent is up
  \* AgentManager and SessionCoordinator
  online,     \* agentsByDevice
  byPort,     \* agentsByPort
  peers,      \* coordinator.peers: the connection whose writer is stored
  \* PortManager
  devPort,    \* deviceToPort, 0 for no entry
  portDev,    \* portToDevice
  \* SQLite
  registered, \* devices with a row in agents
  disabled,   \* rows with enabled = 0
  dbPort,     \* public_port of the row
  invited,    \* devices with an unconsumed, unexpired invitation
  \* outside
  announced,  \* the last port a PORT_ASSIGN told the device's agent
  adm         \* the console requests in progress

handlerVars == <<pc, dev, enrolling, port, victim>>
mapVars     == <<online, byPort>>
portVars    == <<devPort, portDev>>
dbVars      == <<registered, disabled, dbPort, invited>>
vars == <<handlerVars, sock, alive, mapVars, peers, portVars, dbVars,
          announced, adm>>

PCs == {"idle", "authed", "closeExisting", "closeOld", "closingOld", "persist",
        "bind", "registerOnline", "registerPeer", "control", "unregisterPeer",
        "removeMaps", "close", "closeSelf", "done"}

\* "open": listening; "closing": closed.Swap(true) was done but the listeners
\* are not closed yet; "closed": the listeners are closed, or never were open.
SockStates == {"closed", "open", "closing"}

IdleAdmin == [pc |-> "idle", dev |-> NoDevice, delete |-> FALSE, victim |-> NoConn]
AdminStates ==
  [pc : {"idle", "disconnect", "close", "closing", "release"}, dev : Devices \cup {NoDevice},
   delete : BOOLEAN, victim : Conns \cup {NoConn}]

\* A relay that starts on a database in which some devices have a row (their
\* agents enrolled as controllers, so no port yet) and the others an invitation.
Init ==
  /\ pc = [c \in Conns |-> "idle"]
  /\ dev = [c \in Conns |-> NoDevice]
  /\ enrolling = [c \in Conns |-> FALSE]
  /\ port = [c \in Conns |-> 0]
  /\ victim = [c \in Conns |-> NoConn]
  /\ sock = [c \in Conns |-> "closed"]
  /\ alive = [c \in Conns |-> FALSE]
  /\ online = [d \in Devices |-> NoConn]
  /\ byPort = [p \in Ports |-> NoConn]
  /\ peers = [d \in Devices |-> NoConn]
  /\ devPort = [d \in Devices |-> 0]
  /\ portDev = [p \in Ports |-> NoDevice]
  /\ registered \in SUBSET Devices
  /\ disabled = {}
  /\ dbPort = [d \in Devices |-> 0]
  /\ invited = Devices \ registered
  /\ announced = [d \in Devices |-> 0]
  /\ adm = [a \in Admins |-> IdleAdmin]

-----------------------------------------------------------------------------
(* The handler of a connection.                                            *)

Goto(c, l) == pc' = [pc EXCEPT ![c] = l]

\* An early return: the deferred tr.Close() ends the connection.
Return(c) == /\ Goto(c, "done")
             /\ alive' = [alive EXCEPT ![c] = FALSE]

\* The connection is accepted and AUTH succeeds.  The row is read once, here:
\* a disabled device is refused; a device without a row, or one that shows
\* another secret, needs its invitation.
Authenticate(c) ==
  /\ pc[c] = "idle"
  /\ \E d \in Devices \ disabled, new \in BOOLEAN :
       /\ d \in (IF new THEN invited ELSE registered)
       /\ dev' = [dev EXCEPT ![c] = d]
       /\ enrolling' = [enrolling EXCEPT ![c] = new]
  /\ alive' = [alive EXCEPT ![c] = TRUE]
  /\ Goto(c, "authed")
  /\ UNCHANGED <<port, victim, sock, mapVars, peers, portVars, dbVars,
                 announced, adm>>

\* The agent never sends REGISTER: the read fails.
NoRegister(c) ==
  /\ pc[c] = "authed"
  /\ ~alive[c]
  /\ Return(c)
  /\ UNCHANGED <<dev, enrolling, port, victim, sock, mapVars, peers, portVars,
                 dbVars, announced, adm>>

FreePorts == {p \in Ports : portDev[p] = NoDevice}

\* GetOrAllocatePort: the port the device already has.
ReusePort(c) ==
  /\ pc[c] = "authed"
  /\ devPort[dev[c]] # 0
  /\ port' = [port EXCEPT ![c] = devPort[dev[c]]]
  /\ Goto(c, "closeExisting")
  /\ UNCHANGED <<dev, enrolling, victim, sock, alive, mapVars, peers, portVars,
                 dbVars, announced, adm>>

\* GetOrAllocatePort: the lowest port nobody has.
AllocatePort(c) ==
  /\ pc[c] = "authed"
  /\ devPort[dev[c]] = 0
  /\ \E p \in FreePorts :
       /\ \A q \in FreePorts : p <= q
       /\ devPort' = [devPort EXCEPT ![dev[c]] = p]
       /\ portDev' = [portDev EXCEPT ![p] = dev[c]]
       /\ port' = [port EXCEPT ![c] = p]
  /\ Goto(c, "closeExisting")
  /\ UNCHANGED <<dev, enrolling, victim, sock, alive, mapVars, peers, dbVars,
                 announced, adm>>

\* GetOrAllocatePort: ErrNoAvailablePort.
NoPort(c) ==
  /\ pc[c] = "authed"
  /\ devPort[dev[c]] = 0
  /\ FreePorts = {}
  /\ Return(c)
  /\ UNCHANGED <<dev, enrolling, port, victim, sock, mapVars, peers, portVars,
                 dbVars, announced, adm>>

\* closeExistingAgent: the read of agentsByDevice under the read lock.
ReadExisting(c) ==
  /\ pc[c] = "closeExisting"
  /\ victim' = [victim EXCEPT ![c] = online[dev[c]]]
  /\ Goto(c, IF online[dev[c]] = NoConn THEN "persist" ELSE "closeOld")
  /\ UNCHANGED <<dev, enrolling, port, sock, alive, mapVars, peers, portVars,
                 dbVars, announced, adm>>

\* closeExistingAgent: old.Close() up to closed.Swap(true), which makes it return
\* at once when the flag is set already.
BeginCloseOld(c) ==
  /\ pc[c] = "closeOld"
  /\ sock[victim[c]] = "open"
  /\ sock' = [sock EXCEPT ![victim[c]] = "closing"]
  /\ Goto(c, "closingOld")
  /\ UNCHANGED <<dev, enrolling, port, victim, alive, mapVars, peers, portVars,
                 dbVars, announced, adm>>

OldAlreadyClosed(c) ==
  /\ pc[c] = "closeOld"
  /\ sock[victim[c]] # "open"
  /\ victim' = [victim EXCEPT ![c] = NoConn]
  /\ Goto(c, "persist")
  /\ UNCHANGED <<dev, enrolling, port, sock, alive, mapVars, peers, portVars,
                 dbVars, announced, adm>>

\* The rest of AgentSession.Close: listeners, control stream, transport.
CloseSession(s) == /\ sock' = [sock EXCEPT ![s] = "closed"]
                   /\ alive' = [alive EXCEPT ![s] = FALSE]

EndCloseOld(c) ==
  /\ pc[c] = "closingOld"
  /\ CloseSession(victim[c])
  /\ victim' = [victim EXCEPT ![c] = NoConn]
  /\ Goto(c, "persist")
  /\ UNCHANGED <<dev, enrolling, port, mapVars, peers, portVars, dbVars,
                 announced, adm>>

\* Mutant of PersistKnown: the row is touched but not its port.
PersistWithoutPort(c) ==
  /\ pc[c] = "persist"
  /\ ~enrolling[c]
  /\ Goto(c, "bind")
  /\ UNCHANGED <<dev, enrolling, port, victim, sock, alive, mapVars, peers,
                 portVars, dbVars, announced, adm>>

\* UpdateAgentRegistration: rewrites the port of a row, and of no row at all
\* when there is none, without an error.
PersistKnown(c) ==
  /\ pc[c] = "persist"
  /\ ~enrolling[c]
  /\ dbPort' = [dbPort EXCEPT ![dev[c]] =
                  IF dev[c] \in registered THEN port[c] ELSE @]
  /\ Goto(c, "bind")
  /\ UNCHANGED <<dev, enrolling, port, victim, sock, alive, mapVars, peers,
                 portVars, registered, disabled, invited, announced, adm>>

\* CreateAgentWithEnrollment: one transaction consumes the invitation and
\* upserts the row, which becomes enabled and keeps a port it already had.
PersistNew(c) ==
  /\ pc[c] = "persist"
  /\ enrolling[c]
  /\ dev[c] \in invited
  /\ invited' = invited \ {dev[c]}
  /\ registered' = registered \cup {dev[c]}
  /\ disabled' = disabled \ {dev[c]}
  /\ dbPort' = [dbPort EXCEPT ![dev[c]] = IF @ = 0 THEN port[c] ELSE @]
  /\ Goto(c, "bind")
  /\ UNCHANGED <<dev, enrolling, port, victim, sock, alive, mapVars, peers,
                 portVars, announced, adm>>

\* The statement fails, or the invitation was consumed in the meantime.
PersistFails(c) ==
  /\ pc[c] = "persist"
  /\ Return(c)
  /\ UNCHANGED <<dev, enrolling, port, victim, sock, mapVars, peers, portVars,
                 dbVars, announced, adm>>

Bound(p) == \E s \in Conns : port[s] = p /\ sock[s] # "closed"

\* ListenTCP and ListenUDP: the operating system gives a port to one socket.
Bind(c) ==
  /\ pc[c] = "bind"
  /\ ~Bound(port[c])
  /\ sock' = [sock EXCEPT ![c] = "open"]
  /\ Goto(c, "registerOnline")
  /\ UNCHANGED <<dev, enrolling, port, victim, alive, mapVars, peers, portVars,
                 dbVars, announced, adm>>

\* Mutant of BindFails: ListenUDP fails and the TCP listener stays open.
BindFailsHalfway(c) ==
  /\ pc[c] = "bind"
  /\ Return(c)
  /\ sock' = [sock EXCEPT ![c] = IF Bound(port[c]) THEN @ ELSE "open"]
  /\ UNCHANGED <<dev, enrolling, port, victim, mapVars, peers, portVars, dbVars,
                 announced, adm>>

\* The port is taken, by another session or by another program.
BindFails(c) ==
  /\ pc[c] = "bind"
  /\ Return(c)
  /\ UNCHANGED <<dev, enrolling, port, victim, sock, mapVars, peers, portVars,
                 dbVars, announced, adm>>

\* registerOnlineAgent: one critical section of the manager's mutex, in which
\* the session it replaces is closed.  The replaced session's own entry of
\* agentsByPort is not touched.
RegisterOnline(c) ==
  /\ pc[c] = "registerOnline"
  /\ LET old == online[dev[c]] IN
       IF old # NoConn /\ sock[old] = "open"
         THEN CloseSession(old)
         ELSE UNCHANGED <<sock, alive>>
  /\ online' = [online EXCEPT ![dev[c]] = c]
  /\ byPort' = [byPort EXCEPT ![port[c]] = c]
  /\ Goto(c, "registerPeer")
  /\ UNCHANGED <<dev, enrolling, port, victim, peers, portVars, dbVars,
                 announced, adm>>

\* RegisterPeer, then PORT_ASSIGN, whose write error is ignored.
RegisterPeer(c) ==
  /\ pc[c] = "registerPeer"
  /\ peers' = [peers EXCEPT ![dev[c]] = c]
  /\ announced' = [announced EXCEPT ![dev[c]] = IF alive[c] THEN port[c] ELSE @]
  /\ Goto(c, "control")
  /\ UNCHANGED <<dev, enrolling, port, victim, sock, alive, mapVars, portVars,
                 dbVars, adm>>

\* Mutant of ControlLoopEnds: a session that was replaced does not clean up.
CurrentLoopEnds(c) ==
  /\ pc[c] = "control"
  /\ ~alive[c]
  /\ online[dev[c]] = c
  /\ Goto(c, "unregisterPeer")
  /\ UNCHANGED <<dev, enrolling, port, victim, sock, alive, mapVars, peers,
                 portVars, dbVars, announced, adm>>

\* runControlLoop ends when the control stream cannot be read any more.
ControlLoopEnds(c) ==
  /\ pc[c] = "control"
  /\ ~alive[c]
  /\ Goto(c, "unregisterPeer")
  /\ UNCHANGED <<dev, enrolling, port, victim, sock, alive, mapVars, peers,
                 portVars, dbVars, announced, adm>>

\* Mutant of UnregisterPeer: the peer goes if the session is still online,
\* instead of if the stored writer is the session's.
UnregisterPeerIfOnline(c) ==
  /\ pc[c] = "unregisterPeer"
  /\ peers' = [peers EXCEPT ![dev[c]] = IF online[dev[c]] = c THEN NoConn ELSE @]
  /\ Goto(c, "removeMaps")
  /\ UNCHANGED <<dev, enrolling, port, victim, sock, alive, mapVars, portVars,
                 dbVars, announced, adm>>

\* The deferred unregisterOnlineAgent, first part: coordinator.UnregisterPeer.
UnregisterPeer(c) ==
  /\ pc[c] = "unregisterPeer"
  /\ peers' = [peers EXCEPT ![dev[c]] = IF @ = c THEN NoConn ELSE @]
  /\ Goto(c, "removeMaps")
  /\ UNCHANGED <<dev, enrolling, port, victim, sock, alive, mapVars, portVars,
                 dbVars, announced, adm>>

\* Mutant of RemoveMaps: without the test that the session is the current one.
RemoveMapsOfDevice(c) ==
  /\ pc[c] = "removeMaps"
  /\ online' = [online EXCEPT ![dev[c]] = NoConn]
  /\ byPort' = [byPort EXCEPT ![port[c]] = NoConn]
  /\ Goto(c, "close")
  /\ UNCHANGED <<dev, enrolling, port, victim, sock, alive, peers, portVars,
                 dbVars, announced, adm>>

\* Second part: the tables of the manager, if the session is still the current
\* one of its device.
RemoveMaps(c) ==
  /\ pc[c] = "removeMaps"
  /\ IF online[dev[c]] = c
       THEN /\ online' = [online EXCEPT ![dev[c]] = NoConn]
            /\ byPort' = [byPort EXCEPT ![port[c]] = NoConn]
       ELSE UNCHANGED mapVars
  /\ Goto(c, "close")
  /\ UNCHANGED <<dev, enrolling, port, victim, sock, alive, peers, portVars,
                 dbVars, announced, adm>>

\* Third part: sess.Close(), by this handler or already by someone else.
BeginClose(c) ==
  /\ pc[c] = "close"
  /\ sock[c] = "open"
  /\ sock' = [sock EXCEPT ![c] = "closing"]
  /\ Goto(c, "closeSelf")
  /\ UNCHANGED <<dev, enrolling, port, victim, alive, mapVars, peers, portVars,
                 dbVars, announced, adm>>

AlreadyClosed(c) ==
  /\ pc[c] = "close"
  /\ sock[c] # "open"
  /\ Return(c)
  /\ UNCHANGED <<dev, enrolling, port, victim, sock, mapVars, peers, portVars,
                 dbVars, announced, adm>>

EndClose(c) ==
  /\ pc[c] = "closeSelf"
  /\ CloseSession(c)
  /\ Goto(c, "done")
  /\ UNCHANGED <<dev, enrolling, port, victim, mapVars, peers, portVars, dbVars,
                 announced, adm>>

\* The agent goes away, or the network between it and the relay.
Drop(c) ==
  /\ alive[c]
  /\ alive' = [alive EXCEPT ![c] = FALSE]
  /\ UNCHANGED <<handlerVars, sock, mapVars, peers, portVars, dbVars,
                 announced, adm>>

-----------------------------------------------------------------------------
(* The web console.                                                        *)

\* POST /api/invitations: a fresh token for the device.
Invite(d) ==
  /\ invited' = invited \cup {d}
  /\ UNCHANGED <<handlerVars, sock, alive, mapVars, peers, portVars, registered,
                 disabled, dbPort, announced, adm>>

\* POST /api/devices/{d}/toggle with enabled = true.
Enable(d) ==
  /\ disabled' = disabled \ {d}
  /\ UNCHANGED <<handlerVars, sock, alive, mapVars, peers, portVars, registered,
                 invited, dbPort, announced, adm>>

\* A request that ends in DisconnectDevice starts with its database statement.
Request(a, d, deleting) ==
  /\ adm[a] = IdleAdmin
  /\ adm' = [adm EXCEPT ![a] = [pc |-> "disconnect", dev |-> d,
                                delete |-> deleting, victim |-> NoConn]]
  /\ UNCHANGED <<handlerVars, sock, alive, mapVars, peers, portVars, invited,
                 announced>>

\* Mutant of Disable: the statement inserts a row that does not exist.
DisableUpserts(a, d) ==
  /\ Request(a, d, FALSE)
  /\ disabled' = disabled \cup {d}
  /\ UNCHANGED <<registered, dbPort>>

\* POST /api/devices/{d}/toggle with enabled = false: SetAgentEnabled.
Disable(a, d) ==
  /\ Request(a, d, FALSE)
  /\ disabled' = disabled \cup (registered \cap {d})
  /\ UNCHANGED <<registered, dbPort>>

\* POST /api/devices/{d}/disconnect.
Disconnect(a, d) ==
  /\ Request(a, d, FALSE)
  /\ UNCHANGED <<registered, disabled, dbPort>>

\* DELETE /api/devices/{d}: DeleteAgent.
Delete(a, d) ==
  /\ CanDelete
  /\ Request(a, d, TRUE)
  /\ registered' = registered \ {d}
  /\ disabled' = disabled \ {d}
  /\ dbPort' = [dbPort EXCEPT ![d] = 0]

AfterClose(a) ==
  IF adm[a].delete THEN [adm[a] EXCEPT !.pc = "release", !.victim = NoConn]
                   ELSE IdleAdmin

\* DisconnectDevice: the entries go under the mutex.
DisconnectDevice(a) ==
  /\ adm[a].pc = "disconnect"
  /\ LET d == adm[a].dev
         s == online[d] IN
       IF s = NoConn
         THEN /\ adm' = [adm EXCEPT ![a] = AfterClose(a)]
              /\ UNCHANGED mapVars
         ELSE /\ online' = [online EXCEPT ![d] = NoConn]
              /\ byPort' = [byPort EXCEPT ![port[s]] = NoConn]
              /\ adm' = [adm EXCEPT ![a].pc = "close", ![a].victim = s]
  /\ UNCHANGED <<handlerVars, sock, alive, peers, portVars, dbVars, announced>>

\* Then, without the mutex, sess.Close(): up to closed.Swap(true), and the rest.
BeginDisconnect(a) ==
  /\ adm[a].pc = "close"
  /\ IF sock[adm[a].victim] = "open"
       THEN /\ sock' = [sock EXCEPT ![adm[a].victim] = "closing"]
            /\ adm' = [adm EXCEPT ![a].pc = "closing"]
       ELSE /\ adm' = [adm EXCEPT ![a] = AfterClose(a)]
            /\ UNCHANGED sock
  /\ UNCHANGED <<handlerVars, alive, mapVars, peers, portVars, dbVars, announced>>

EndDisconnect(a) ==
  /\ adm[a].pc = "closing"
  /\ CloseSession(adm[a].victim)
  /\ adm' = [adm EXCEPT ![a] = AfterClose(a)]
  /\ UNCHANGED <<handlerVars, mapVars, peers, portVars, dbVars, announced>>

\* ReleaseDevicePort, the last step of a deletion.
ReleasePort(a) ==
  /\ adm[a].pc = "release"
  /\ LET d == adm[a].dev IN
       /\ devPort' = [devPort EXCEPT ![d] = 0]
       /\ portDev' = [p \in Ports |-> IF p = devPort[d] THEN NoDevice ELSE portDev[p]]
  /\ adm' = [adm EXCEPT ![a] = IdleAdmin]
  /\ UNCHANGED <<handlerVars, sock, alive, mapVars, peers, dbVars, announced>>

-----------------------------------------------------------------------------
(* The relay process ends, at any moment, and is started again.            *)

PortClaimants(p) == {d \in registered : dbPort[d] = p}

\* Mutants of PreloadPorts: no preload; one of the two maps is not filled.
PreloadNothing ==
  /\ devPort' = [d \in Devices |-> 0]
  /\ portDev' = [p \in Ports |-> NoDevice]

PreloadByDeviceOnly ==
  /\ devPort' = [d \in Devices |-> IF d \in registered THEN dbPort[d] ELSE 0]
  /\ portDev' = [p \in Ports |-> NoDevice]

PreloadByPortOnly ==
  /\ devPort' = [d \in Devices |-> 0]
  /\ portDev' = [p \in Ports |-> IF PortClaimants(p) = {} THEN NoDevice
                                  ELSE CHOOSE d \in PortClaimants(p) : TRUE]

\* NewPortManager reads the rows back.  Should two rows have the same port,
\* portToDevice keeps the one that was read last.
PreloadPorts ==
  /\ devPort' = [d \in Devices |->
                   IF d \in registered /\ dbPort[d] \in Ports THEN dbPort[d] ELSE 0]
  /\ portDev' \in [Ports -> Devices \cup {NoDevice}]
  /\ \A p \in Ports : IF PortClaimants(p) = {} THEN portDev'[p] = NoDevice
                                               ELSE portDev'[p] \in PortClaimants(p)

Restart ==
  /\ pc' = [c \in Conns |-> IF pc[c] = "idle" THEN "idle" ELSE "done"]
  /\ victim' = [c \in Conns |-> NoConn]
  /\ sock' = [c \in Conns |-> "closed"]
  /\ alive' = [c \in Conns |-> FALSE]
  /\ online' = [d \in Devices |-> NoConn]
  /\ byPort' = [p \in Ports |-> NoConn]
  /\ peers' = [d \in Devices |-> NoConn]
  /\ adm' = [a \in Admins |-> IdleAdmin]
  /\ PreloadPorts
  /\ UNCHANGED <<dev, enrolling, port, dbVars, announced>>

-----------------------------------------------------------------------------
Register(c) ==
  \/ NoRegister(c) \/ ReusePort(c) \/ AllocatePort(c) \/ NoPort(c)
  \/ ReadExisting(c) \/ BeginCloseOld(c) \/ OldAlreadyClosed(c) \/ EndCloseOld(c)
  \/ PersistKnown(c) \/ PersistNew(c) \/ PersistFails(c)
  \/ Bind(c) \/ BindFails(c)
  \/ RegisterOnline(c) \/ RegisterPeer(c)

Unregister(c) ==
  \/ ControlLoopEnds(c) \/ UnregisterPeer(c) \/ RemoveMaps(c)
  \/ BeginClose(c) \/ AlreadyClosed(c) \/ EndClose(c)

FinishRequest(a) ==
  DisconnectDevice(a) \/ BeginDisconnect(a) \/ EndDisconnect(a) \/ ReleasePort(a)

Next ==
  \/ \E c \in Conns : Authenticate(c) \/ Register(c) \/ Unregister(c) \/ Drop(c)
  \/ \E d \in Devices : Invite(d) \/ Enable(d)
  \/ \E a \in Admins, d \in Devices : Disable(a, d) \/ Disconnect(a, d) \/ Delete(a, d)
  \/ \E a \in Admins : FinishRequest(a)
  \/ Restart

Spec == Init /\ [][Next]_vars

\* Goroutines that can run do run: a handler goes on until it ends, a request
\* until it is answered.  Nothing else is promised: no agent has to connect and
\* no connection has to break.
FairSpec ==
  /\ Spec
  /\ \A c \in Conns : WF_vars(Register(c) \/ Unregister(c))
  /\ \A a \in Admins : WF_vars(FinishRequest(a))

-----------------------------------------------------------------------------
(* What must hold.                                                         *)

HandlerTypeOK ==
  /\ pc \in [Conns -> PCs]
  /\ dev \in [Conns -> Devices \cup {NoDevice}]
  /\ enrolling \in [Conns -> BOOLEAN]
  /\ port \in [Conns -> Ports \cup {0}]
  /\ victim \in [Conns -> Conns \cup {NoConn}]
  /\ \A c \in Conns : pc[c] # "idle" => dev[c] \in Devices
  /\ \A c \in Conns : pc[c] \in {"closeOld", "closingOld"} => victim[c] \in Conns

SessionTypeOK ==
  /\ sock \in [Conns -> SockStates]
  /\ alive \in [Conns -> BOOLEAN]
  /\ online \in [Devices -> Conns \cup {NoConn}]
  /\ byPort \in [Ports -> Conns \cup {NoConn}]
  /\ peers \in [Devices -> Conns \cup {NoConn}]

PortTypeOK ==
  /\ devPort \in [Devices -> Ports \cup {0}]
  /\ portDev \in [Ports -> Devices \cup {NoDevice}]
  /\ announced \in [Devices -> Ports \cup {0}]

RowTypeOK ==
  /\ registered \in SUBSET Devices
  /\ disabled \in SUBSET registered
  /\ invited \in SUBSET Devices
  /\ dbPort \in [Devices -> Ports \cup {0}]

ConsoleTypeOK ==
  /\ adm \in [Admins -> AdminStates]
  /\ \A a \in Admins : adm[a].pc # "idle" => adm[a].dev \in Devices
  /\ \A a \in Admins : adm[a].pc \in {"close", "closing"} => adm[a].victim \in Conns

\* Every variable stays in its range, only devices with a row are disabled, and a
\* handler or a request that works on a device or closes a session has one.
TypeOK == HandlerTypeOK /\ SessionTypeOK /\ PortTypeOK /\ RowTypeOK /\ ConsoleTypeOK

\* A handler that entered its session in the online table and has not yet left
\* it; a handler that has a peer entry; a handler that must still close.
Listed(c)   == pc[c] \in {"registerPeer", "control", "unregisterPeer", "removeMaps"}
Peered(c)   == pc[c] \in {"control", "unregisterPeer"}
WillClose(c) == Listed(c) \/ pc[c] \in {"registerOnline", "close"}

\* No ghosts: agentsByDevice and coordinator.peers never hold a session whose
\* handler has ended, or one of another device, however replacements, console
\* requests and lost connections interleave (unregisterOnlineAgent removes an
\* entry only if it is the session's own, so somebody else's removal or
\* overwriting must not leave one behind).
NoGhosts ==
  \A d \in Devices :
    /\ online[d] # NoConn => dev[online[d]] = d /\ Listed(online[d])
    /\ peers[d] # NoConn => dev[peers[d]] = d /\ Peered(peers[d])

\* c is being closed by its own handler, by a replacement or by the console.
Closer(c) ==
  \/ pc[c] = "closeSelf"
  \/ \E r \in Conns : pc[r] = "closingOld" /\ victim[r] = c
  \/ \E a \in Admins : adm[a].pc = "closing" /\ adm[a].victim = c

\* Public listeners are never leaked: closed.Swap lets all but one caller of
\* AgentSession.Close return at once, so as long as listeners are open there is
\* a goroutine that still has to close them.
ListenersHaveAnOwner ==
  \A c \in Conns : /\ sock[c] = "open" => WillClose(c)
                   /\ sock[c] = "closing" => Closer(c)

\* A session leaves the online table only because its own handler unregisters
\* it, because it is closed, or because a console request took it out to close
\* it: the late clean-up of an old connection never takes a newer session of the
\* device out (current == sess).
OnlyOwnEntryRemoved ==
  [][\A d \in Devices :
       online[d] # NoConn /\ online'[d] # online[d]
         => \/ pc[online[d]] = "removeMaps"
            \/ sock'[online[d]] # "open"
            \/ \E a \in Admins : adm'[a].victim = online[d]]_vars

\* deviceToPort and portToDevice describe the same assignment: a port never
\* belongs to two devices and no entry dangles.  (While no device is deleted.)
PortMapsInverse ==
  /\ \A d \in Devices : devPort[d] # 0 => portDev[devPort[d]] = d
  /\ \A p \in Ports : portDev[p] # NoDevice => devPort[portDev[p]] = p

\* Two rows of the agents table never have the same public port: the table is
\* what PortManager is rebuilt from after a restart, and its column is not
\* UNIQUE.
PersistedPortsDistinct ==
  \A d, e \in registered : d # e /\ dbPort[d] = dbPort[e] => dbPort[d] = 0

\* The five places a port is written agree on every online session: the port it
\* listens on is the device's in PortManager and in SQLite, and the two tables
\* of the manager list the same session.  (While no device is deleted.)
OnlinePortsAgree ==
  /\ \A d \in Devices : online[d] # NoConn =>
       LET p == port[online[d]] IN
         /\ p # 0 /\ devPort[d] = p /\ dbPort[d] = p
         /\ byPort[p] = online[d]
  /\ \A p \in Ports : byPort[p] # NoConn =>
       port[byPort[p]] = p /\ online[dev[byPort[p]]] = byPort[p]

\* The public port a PORT_ASSIGN told an agent stays its device's port: through
\* reconnections, replacements, re-enrollments and restarts of the relay at any
\* point of a registration.  (While no device is deleted.)
StablePort ==
  [][\A d \in Devices : announced[d] # 0 => announced'[d] = announced[d]]_vars

\* A broken connection is always cleaned up after: the handler reaches its end,
\* its listeners are closed and no table keeps the session.
LossIsCleanedUp ==
  \A c \in Conns :
    (sock[c] = "open" /\ ~alive[c])
      ~> /\ sock[c] = "closed" /\ pc[c] = "done"
         /\ \A d \in Devices : online[d] # c /\ peers[d] # c

\* Disabling a device puts it offline for good: a disabled row and a listening
\* session of its device exist together only while the console request that
\* disabled it is still on its way.
DisabledStaysOffline ==
  \A d \in disabled :
    (\A a \in Admins : adm[a] = IdleAdmin)
      => ~(online[d] # NoConn /\ pc[online[d]] = "control" /\ sock[online[d]] = "open")

\* The clean-up of an old connection leaves the peer entry of the newer one
\* alone: an online, established session has a peer entry in the coordinator.
OnlineHasPeer ==
  \A d \in Devices :
    online[d] # NoConn /\ pc[online[d]] = "control" /\ alive[online[d]]
      => peers[d] # NoConn

=============================================================================
