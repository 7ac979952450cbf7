# A formal model of RDPulse

RDPulse carries Windows Remote Desktop through a self-hosted relay or, when the
network allows it, directly between two machines. This directory holds TLA+
modules translated from its Go source, TLC configurations that check them on
small instances, and TLAPS proofs, for every value of the constants, of all the
safety properties those configurations check.

Paths below are relative to `src/`; `internal/` is left out where it is clear.

## 1. Inventory

Three programs run: the **relay** (`cmd/relay`), the **agent** on the controlled
machine, and the same agent binary as **controller** on the machine of the user
(`agent/controller.go`, `controller/proxy.go`).

| Component | State it keeps | Operations | What is hard |
| --- | --- | --- | --- |
| Agent registry (`relay/agent_manager.go`, `relay/agent.go`) | `agentsByDevice`, `agentsByPort`, one `AgentSession` per connection with its two public listeners | accept, AUTH, REGISTER, replace, control loop, clean-up, disconnect by the console | one goroutine per connection, old and new connection of a device side by side, the console at any point |
| Public ports (`relay/port_manager.go`) | `deviceToPort`, `portToDevice`, the `public_port` column | preload, allocate, release | five copies of one fact, restart between two of them |
| Device database (`storage/sqlite.go`) | rows of agents, invitations | create with enrollment, update, toggle, delete | invitations are consumed with a registration, or not at all |
| Session coordinator (`signaling/server.go`) | peers, sessions | register and unregister peer, connect request, candidate exchange, close | every message is written after the lock is released |
| Controller program (`agent/controller.go`, `path/manager.go`) | selected TCP and UDP path, punch socket | race, upgrade, fallback, send, receive, close | atomics next to a lock, wake-ups, three goroutines that select a path |
| Agent program (`agent/client.go`) | registry of P2P sessions, seven loops per connection | register, notify, revoke, punch, serve, reconnect | any loop ends the connection |
| UDP sessions (`udp/session.go`) | two maps, counts per address | create, look up, sweep, remove | limits and sweep against traffic |
| UDP packets (`udp/reassembly.go`, `udp/fragment.go`, `udp/replay.go`) | partial packets, replay window | fragment, feed, clean, mark | loss, repetition, reordering, wrap-around |
| Hole punching (`punch`) | dispatcher table, punch results | register, dispatch, close, punch, authenticate TCP | channels closed by one goroutine and used by others |
| Stream multiplexer (`transport/tlsmux`) | streams of one TLS connection | open, accept, read, write, close | one reader for all streams |
| Connection guard, access lists (`ratelimit`, `acl`) | counters per address, rules | acquire, release, sweep, match | accounting |
| Web console, watcher (`web/server.go`, `cmd/relay/main.go`, `config/config.go`) | `relay.yaml`, the configuration in memory, the invitations' table | toggle, disconnect, delete, invite, edit policy, settings and file, reload | acts on all of the above from other goroutines; file, memory and database are written one after the other |

How they interact: the handler of an agent connection writes the registry, the
port table, the database and the coordinator in that order, each under its own
lock; the console calls into all four; a controller's handler looks up the
registry and then the coordinator, and from there on owns a session, a route in
the agent's `AgentSession` and two forwarding loops; the coordinator writes to
the control streams of both ends from the goroutine that caused the message.
`PROJECT.json` lists every component, modelled or not, and under `hazards` the
places where this is hard to test.

## 2. Modules

| Module | Models | Runs |
| --- | --- | --- |
| `RelayRegistry` | agent connections, both online tables, public ports, rows, console, restart | `registry`, `registry_ports`, `registry_disable_race`, `registry_peer_race` |
| `RelayRegistryProofs` | theorems about `RelayRegistry` | (TLAPS) |
| `Signaling` | session table, controllers' handlers, the agent's registry of credentials, both programs' control loops | `signaling`, `signaling_reconnect`, `signaling_port_assign` |
| `SignalingProofs` | theorems about `Signaling` | (TLAPS) |
| `PathManager` | the controller's choice of path, `ReceiveUDP`, `SendUDP`, the race | `path`, `path_upgrade` |
| `PathManagerProofs` | theorems about `PathManager` | (TLAPS) |
| `PacketChannel` | abstract: whole packets, each at most once | (refined by `UdpChannel`) |
| `ReplayWindow` | `ReplayWindow.Accept` on wrapping identifiers | (used by `UdpChannel`) |
| `UdpChannel` | fragmenter, direct path and relay, window, reassembler | `udp_config` |
| `UdpChannelProofs` | `UdpChannel` implements `PacketChannel`; theorems about window and reassembler | (TLAPS) |
| `UdpSessions` | the session tables of relay and agent, sweeps, local sockets | `udp_config` |
| `UdpSessionsProofs` | theorems about `UdpSessions` | (TLAPS) |
| `TlsMux` | streams over one TLS connection | `parts`, `tlsmux_eof` |
| `TlsMuxProofs` | theorem about `TlsMux` | (TLAPS) |
| `AgentP2P` | P2P sessions, dispatcher, punch, direct TCP, guard, end of a connection | `parts` |
| `AgentP2PProofs` | theorems about `AgentP2P` | (TLAPS) |
| `RelayConfig` | relay.yaml, memory and invitations under console, watcher, registrations, restart | `udp_config` |
| `RelayConfigProofs` | theorems about `RelayConfig` | (TLAPS) |
| `MCUdpConfig`, `MCParts` | extend modules that share no state; `part` says which one runs and with how much of each | `udp_config`, `parts` |
| `MCRelayRegistry`, `MCSignaling` | symmetry sets for TLC | |

Operators named as mutants in a comment (`PersistWithoutPort`, `CloseSessionQuietly`,
...) are no part of a specification. Each is a plausible error in the definition
that follows it; with that definition replaced by it, TLC finds the property it is
listed with in `PROJECT.json` violated. They show that the properties can fail.

### RelayRegistry

A connection is an element of `Conns` and is used once. `pc[c]` is where its
handler is in `HandleIncomingConnection`:

    idle -Authenticate-> authed -ReusePort/AllocatePort-> closeExisting
    -ReadExisting-> [closeOld -BeginCloseOld-> closingOld -EndCloseOld->] persist
    -PersistKnown/PersistNew-> bind -Bind-> registerOnline -RegisterOnline->
    registerPeer -RegisterPeer-> control -ControlLoopEnds-> unregisterPeer
    -UnregisterPeer-> removeMaps -RemoveMaps-> close -BeginClose-> closeSelf
    -EndClose-> done

with the early returns (`NoRegister`, `NoPort`, `PersistFails`, `BindFails`) in
between. Two steps are separate when another goroutine can run between them in the
code: a database statement, a critical section, the `Swap` and the rest of
`AgentSession.Close`. `sock[c]` is the state of the session's two listeners
("closing" is after the `Swap`, before the sockets are closed) and `alive[c]` the
transport. `online` and `byPort` are the manager's maps, `peers` the coordinator's,
`devPort` and `portDev` those of `PortManager`, and `registered`, `disabled`,
`dbPort`, `invited` what SQLite holds. `adm` are console requests: a toggle or
delete is a database statement, then `DisconnectDevice` (look up, close), then for
a delete the release of the port. `Restart` ends all handlers and starts again
from the rows. `announced` is a history variable: the port the device's agent was
last told.

- `registry`: two devices, two connections, one console goroutine, one port,
  symmetric devices and connections; deletes allowed. About 1.7 million states.
  Two connections are enough for everything the code distinguishes about a pair
  (old and new of one device, or two devices); one port makes exhaustion and
  binding conflicts happen. `NoGhosts`: no table refers to a session whose
  handler has ended. `ListenersHaveAnOwner`: open listeners always have a
  goroutine that will close them. `OnlyOwnEntryRemoved`: an entry leaves
  `agentsByDevice` by its own handler or by a request that is closing it.
- `registry_ports`: two devices, two connections, two ports, restarts, no delete.
  The five copies of a port agree wherever they may be compared
  (`PortMapsInverse`, `PersistedPortsDistinct`, `OnlinePortsAgree`), an announced
  port is kept (`StablePort`; README.md:80, 384) and a broken connection is always
  cleaned up (`LossIsCleanedUp`, under fairness).
- `registry_disable_race`, `registry_peer_race`: see section 5.

With `CanDelete = TRUE` the port properties do not hold: a delete can release a
port a registration in progress has already been given. The code promises nothing
there, so the properties are stated for a relay that deletes no device.

### Signaling

A controller connection has at most one session, so the connection stands for the
session identifier. `pc[c]` follows the CONNECT_REQUEST branch and
`HandleConnectRequest`; `tpc[t]` the handler of one of the agent's successive
connections. Each critical section of the coordinator is a step, each write on a
control stream another one. `toTarget`, `toCtl`, `fromTarget` are the streams:
ordered and reliable while the connection lasts, lost with it. The relay's view of
a connection (`ctlAlive`, `tAlive`) and the program at the other end (`client`,
`agent`) change separately, so that half-open connections occur. `registry[t]` is
the agent's `p2pSessionRegistry`: the credentials it accepts. `others` stands for
the sessions of other agents in the same table and makes the limit bite.

A control loop ends on any read error, and a program closes its control stream
before its transport (`client.go:111, 119`), so `ReadFails` and `ControllerGone` do
not need a dead transport. The relay closes an agent's transport last
(`CloseAgent`, `agent_manager.go:672`, after `UnregisterPeer` and `Offline`): until
then a handler that has copied the writer may insert its session, notify and answer,
with success.

- `signaling`: two controllers, one agent connection, revocable access, one
  candidate refresh by any program; 9 million states. `NoStaleCredential`:
  whatever takes a session out of the table, its agent has been or will be told to
  revoke it (the property looks through the messages in flight).
  `RefreshFindsItsSession` and `NothingOutlivesItsHandler` as their comments say.
- `signaling_reconnect`: one controller and an agent that reconnects once, which
  gives it stale look-ups, replaced sessions and half-open connections; no
  candidate refreshes. Liveness: a request ends (`ControllerIsAnswered`), a
  controller whose session was in the table while the agent's connection was served
  learns that it is over (`ControllerLearns`; for a session that is inserted later
  see section 5), and one that is gone leaves no credential behind
  (`GoneMeansRevoked`). `CredentialIsKnown`: a controller never has a token its agent
  was not told of. 456 thousand states.
- `signaling_port_assign`: see section 5.

### PathManager

`tcpPath` and `udpPath` are the two atomics, `punch` is `directUDPPunch # nil`,
`sock` the punch socket, `mu` the writer of `Manager.mu`, `waitable` and `woken`
the `pathChanged` channel. `SetDirectTCP` stores without the lock, as in the code,
and `SetQUICRelay` loads and stores `tcpPath` in two steps. `receiver` and `sender`
are the two goroutines of `serveUDP`. `datagrams`, chosen at the start, says whether
the relay transport is QUIC. There are no bounds: the state space is finite.

- `path`: 116 thousand states. `TypeOK` includes who holds the lock (`LockHeld`): no
  return of a critical section keeps it. `SocketHasAnOwner`, `PathMatchesPunch` and
  `DirectUDPIsKept` are about the lock and the socket, `PathsAreDecided`,
  `NoLostWakeup` and `SenderReturns` about progress.
- `path_upgrade`: see section 5.

### PacketChannel, ReplayWindow, UdpChannel

`PacketChannel` is what the UDP path promises: a packet that was sent is handed on
at most once, and nothing else is. `UdpChannel` is how: `SendUDP` takes an
identifier from a counter that wraps and cuts a packet into fragments (again, under
a new identifier, when the direct path fails half-way and the relay takes over);
the direct path loses, repeats and reorders, the relay's datagrams are lost and
reordered; the receive loops look into the replay window, feed the `Reassembler`,
and mark the packet when it is whole; the cleaner drops partial packets at any
time. A fragment knows what it carries, so that a packet put together wrongly would
be seen. `ReplayWindow` is the window as a pure function.

- `udp_config`, part "channel": identifiers modulo 6 from every start, so the wrap happens;
  a window of 2, so packets fall out of it; three identifiers (half of the space,
  which is what serial numbers can tell apart, see `ChannelAssumption`), two
  fragments, two pending packets. `ImplementsPacketChannel` is the refinement,
  `WindowRemembers` says what the window knows before, at and after the wrap,
  `PendingIsUnfinished` that the reassembler keeps nothing that is done and counts
  what it keeps.

### UdpSessions

`byID`, `byKey`, `perIP` are the relay's `SessionManager`, `table` the agent's, with
the local socket of each session. A sweep reads in one step (`RelaySweep`,
`AgentSweep`) and removes in later ones; a session is taken out of the table in one
step and its socket closed in another (`closing`). `loop` is where
`receiveDatagramsLoop` is between look-up, dial, `AddSessionWithID` and write.

- `udp_config`, part "sessions": one address with two ports, two identifiers, two
  sockets, both limits at two. `CountsAreTrue`: the relay's limits are checked against
  true counts (they are reached here; that none is exceeded with more clients is the
  theorem's). `SocketsAreOwned`: no local socket is forgotten or closed under a session.
  `StopReleases`: an agent that stops closes them all and ends every reader.

### TlsMux

Both ends of a connection: `table` is `session.streams`, `token` the one write token
and `jobs` the callers of `writeFrame` that wait for it, `pipe` what the connection
buffers, `incoming` the queues of the streams, `reader` where a stream's `Read` is
between its first look and its select. `poisoned` is a TLS connection on which a
write deadline has passed half-way. Users open, accept, write, read and close as the
callers in `agent`, `relay` and `tcp/proxy.go` do. Two pairs of steps are separate
because a goroutine of the other kind can run in between: `Close` marks a stream as
closed and `RemoveStream` takes it out of the table (`tlsmux.go:431-432`);
`FindStream` looks a frame's stream up and `ReceiveData` or `DropData` ends the select
(226-238).

- `parts`, "streams": two streams that compete for token and reader; "stream": three
  frames on one stream with queues of one, so order and gaps would show; "limit": as
  many streams as fit, one more than the limit. In "streams" the server ends the
  session only after the client (`ClientEndsFirst`); the other parts leave it free.
  `StreamIsFaithful`: no mixing, no reordering, no repetition, and no loss until the
  reading end closes the stream. `WritersReturn`: nobody waits for ever to write,
  although one reader serves all streams and both directions may be full, as long
  as accepted streams are read. `SessionEnds`: the end at one end is the end at both
  and of everybody who waits.
- `tlsmux_eof`: see section 5.

### AgentP2P

The agent between `connectAndServe`'s deferred calls (`stage`), the control message
reader (`Notify`, `Update`, `Remove`), the handler of each CONNECT_NOTIFY
(`handler`, `receiver`), the dispatcher (`dispatch`, `packets`) and direct TCP
(`conn`, `active`). A closed channel that is closed again or sent to sets
`panicked`, as it would end the program. The rate limit of the guard may refuse at
any time; the sweep forgets addresses without connections.

- `parts`, "punch": two notifications under two identifiers, so they replace each
  other or live side by side; "direct": one notification and two connections of one
  address. `NeverPanics`, `GuardCountsConnections` (the guard), `RevokedSessionsEnd` (a revoked
  session lets go of the dispatcher and its goroutines wherever it was) and
  `EverythingEnds` (nothing outlives `connectAndServe`).

### RelayConfig

`file` is relay.yaml, `invs` and `policy` the configuration in memory, `db` the
invitations' table. A request of the console is a database statement, a critical
section of `cfgMu`, and the read and the write of a Sync function, each a step;
`watcher` is where `startConfigWatcher` is between the time it remembers, the load,
the inserts and the assignments. At a start the relay loads the file first and the
watcher looks at its time later (`WatcherStart`; `main.go:36, 182`); in between the
console works, registrations are not accepted yet, and nothing notices that the file changes.
A registration validates an invitation and consumes it in two steps. `seen` says that
no later change of the file waits for the watcher: every change is taken to give the
file a later time, which a tick compares with `ModTime().After`. `behind`, `edited`,
`asked`, `admitted` are history.

- `udp_config`, "console": two requests or edits of any kind and the watcher; "enroll":
  one request, two registrations, two tokens and a restart. `FileRules`: when
  everything is over, the relay works with what the file says, unless the file could
  not be read or changed before the watcher's first look. `OncePerToken`: a
  token admits its device once, through restarts and reloads, unless it was deleted
  or replaced meanwhile.

`parts` and `udp_config` check several modules in one run because the modules share no
state: `part` is chosen at the start and never changes. Both MC modules extend
the others, so that what they check is what is proved about them; where a part is to
have fewer of something they run an instance with the smaller constant.

## 3. Fairness

Safety properties assume none. `RelayRegistry!FairSpec` lets every handler and
every console request run on. `Signaling!FairSpec` does the same for the handlers
and for the readers at both ends, and assumes that each side notices in the end
that the other is gone, which the idle timeout and keepalive of both transports
provide; it does not assume that anybody connects, refreshes, revokes or
disconnects. `PathManager!FairSpec` lets the race, its timer, the receiver and the
sender run when they can; nobody has to send a packet or a relay datagram. Weak
fairness suffices for the lock: it is held during one short part of two calls that
happen once. `UdpSessions!Spec` lets whoever took a socket out of the table close
it, its reader fail, and the datagram loop finish the datagram it has.
`TlsMux!MuxSpec` and `AgentP2P!Spec` assume only that some goroutine that can go on
does: their bounds make every run finite, so fairness to each is not needed.
Deadlines, idle limits, punches and peers owe nothing; `TlsMux` assumes that accepted
streams are read and closed after their last `Read`, as the proxies do.
`RelayConfig` has no fairness and no liveness.

## 4. Proofs

Every invariant and every action property of the passing runs, and the refinement of
`PacketChannel`, is a theorem for every value of the constants; TLC shows them on
the instances of section 2. They are of the form `Spec => []P`, `Spec =>
[][A]_v` or, for the refinement, `Spec => AbstractSpec`. Where a module's assumption on its constants is needed it is either an
`ASSUME` of the module or a named hypothesis of the theorem (`P2PAssumption`,
`ChannelAssumption`, ...), which the runs evaluate on their instances. In each
case the property itself is not inductive; what follows says what is missing.

`RelayRegistryProofs` proves, for any sets of devices, connections and console
goroutines and any port range:

- `TypeCorrect`, `TablesHoldNoGhosts`, `ListenersAreNeverLeaked`,
  `NobodyElseRemovesASession`;
- if no device is deleted (`~CanDelete`): `PortMapsAreInverse`,
  `PersistedPortsAreDistinct`, `OnlinePortsAlwaysAgree`, `AnnouncedPortIsStable`.

The only assumption on constants is `RegistryAssumption` (ports are positive
naturals, "none" is no connection and no device). `NoGhosts` and
`ListenersHaveAnOwner` are inductive together with `TypeOK`. The port properties
are not: between `GetOrAllocatePort` and the row that persists the port nothing
but the handler's own variable connects the two, and after a restart only the rows
remain. `PortIInv` therefore adds `HandlerPorts` (a handler's port is its device's
in `PortManager`), `RowPorts` (a row's port is its device's in `PortManager`) and
`ByPortAgrees` to `PortMapsInverse`. The proof has one step per action; most
actions touch no port and are dispatched by the frame lemma `Quiet`. `Restart` is
the interesting case: the preload rebuilds both maps from the rows, which are
distinct because the maps were inverse before.

`SignalingProofs` proves `TypeCorrect`, `CredentialsAreRevoked`
(`NoStaleCredential`), `CredentialsAreKnown`, `RefreshesAreNotDropped` and
`HandlersCleanUp`, for any controllers, connections of the agent and limits. What an
agent will hold depends on what is still in its stream, so the invariant has layers:
the types; the phases (`PhaseInv`: who has a session, a route or a peer entry, given
where the handlers are); and the streams (`StreamInv`). The core of the last is that
all messages about a session are written by one handler, in the order of its steps,
to one connection (`MessagesAreOwn`, `RegistryIsOwn`), so the last CONNECT_NOTIFY or
SESSION_CLOSE in the stream decides what the agent will hold (`Holds`);
`WillBeRevoked` and `WillBeKnown` are the two properties said of that.
`LostSessionIsDead` is why a handler whose session went with `UnregisterPeer` needs
no SESSION_CLOSE: the agent at the other end, or its connection, is gone, although
the relay may still write to it.

`PathManagerProofs` proves `TypeCorrect`, `SocketOwned`, `PathAndPunchAgree` and
`DirectUDPKept`. `PathManager` has no constants and TLC checks all of it; the proofs
say why it holds. `SocketHasAnOwner` and `PathMatchesPunch` are not inductive: which
of `SetDirectUDP` and `Close` closes the socket depends on where both are. `Inv`
adds to `TypeOK`, which knows who holds the lock, that the socket is open and unselected while
the punch decides (`SocketIsFresh`), and that `closed` is the first step of `Close`
(`ClosedByCloser`); with these, path and punch result agree in every state, not
only for those who hold the lock (`PunchIsDirect`).

`UdpChannelProofs` proves `ChannelKeepsThePromise` (`UdpChannel` implements
`PacketChannel`: initial states to initial states, every step to a step or a
stutter), `WindowIsExact` and `ReassemblyIsUnfinished`, for any width of the
identifiers, window, number of fragments and limits, and, as the model has it, at
most half of the identifiers in one run (`ChannelAssumption`; beyond that a fragment
that was under way all the time could be taken for a new one). Under this bound comparing
identifiers as serial numbers is comparing the numbers they stand for
(`DeltaIsDistance`, from the arithmetic of `ModInRange` and `IdIs`), so the window
is exactly the last completed numbers (`WindowOK`). The rest is about what is left
of a number, under way or stored (`Around`): it is all of one packet, nothing is
added to it once the number has been sent, and of the two numbers a packet may have
after a fallback the first lacks a fragment for ever (`OneAttempt`). A packet that
was handed on cannot be completed again but for a number the window holds
(`HandedOnOnce`).

`UdpSessionsProofs` proves `LocalSocketsAreOwned` and `SessionCountsAreTrue` for any
numbers of sessions, sockets and limits. `SocketsAreOwned` is not inductive: between
the look-up of an identifier and `AddSessionWithID` the datagram loop works without
the lock. `IdIsFree` (only the loop enters sessions, so the identifier stays free)
and `DialledIsOwn` (the dialled socket is nobody else's) close that gap;
`ClosingWasOpen` keeps a fresh socket apart from those being closed. `CountsAreTrue`
is inductive once the tables are typed; its proof is about cardinalities that change
by one with every session that comes or goes.

`TlsMuxProofs` proves `StreamsAreFaithful` for any streams, limits, queues and
pipes. A stream's data can be dropped at the receiver, when it is not in its table,
so the proof has to know that nobody whose data still matters is missing there:
whatever exists of a stream the client has opened (`OpenedByClient`), its open frame
comes once and before its data (`OpenComesFirst`), so an end that has closed a stream
never expects it again. As long as an end expects a stream, the pipe holds the data
it has not received, all of it and in order (`DataIsInOrder`); the first data frame
is then the next number, and a frame whose stream `readLoop` has found is for a stream
that was in the table (`FoundIsFirst`). Once the end has closed the stream a frame may
be dropped and a later one queued: what is left in the pipe is still later than all
that was received (`Increasing`, `ReadIsInOrder`).

`AgentP2PProofs` proves `AgentNeverPanics` and `GuardIsExact` for any number of
sessions, direct connections and addresses. Five goroutines close channels, each what
it takes out of a map under that map's lock. The inductive invariant is therefore
that the registry (`RegistryIsOpen`) and the dispatcher (`DispatcherIsOpen`) hold
open channels only, and each under its session's own identifier, so that taking it
out under one leaves none behind under another; `Untouched` says what a session that
has not started yet has. `GuardIsExact` counts: an address's entry is the number of
its connections between `Acquire` and their release (`Counted`), and the sweep drops
entries of zero only.

`RelayConfigProofs` proves `FileIsObeyed` (`FileRules`) and `TokenAdmitsOnce`
(`OncePerToken`) for any requests, edits, reloads, restarts and registrations.
`FileRules` speaks of rest only, and of a file that did not change between the load
of a start and the watcher's first look. In between, what the relay works with may differ
from the file the watcher loaded last only while some request has still to write the
file: `ListIsLoaded`, `TableIsLoaded` and `PolicyIsLoaded` say for which request, in
which of its steps, and how far the watcher must be; `TakenOverIsEdited` accounts for
the policy that is taken over after the write. For `OncePerToken` the invariant
follows the tokens: wherever one is kept (file, memory, copies, what a Sync has read)
somebody has asked for it (`TokensAreKnown`), so with one token every write of the row
is of the same token and keeps its mark (`MarkStays`).

Only model-checked: liveness under fairness (`LossIsCleanedUp`, `ControllerLearns`,
`ControllerIsAnswered`, `GoneMeansRevoked`, `PathsAreDecided`, `NoLostWakeup`,
`SenderReturns`, `StopReleases`, `WritersReturn`, `SessionEnds`,
`RevokedSessionsEnd`, `EverythingEnds`), which is out of the prover's reach, and the
disagreements of section 5, each of which is a counterexample.

## 5. Where the code differs from what it says

- `registry_disable_race`: a device can be online after it has been disabled. The
  enabled flag is read once, during AUTH; a toggle that is answered before that
  handler reaches `registerOnlineAgent` finds nothing to disconnect. README.md:298
  says a disabled device can neither register nor be connected to.
- `registry_peer_race`: a handler replaced between `registerOnlineAgent` and
  `RegisterPeer` overwrites the newer connection's peer entry, and removes it when
  it ends: the device is online but cannot be reached. The comment of
  `UnregisterPeer` says that an old connection cannot delete a newer one.
- `signaling_port_assign`: the relay makes an agent reachable before it writes
  PORT_ASSIGN; a waiting controller's CONNECT_NOTIFY comes first and the agent
  gives up its registration (`client.go:168`).
- `path_upgrade`: a direct UDP path that is selected after the relay was activated
  is never read, although `manager.go:86-87` says waiters wake the instant a path
  is usable.
- `tlsmux_eof`: `Read` may report the end of a stream with received data unread. It
  looks at the queue, then selects between queue and `remoteDone`; when data and the
  close arrive in between, Go chooses. `bulk_test.go:58-98` writes, closes and expects
  every byte.

Weaknesses met while modelling that no document speaks about:

- A session can be inserted after the `UnregisterPeer` of its agent
  (`signaling/server.go:167-207`): the handler has copied the agent's writer, the
  control loop ends by the end of the control stream, and until `sess.Close()`
  (`agent_manager.go:672`) the notification can still be written. The controller gets
  a CONNECT_RESPONSE and never a SESSION_CLOSE, and goes on as if the agent were there
  until it gives up by itself. `ControllerLearns` does not claim it.
- An end that closes a stream while its other copy direction still reads
  (`tcp/proxy.go:92-103`) can read past a gap: between `close(localDone)` and
  `removeStream` (`tlsmux.go:431-432`) `readLoop` may drop one frame and queue the
  next. `StreamIsFaithful` claims order, not completeness, for such a stream.
- A change of relay.yaml between its load (`main.go:36`) and the watcher's first
  `os.Stat` (`main.go:182`), by hand or by a console request, is taken for what was
  loaded: memory and file differ until the next change (`FileRules` excepts it).
- Two Sync functions at once lose one of the two sections: each reads relay.yaml,
  replaces its own section and writes the rest back (`config.go:289`, without a
  lock). The watcher then makes the relay agree with the file, that is, with the
  older value (`FileRules` holds, the request that was answered "updated" is lost).
- A reload that has read the file before a delete, or a crash between the delete's
  statement and its Sync, brings a deleted invitation back (`main.go:209`), unspent.
- One expired invitation in relay.yaml makes every reload and the next start fail
  (`config.go:208`). `os.WriteFile` (`config.go:280`) is not atomic.
- The peer counts a stream until its own `Close`: an opener that closes and opens
  again can meet the limit at the other end, which ends the whole session
  (`tlsmux.go:206`, `ReceiveTooMany`).
- An authenticated direct TCP connection outlives the revocation of its session
  (`direct_tcp.go:79`); the agent's loop to the peer ends on any error of the RDP
  service's socket while the controller goes on sending (`client.go:599`); the reader
  of a local UDP socket ends at any error and its session stays without one until it
  is idle (`client.go:373`, `ReaderFails`).
- A delete can release a port a registration in progress was given
  (`web/server.go:256`); a live session is closed before its replacement is persisted
  and bound (`agent_manager.go:450`); `unregisterOnlineAgent` leaves the table before
  the listeners are closed, so a replacement may fail to bind (`agent_manager.go:672`).

## 6. Plan

Done: all modules above. What is left, in order of value:

1. `AgentP2P` composed with `Signaling`'s credentials: a revocation in flight against
   a direct TCP authentication.
2. The dialling side of direct TCP and the controller's punch, now outcomes in
   `PathManager`.

## 7. Not modelled

Byte formats, certificates and token hashing (no property depends on their bits);
the copying of TCP streams; QUIC, which is a thin adapter over a library; the
heartbeat, reconnection and backoff of the agent, which are time only; NAT candidates,
access lists and the rendezvous server (stateless); the Windows GUI, tray and service
glue; the parsing of the configuration and metrics. The contents of candidates, the
wording of errors and logging are abstracted everywhere. The two `tailwind.js` files
under `gui/assets` and `web/static` are a vendored style sheet compiler: no logic of
this program.

## 8. Running

    tlc -config registry.cfg MCRelayRegistry     # likewise registry_*.cfg
    tlc -config signaling.cfg MCSignaling        # likewise signaling_*.cfg
    tlc -config path.cfg PathManager             # likewise path_upgrade.cfg
    tlc -config udp_config.cfg MCUdpConfig
    tlc -config parts.cfg MCParts
    tlc -config tlsmux_eof.cfg TlsMux
    tlapm RelayRegistryProofs.tla                # likewise the other *Proofs.tla

`registry` takes about a minute on two workers, `udp_config` two, `signaling`,
`signaling_reconnect` and `parts` two and a half to three, the rest seconds. `TlsMux`, `AgentP2P`, `RelayConfig`, `UdpChannel` and `UdpSessions` are
specifications of their own and can be checked alone.
CHECK_DEADLOCK is off where every program may have stopped for good.
