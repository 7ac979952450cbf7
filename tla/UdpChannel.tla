------------------------------ MODULE UdpChannel ------------------------------
(***************************************************************************)
(* One direction of a session's UDP traffic between the controller and the *)
(* agent: SendUDP and the Fragmenter at one end, the direct path or the    *)
(* relay, the ReplayWindow and the Reassembler at the other end.           *)
(*                                                                         *)
(* The direct path is UDP: it loses, repeats and reorders.  The relay path *)
(* is QUIC datagrams: they are lost and reordered, never repeated, and     *)
(* nothing but the direct path has a replay window.  Both feed one         *)
(* Reassembler.  The loops that receive are one goroutine per path; what   *)
(* one of them does with a datagram is one step, since the window belongs  *)
(* to it and FeedAppend is a critical section.                             *)
(*                                                                         *)
(* A packet is its number; a fragment knows which part of which packet it  *)
(* carries, so that a packet put together wrongly is told from a whole     *)
(* one.  Encryption, foreign senders and undecodable datagrams are left    *)
(* out, and with them what only those can reach: invalid fragment numbers, *)
(* a fragment count that does not match, packets beyond the maximum size.  *)
(***************************************************************************)
EXTENDS ReplayWindow, FiniteSets

CONSTANTS
  MaxPending,   \* MaxReassemblyPerSession
  MaxFragments, \* bound: fragments of a packet
  MaxIds        \* bound: packet identifiers taken

\* Serial numbers can only be told apart over half of their space: the code
\* relies on 2^31 packets taking longer than a session's packets are in flight.
ChannelAssumption ==
  /\ WindowSize \in Nat \ {0} /\ MaxPending \in Nat /\ MaxFragments \in Nat
  /\ MaxIds \in Nat
  /\ IdSpace \in Nat \ {0} /\ \E half \in 1..IdSpace : IdSpace = 2 * half /\ MaxIds <= half

VARIABLES
  base,      \* where the program's packet counter stood: it is shared by sessions
  taken,     \* identifiers taken since
  sent,      \* packets given to SendUDP
  fragments, \* fragments under way
  window,    \* the session's ReplayWindow
  pending,   \* Reassembler.pending of this session, by identifier
  count,     \* Reassembler.sessionCount
  crowded,   \* other sessions use up MaxGlobalReassemblyCount
  closed,    \* the Reassembler has been stopped
  got,       \* history: how often each packet was handed on (0: none that was sent)
  completed  \* history: packets completed on the direct path

sender      == <<base, taken, sent>>
reassembler == <<pending, count, crowded, closed>>
receiver    == <<window, got, completed>>
channelVars == <<sender, fragments, reassembler, receiver>>

Payloads == 0..MaxIds
Broken == 0
Nothing == <<0, 0, 0>>
NoEntry == [x \in {} |-> x]

\* nextPacketID.Add(1), n identifiers after base.
Id(n) == (base + n) % IdSpace

\* What the i-th of k fragments of packet p carries.
Part(p, i, k) == <<p, i, k>>

Fragments(via, n, p, k) ==
  {[via |-> via, n |-> n, index |-> i, count |-> k, part |-> Part(p, i, k)] : i \in 1..k}

ChannelInit ==
  /\ base \in Ids /\ taken = 0 /\ sent = 0
  /\ fragments = {}
  /\ window = Fresh
  /\ pending = NoEntry /\ count = 0 /\ crowded = FALSE /\ closed = FALSE
  /\ got = [p \in Payloads |-> 0] /\ completed = {}

-----------------------------------------------------------------------------
(* The sender.                                                             *)

\* SendUDP over the path that is selected; Fragment calls back per fragment.
SendPacket ==
  /\ taken < MaxIds
  /\ \E via \in {"direct", "relay"}, k \in 1..MaxFragments :
       fragments' = fragments \cup Fragments(via, taken + 1, sent + 1, k)
  /\ taken' = taken + 1 /\ sent' = sent + 1
  /\ UNCHANGED <<base, reassembler, receiver>>

\* Mutant of SendFallback: every fragment was written before the packet is
\* sent again.
SendFallbackLate ==
  /\ taken + 1 < MaxIds
  /\ \E k \in 1..MaxFragments :
       fragments' = fragments \cup Fragments("direct", taken + 1, sent + 1, k)
                    \cup Fragments("relay", taken + 2, sent + 1, k)
  /\ taken' = taken + 2 /\ sent' = sent + 1
  /\ UNCHANGED <<base, reassembler, receiver>>

\* A write fails: Fragment stops there, FallbackUDPFromDirect, and SendUDP takes
\* a new identifier for the same packet on the relay.
SendFallback ==
  /\ taken + 1 < MaxIds
  /\ \E k \in 1..MaxFragments : \E failed \in 1..k :
       fragments' = fragments
         \cup {f \in Fragments("direct", taken + 1, sent + 1, k) : f.index < failed}
         \cup Fragments("relay", taken + 2, sent + 1, k)
  /\ taken' = taken + 2 /\ sent' = sent + 1
  /\ UNCHANGED <<base, reassembler, receiver>>

-----------------------------------------------------------------------------
(* The network.                                                            *)

LoseFragment ==
  /\ \E f \in fragments : fragments' = fragments \ {f}
  /\ UNCHANGED <<sender, reassembler, receiver>>

\* Datagram f is taken from the network, or a copy of it stays there.
Arrives(f) ==
  fragments' \in IF f.via = "direct" THEN {fragments, fragments \ {f}} ELSE {fragments \ {f}}

-----------------------------------------------------------------------------
(* The receiver.                                                           *)

\* deleteEntryLocked
DeleteEntry(id) ==
  /\ pending' = [i \in DOMAIN pending \ {id} |-> pending[i]]
  /\ count' = IF count > 1 THEN count - 1 ELSE 0

\* The packet that parts are: one that was sent, if they are all its own.
Assembled(parts) ==
  IF \E p \in 1..sent : \A i \in DOMAIN parts : parts[i] = Part(p, i, Cardinality(DOMAIN parts))
  THEN CHOOSE p \in 1..sent : \A i \in DOMAIN parts : parts[i] = Part(p, i, Cardinality(DOMAIN parts))
  ELSE Broken

\* What the loop does with an assembled packet: on the direct path only if
\* MarkCompleted accepts it.
HandOn(f, parts) ==
  LET p == Assembled(parts) IN
  \/ /\ f.via = "relay"
     /\ got' = [got EXCEPT ![p] = @ + 1]
     /\ UNCHANGED <<window, completed>>
  \/ /\ f.via = "direct"
     /\ window' = Completed(window, Id(f.n))
     /\ got' = IF Seen(window, Id(f.n)) THEN got ELSE [got EXCEPT ![p] = @ + 1]
     /\ completed' = completed \cup {f.n}

\* FeedAppend refuses a new entry.
Refused(id) ==
  closed \/ (id \notin DOMAIN pending /\ (crowded \/ count >= MaxPending))

\* The entry of a packet, new or known.
Entry(f) ==
  IF Id(f.n) \in DOMAIN pending THEN pending[Id(f.n)]
  ELSE [received |-> 0, parts |-> [i \in 1..f.count |-> Nothing]]

\* Mutant of Stored: a repeated fragment is counted again.
StoredTwice(f) ==
  [received |-> Entry(f).received + 1, parts |-> [Entry(f).parts EXCEPT ![f.index] = f.part]]

\* The fragment in its entry; a repeated one changes nothing.
Stored(f) ==
  IF Entry(f).parts[f.index] # Nothing THEN Entry(f)
  ELSE [received |-> Entry(f).received + 1,
        parts |-> [Entry(f).parts EXCEPT ![f.index] = f.part]]

\* FeedAppend, one critical section, and what follows it in the loop.
FeedAppend(f) ==
  LET id == Id(f.n) IN
  \/ /\ f.count = 1
     /\ HandOn(f, [i \in 1..1 |-> f.part])
     /\ UNCHANGED reassembler
  \/ /\ f.count > 1 /\ Refused(id)
     /\ UNCHANGED <<reassembler, receiver>>
  \/ /\ f.count > 1 /\ ~Refused(id) /\ Stored(f).received < f.count
     /\ pending' = [i \in DOMAIN pending \cup {id} |-> IF i = id THEN Stored(f) ELSE pending[i]]
     /\ count' = IF id \in DOMAIN pending THEN count ELSE count + 1
     /\ UNCHANGED <<crowded, closed, receiver>>
  \/ /\ f.count > 1 /\ ~Refused(id) /\ Stored(f).received = f.count
     /\ DeleteEntry(id)
     /\ HandOn(f, Stored(f).parts)
     /\ UNCHANGED <<crowded, closed>>

\* Mutant of Receive: no look at the window before the fragment is stored.
ReceiveUnchecked ==
  /\ \E f \in fragments : Arrives(f) /\ FeedAppend(f)
  /\ UNCHANGED sender

\* A datagram in the loop of its path.
Receive ==
  /\ \E f \in fragments :
       /\ Arrives(f)
       /\ \/ f.via = "direct" /\ Seen(window, Id(f.n)) /\ UNCHANGED <<reassembler, receiver>>
          \/ ~(f.via = "direct" /\ Seen(window, Id(f.n))) /\ FeedAppend(f)
  /\ UNCHANGED sender

\* Mutant of Expire: the count of the session is not adjusted.
ExpireUncounted ==
  /\ \E id \in DOMAIN pending : pending' = [i \in DOMAIN pending \ {id} |-> pending[i]]
  /\ UNCHANGED <<count, sender, fragments, crowded, closed, receiver>>

\* The cleaner finds a packet that has been incomplete for too long.
Expire ==
  /\ \E id \in DOMAIN pending : DeleteEntry(id)
  /\ UNCHANGED <<sender, fragments, crowded, closed, receiver>>

\* The connection ends, and with it the cleaner.
Stop ==
  /\ ~closed /\ closed' = TRUE
  /\ pending' = NoEntry /\ count' = 0
  /\ UNCHANGED <<sender, fragments, crowded, receiver>>

OtherSessions ==
  /\ crowded' = ~crowded
  /\ UNCHANGED <<sender, fragments, pending, count, closed, receiver>>

-----------------------------------------------------------------------------
ChannelNext == SendPacket \/ SendFallback \/ LoseFragment \/ Receive \/ Expire \/ Stop \/ OtherSessions

ChannelSpec == ChannelInit /\ [][ChannelNext]_channelVars

-----------------------------------------------------------------------------
(* Properties.                                                             *)

\* What the detailed channel is for: fragments, two paths, two identifiers for
\* one packet after a fallback, repeated datagrams and the wrap of the counter,
\* and still a packet comes out whole and at most once (manager.go:281-426,
\* client.go:566-576).
Promise == INSTANCE PacketChannel WITH Payloads <- Payloads, sent <- sent, got <- got
ImplementsPacketChannel == Promise!Spec

\* Before, at and after the wrap of the counter the window knows exactly which
\* of the last WindowSize identifiers up to the highest one have been completed
\* (replay.go:25-58).
WindowRemembers ==
  /\ window.initialized <=> completed # {}
  /\ \A n \in completed : (\A m \in completed : m <= n) =>
       /\ window.highest = Id(n)
       /\ window.bitmap = {n - m : m \in {c \in completed : n - c < WindowSize}}

\* The reassembler holds what may still be completed and counts it: no entry
\* is whole, none is of a packet already handed on (however late a copy of its
\* fragments arrives), and the count the limit is checked against is theirs
\* (reassembly.go:96-180, client.go:566).
PendingIsUnfinished ==
  /\ count = Cardinality(DOMAIN pending) /\ count <= MaxPending
  /\ \A id \in DOMAIN pending :
       /\ \E i \in DOMAIN pending[id].parts : pending[id].parts[i] = Nothing
       /\ \A n \in completed : Id(n) # id
=============================================================================
