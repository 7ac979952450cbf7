--------------------------- MODULE UdpChannelProofs ----------------------------
(***************************************************************************)
(* Theorems about UdpChannel: the replay window and the reassembler are    *)
(* what their users take them for, and the channel implements              *)
(* PacketChannel.                                                          *)
(*                                                                         *)
(* Identifiers wrap, but those taken by one sender are less than half of   *)
(* their space, so comparing them as serial numbers is comparing the       *)
(* numbers n they stand for.  Below that: what is around of n (fragments   *)
(* under way and parts stored) never grows once n is sent, all of it is of *)
(* one packet, and of the two numbers a packet may have after a fallback   *)
(* the first lacks a fragment for ever.  So a packet can be completed from *)
(* one number only, and once: on the direct path the window remembers the  *)
(* number, on the relay path nothing is left of it.                        *)
(***************************************************************************)
EXTENDS UdpChannel, FiniteSetTheorems, TLAPS

-----------------------------------------------------------------------------
(* Identifiers.                                                            *)

LEMMA ModInRange ==
  ASSUME NEW N \in Nat \ {0}, NEW r \in 0..(N-1)
  PROVE  r % N = r /\ (r + N) % N = r /\ (r - N) % N = r
BY SMT

LEMMA IdIs ==
  ASSUME ChannelAssumption, base \in Ids, NEW n \in 0..MaxIds
  PROVE  /\ Id(n) \in Ids
         /\ Id(n) = IF base + n < IdSpace THEN base + n ELSE base + n - IdSpace
<1>1. IdSpace \in Nat \ {0} /\ MaxIds < IdSpace /\ base \in 0..(IdSpace - 1) /\ MaxIds \in Nat
  BY DEF ChannelAssumption, Ids
<1>2. CASE base + n < IdSpace
  <2>1. base + n \in 0..(IdSpace - 1)
    BY <1>1, <1>2
  <2> QED
    <3>1. (base + n) % IdSpace = base + n
      BY <1>1, <2>1, ModInRange
    <3> QED
      BY <1>2, <2>1, <3>1 DEF Id, Ids
<1>3. CASE base + n >= IdSpace
  <2>1. base + n - IdSpace \in 0..(IdSpace - 1) /\ base + n = (base + n - IdSpace) + IdSpace
    BY <1>1, <1>3
  <2>2. (base + n - IdSpace + IdSpace) % IdSpace = base + n - IdSpace
    BY <1>1, <2>1, ModInRange
  <2> QED
    BY <1>1, <1>3, <2>1, <2>2 DEF Id, Ids
<1> QED
  BY <1>1, <1>2, <1>3

\* No two numbers have the same identifier.
LEMMA IdInjective ==
  ASSUME ChannelAssumption, base \in Ids, NEW n \in 0..MaxIds, NEW m \in 0..MaxIds, Id(n) = Id(m)
  PROVE  n = m
<1>1. IdSpace \in Nat \ {0} /\ MaxIds < IdSpace /\ base \in 0..(IdSpace - 1) /\ MaxIds \in Nat
  BY DEF ChannelAssumption, Ids
<1> QED
  BY <1>1, IdIs

\* The signed difference of two identifiers is how far apart they were taken.
LEMMA DeltaIsDistance ==
  ASSUME ChannelAssumption, base \in Ids, NEW n \in 1..MaxIds, NEW m \in 1..MaxIds
  PROVE  Delta(Id(n), Id(m)) = n - m
<1>1. PICK half \in 1..IdSpace : IdSpace = 2 * half /\ MaxIds <= half
  BY DEF ChannelAssumption
<1>2. IdSpace \in Nat \ {0} /\ base \in 0..(IdSpace - 1) /\ MaxIds \in Nat /\ half \in Nat \ {0}
  BY <1>1 DEF ChannelAssumption, Ids
<1>3. IdSpace \div 2 = half
  BY <1>1, <1>2
<1>4. /\ Id(n) = base + n \/ Id(n) = base + n - IdSpace
      /\ Id(m) = base + m \/ Id(m) = base + m - IdSpace
      /\ Id(n) \in Ids /\ Id(m) \in Ids
  BY IdIs
<1> DEFINE d == Id(n) - Id(m)
<1>5. d \in Int /\ (d = n - m \/ d = n - m + IdSpace \/ d = n - m - IdSpace)
  BY <1>2, <1>4 DEF Ids
<1>6. CASE n >= m
  <2>1. n - m \in 0..(IdSpace - 1) /\ n - m < half
    BY <1>1, <1>2, <1>6
  <2>2. d % IdSpace = n - m
    BY <1>2, <1>5, <2>1, ModInRange
  <2> QED
    BY <1>3, <2>1, <2>2 DEF Delta
<1>7. CASE n < m
  <2>1. n - m + IdSpace \in 0..(IdSpace - 1) /\ ~(n - m + IdSpace < half)
    BY <1>1, <1>2, <1>7
  <2>2. d = n - m + IdSpace \/ d = (n - m + IdSpace) - IdSpace
    <3>1. -(n - m) < IdSpace /\ d > -IdSpace
      BY <1>1, <1>2, <1>4 DEF Ids
    <3> QED
      BY <1>2, <1>5, <1>7, <3>1
  <2>3. d % IdSpace = n - m + IdSpace
    BY <1>2, <2>1, <2>2, ModInRange
  <2>4. ~(d % IdSpace < IdSpace \div 2) /\ (d % IdSpace) - IdSpace = n - m
    BY <1>2, <1>3, <2>1, <2>3
  <2> QED
    BY <2>4 DEF Delta
<1> QED
  BY <1>6, <1>7

-----------------------------------------------------------------------------
(* The invariant: what is sent, what is under way, what is stored.         *)

Counters ==
  /\ base \in Ids /\ taken \in 0..MaxIds /\ sent \in 0..taken
  /\ completed \subseteq 1..taken

\* A fragment under way is one of a number taken and of a packet sent.
FragmentOK(f) ==
  /\ f.via \in {"direct", "relay"} /\ f.n \in 1..taken
  /\ f.count \in 1..MaxFragments /\ f.index \in 1..f.count
  /\ f.part[1] \in 1..sent /\ f.part = Part(f.part[1], f.index, f.count)

\* The fragments of a number are of one packet and one path, each of them once.
FragmentsOK ==
  /\ \A f \in fragments : FragmentOK(f)
  /\ \A f, g \in fragments : f.n = g.n =>
       /\ f.via = g.via /\ f.count = g.count /\ f.part[1] = g.part[1]
       /\ f.index = g.index => f = g

\* An entry holds parts of packet p, one of k fragments, and counts them.
PartsOK(e, p, k) ==
  /\ e.parts = [i \in 1..k |-> e.parts[i]]
  /\ \A i \in 1..k : e.parts[i] \in {Nothing, Part(p, i, k)}
  /\ e.received = Cardinality({i \in 1..k : e.parts[i] # Nothing})

\* What is under way of number n is of packet p too; what came by the relay and
\* is stored does not come again.
Fits(e, n, p, k) ==
  \A f \in fragments : f.n = n =>
    /\ f.count = k /\ f.part[1] = p
    /\ f.via = "relay" => e.parts[f.index] = Nothing

\* The entry of number n has begun and is not finished.
EntryOK(n, e) ==
  \E p \in 1..sent, k \in 2..MaxFragments :
    /\ PartsOK(e, p, k) /\ Fits(e, n, p, k)
    /\ \E i \in 1..k : e.parts[i] # Nothing
    /\ \E i \in 1..k : e.parts[i] = Nothing

PendingOK ==
  /\ DOMAIN pending \subseteq {Id(n) : n \in 1..taken}
  /\ \A n \in 1..taken : Id(n) \in DOMAIN pending => EntryOK(n, pending[Id(n)])

Counting == count = Cardinality(DOMAIN pending) /\ count <= MaxPending

\* Only the direct path completes numbers, and nothing is stored for those.
CompletedOK ==
  \A n \in completed :
    /\ Id(n) \notin DOMAIN pending
    /\ \A f \in fragments : f.n = n => f.via = "direct"

\* The window: its highest identifier is that of the highest number completed.
WindowOK ==
  \/ completed = {} /\ window = Fresh
  \/ \E h \in completed :
       /\ \A m \in completed : m <= h
       /\ window = [initialized |-> TRUE, highest |-> Id(h),
                    bitmap |-> {h - m : m \in {c \in completed : h - c < WindowSize}}]

\* The parts of number n that are under way or stored.
Around(n) ==
  {f.part : f \in {g \in fragments : g.n = n}}
    \cup (IF Id(n) \in DOMAIN pending
          THEN {pending[Id(n)].parts[i] : i \in DOMAIN pending[Id(n)].parts} \ {Nothing}
          ELSE {})

CanComplete(n, p) == \E k \in 1..MaxFragments : \A i \in 1..k : Part(p, i, k) \in Around(n)

OneAttempt ==
  \A n, m \in 1..taken : \A p \in 1..sent : CanComplete(n, p) /\ CanComplete(m, p) => n = m

\* A packet handed on cannot be completed again, unless the window knows it.
HandedOnOnce ==
  /\ got = [p \in Payloads |-> got[p]]
  /\ \A p \in Payloads :
       /\ got[p] \in {0, 1}
       /\ got[p] = 1 =>
            p \in 1..sent /\ \A n \in 1..taken : CanComplete(n, p) => n \in completed

StoreInv == Counters /\ FragmentsOK /\ PendingOK /\ Counting /\ CompletedOK
ChannelInv == StoreInv /\ WindowOK /\ OneAttempt /\ HandedOnOnce

LEMMA InitEstablishes == ASSUME ChannelAssumption PROVE ChannelInit => ChannelInv
<1> SUFFICES ASSUME ChannelInit PROVE ChannelInv
  OBVIOUS
<1> USE DEF ChannelInit
<1>1. Counters /\ FragmentsOK /\ CompletedOK /\ WindowOK
  BY DEF Counters, FragmentsOK, CompletedOK, WindowOK, ChannelAssumption
<1>2. DOMAIN pending = {} /\ count = 0
  BY DEF NoEntry
<1>3. PendingOK /\ OneAttempt
  BY <1>2 DEF PendingOK, OneAttempt
<1>4. Counting
  BY <1>2, FS_EmptySet DEF Counting, ChannelAssumption
<1>5. HandedOnOnce
  BY DEF HandedOnOnce
<1> QED
  BY <1>1, <1>3, <1>4, <1>5 DEF ChannelInv, StoreInv

\* The identifiers of the entries are finitely many.
LEMMA PendingIsFinite ==
  ASSUME ChannelAssumption, Counters, PendingOK
  PROVE  IsFiniteSet(DOMAIN pending) /\ Cardinality(DOMAIN pending) \in Nat
<1>1. DOMAIN pending \subseteq 0..(IdSpace - 1)
  <2> SUFFICES ASSUME NEW id \in DOMAIN pending PROVE id \in 0..(IdSpace - 1)
    OBVIOUS
  <2>1. PICK n \in 1..taken : id = Id(n)
    BY DEF PendingOK
  <2>2. n \in 0..MaxIds /\ base \in Ids
    BY DEF Counters, ChannelAssumption
  <2> QED
    BY <2>1, <2>2, IdIs DEF Ids
<1>2. IsFiniteSet(0..(IdSpace - 1))
  BY FS_Interval DEF ChannelAssumption
<1> QED
  BY <1>1, <1>2, FS_Subset, FS_CardinalityType

-----------------------------------------------------------------------------
(* What is around only gets less, except for what is being sent.           *)

\* Fragments are lost, entries dropped.
Less ==
  /\ fragments' \subseteq fragments /\ UNCHANGED <<base, taken, sent>>
  /\ DOMAIN pending' \subseteq DOMAIN pending
  /\ \A id \in DOMAIN pending' : pending'[id] = pending[id]

LEMMA LessFits ==
  ASSUME Counters, FragmentsOK, PendingOK, CompletedOK, Less
  PROVE  FragmentsOK' /\ PendingOK' /\ \A n \in 1..taken : Around(n)' \subseteq Around(n)
<1>1. FragmentsOK'
  BY DEF FragmentsOK, FragmentOK, Less, Part
<1>2. \A n : Id(n)' = Id(n)
  BY DEF Less, Id
<1>3. PendingOK'
  <2>1. DOMAIN pending' \subseteq {Id(n)' : n \in 1..taken'}
    BY <1>2 DEF PendingOK, Less
  <2>2. ASSUME NEW n \in 1..taken', Id(n)' \in DOMAIN pending'
        PROVE  EntryOK(n, pending[Id(n)])'
    <3>1. Id(n) \in DOMAIN pending /\ pending'[Id(n)'] = pending[Id(n)] /\ EntryOK(n, pending[Id(n)])
      BY <1>2, <2>2 DEF PendingOK, Less
    <3> DEFINE e == pending[Id(n)]
    <3>2. PICK p \in 1..sent, k \in 2..MaxFragments :
            /\ PartsOK(e, p, k) /\ Fits(e, n, p, k)
            /\ \E i \in 1..k : e.parts[i] # Nothing
            /\ \E i \in 1..k : e.parts[i] = Nothing
      BY <3>1 DEF EntryOK
    <3>3. \A f \in fragments' : f.n = n =>
            /\ f.count = k /\ f.part[1] = p
            /\ f.via = "relay" => e.parts[f.index] = Nothing
      BY <3>2 DEF Fits, Less
    <3>4. e' = e /\ sent' = sent
      BY <3>1 DEF Less
    <3> HIDE DEF e
    <3>5. PartsOK(e, p, k)' /\ Fits(e, n, p, k)'
      BY <3>2, <3>3, <3>4 DEF PartsOK, Fits, Part, Nothing
    <3>6. EntryOK(n, e)'
      BY <3>2, <3>4, <3>5 DEF EntryOK, Nothing
    <3> QED
      BY <3>6 DEF e
  <2> QED
    BY <2>1, <2>2 DEF PendingOK
<1>4. \A n \in 1..taken : Around(n)' \subseteq Around(n)
  BY <1>2 DEF Around, Less, Nothing
<1> QED
  BY <1>1, <1>3, <1>4

\* Then a packet that could not be completed still cannot.
LEMMA LessCompletes ==
  ASSUME \A n \in 1..taken : Around(n)' \subseteq Around(n)
  PROVE  \A n \in 1..taken : \A p : CanComplete(n, p)' => CanComplete(n, p)
BY DEF CanComplete, Part

LEMMA LessAttempts ==
  ASSUME OneAttempt, \A n \in 1..taken : Around(n)' \subseteq Around(n), UNCHANGED <<taken, sent>>
  PROVE  OneAttempt'
BY LessCompletes DEF OneAttempt

\* A step that hands nothing on.
LEMMA NothingHandedOn ==
  ASSUME ChannelInv, \A n \in 1..taken : Around(n)' \subseteq Around(n),
         UNCHANGED <<base, taken, sent, window, got, completed>>
  PROVE  OneAttempt' /\ HandedOnOnce' /\ WindowOK' /\ Counters'
<1>1. OneAttempt'
  BY LessAttempts DEF ChannelInv
<1>2. HandedOnOnce'
  BY LessCompletes DEF ChannelInv, HandedOnOnce, Payloads
<1>3. WindowOK' /\ Counters'
  BY DEF ChannelInv, StoreInv, WindowOK, Counters, Id
<1> QED
  BY <1>1, <1>2, <1>3

-----------------------------------------------------------------------------
(* The window.                                                             *)

\* A number that was completed is seen: its bit is set, or it is too old.
LEMMA CompletedIsSeen ==
  ASSUME ChannelAssumption, Counters, WindowOK, NEW n \in completed
  PROVE  Seen(window, Id(n))
<1>1. PICK h \in completed :
        /\ \A m \in completed : m <= h
        /\ window = [initialized |-> TRUE, highest |-> Id(h),
                     bitmap |-> {h - m : m \in {c \in completed : h - c < WindowSize}}]
  BY DEF WindowOK
<1>2. n \in 1..MaxIds /\ h \in 1..MaxIds /\ base \in Ids
  BY DEF Counters, ChannelAssumption
<1>3. Delta(Id(n), window.highest) = n - h
  BY <1>1, <1>2, DeltaIsDistance
<1>4. n <= h /\ -(n - h) = h - n /\ h - n >= 0
  BY <1>1, <1>2
<1>5. h - n >= WindowSize \/ h - n \in window.bitmap
  BY <1>1, <1>2 DEF ChannelAssumption
<1> QED
  BY <1>1, <1>3, <1>4, <1>5 DEF Seen

\* MarkCompleted of a number that is not seen.
LEMMA MarkRemembers ==
  ASSUME ChannelAssumption, Counters, WindowOK, NEW n \in 1..taken, ~Seen(window, Id(n)),
         window' = Completed(window, Id(n)), completed' = completed \cup {n}, UNCHANGED base
  PROVE  WindowOK'
<1>1. n \in 1..MaxIds /\ base \in Ids /\ completed \subseteq 1..MaxIds /\ WindowSize \in Nat \ {0}
  BY DEF Counters, ChannelAssumption
<1>2. \A m : Id(m)' = Id(m)
  BY DEF Id
<1>3. CASE completed = {} /\ window = Fresh
  <2>1. window' = [initialized |-> TRUE, highest |-> Id(n), bitmap |-> {0}] /\ completed' = {n}
    BY <1>3 DEF Completed, Fresh
  <2>2. {n - m : m \in {c \in completed' : n - c < WindowSize}} = {0}
    BY <1>1, <2>1
  <2>3. \A m \in completed' : m <= n
    BY <1>1, <2>1
  <2> QED
    BY <1>2, <2>1, <2>2, <2>3 DEF WindowOK
<1>4. ASSUME NEW h \in completed, \A m \in completed : m <= h,
             window = [initialized |-> TRUE, highest |-> Id(h),
                       bitmap |-> {h - m : m \in {c \in completed : h - c < WindowSize}}]
      PROVE  WindowOK'
  <2>1. h \in 1..MaxIds /\ Delta(Id(n), window.highest) = n - h
    BY <1>1, <1>4, DeltaIsDistance
  <2>2. CASE n > h
    <3>1. window' = [initialized |-> TRUE, highest |-> Id(n),
                     bitmap |-> ShiftLeft(window.bitmap, n - h) \cup {0}]
      <4>1. n - h > 0
        BY <1>1, <2>1, <2>2
      <4>2. Completed(window, Id(n))
              = [window EXCEPT !.highest = Id(n), !.bitmap = ShiftLeft(window.bitmap, n - h) \cup {0}]
        BY <1>4, <2>1, <4>1 DEF Completed
      <4> QED
        BY <1>4, <4>2
    <3> DEFINE bits == {h - m : m \in {c \in completed : h - c < WindowSize}}
               new == {n - m : m \in {c \in completed' : n - c < WindowSize}}
    <3>2. ShiftLeft(bits, n - h) \cup {0} = new
      <4>1. ASSUME NEW b \in ShiftLeft(bits, n - h) PROVE b \in new
        <5>1. PICK c \in bits : b = c + (n - h) /\ c + (n - h) < WindowSize
          BY DEF ShiftLeft
        <5>2. PICK m \in completed : c = h - m
          BY <5>1
        <5>3. b = n - m /\ n - m < WindowSize /\ m \in completed'
          BY <1>1, <2>1, <5>1, <5>2
        <5> QED
          BY <5>3
      <4>2. 0 \in new
        <5>1. n \in completed' /\ n - n < WindowSize /\ n - n = 0
          BY <1>1
        <5> QED
          BY <5>1
      <4>3. ASSUME NEW b \in new PROVE b \in ShiftLeft(bits, n - h) \cup {0}
        <5>1. PICK m \in completed' : b = n - m /\ n - m < WindowSize
          OBVIOUS
        <5>2. CASE m = n
          BY <1>1, <5>1, <5>2
        <5>3. CASE m \in completed
          <6>1. h - m < WindowSize /\ (h - m) + (n - h) = n - m
            BY <1>1, <2>1, <2>2, <5>1, <5>3
          <6>2. h - m \in bits
            BY <5>3, <6>1
          <6> QED
            BY <5>1, <6>1, <6>2 DEF ShiftLeft
        <5> QED
          BY <5>1, <5>2, <5>3
      <4> QED
        BY <4>1, <4>2, <4>3
    <3>3. \A m \in completed' : m <= n
      BY <1>1, <1>4, <2>1, <2>2
    <3>4. window' = [initialized |-> TRUE, highest |-> Id(n)', bitmap |-> new]
      BY <1>2, <1>4, <3>1, <3>2
    <3> HIDE DEF new
    <3>5. n \in completed'
      OBVIOUS
    <3> QED
      BY <3>3, <3>4, <3>5 DEF WindowOK, new
  <2>3. CASE n <= h
    <3>1. -(n - h) = h - n /\ h - n >= 0 /\ ~(n - h > 0)
      BY <1>1, <2>1, <2>3
    <3>2. h - n < WindowSize
      BY <1>1, <1>4, <2>1, <3>1 DEF Seen
    <3>3. window' = [window EXCEPT !.bitmap = @ \cup {h - n}]
      BY <1>4, <2>1, <3>1, <3>2 DEF Completed
    <3>4. window.bitmap \cup {h - n}
            = {h - m : m \in {c \in completed' : h - c < WindowSize}}
      BY <1>4, <3>2
    <3>5. window' = [initialized |-> TRUE, highest |-> Id(h)',
                     bitmap |-> {h - m : m \in {c \in completed' : h - c < WindowSize}}]
      BY <1>2, <1>4, <3>3, <3>4
    <3>6. h \in completed' /\ \A m \in completed' : m <= h
      BY <1>4, <2>3
    <3> QED
      BY <3>5, <3>6 DEF WindowOK
  <2> QED
    BY <1>1, <2>1, <2>2, <2>3
<1> QED
  BY <1>3, <1>4 DEF WindowOK

LEMMA WindowIsTheProperty ==
  ASSUME ChannelAssumption, Counters, WindowOK
  PROVE  WindowRemembers
<1>1. completed \subseteq Int
  BY DEF Counters, ChannelAssumption
<1>2. CASE completed = {} /\ window = Fresh
  BY <1>2 DEF WindowRemembers, Fresh
<1>3. ASSUME NEW h \in completed, \A m \in completed : m <= h,
             window = [initialized |-> TRUE, highest |-> Id(h),
                       bitmap |-> {h - m : m \in {c \in completed : h - c < WindowSize}}]
      PROVE  WindowRemembers
  <2>1. ASSUME NEW n \in completed, \A m \in completed : m <= n PROVE n = h
    <3>1. n \in Int /\ h \in Int
      BY <1>1, <1>3, <2>1
    <3>2. n <= h /\ h <= n
      BY <1>3, <2>1
    <3> QED
      BY <3>1, <3>2
  <2> QED
    BY <1>3, <2>1 DEF WindowRemembers
<1> QED
  BY <1>2, <1>3 DEF WindowOK

-----------------------------------------------------------------------------
(* The reassembler.                                                        *)

\* An entry with a fragment more: what was there before, and that fragment.
LEMMA StoredHolds ==
  ASSUME ChannelAssumption, Counters, FragmentsOK, PendingOK, NEW f \in fragments, f.count > 1
  PROVE  LET e == Stored(f)  p == f.part[1]  k == f.count IN
         /\ PartsOK(e, p, k)
         /\ e.parts[f.index] = Part(p, f.index, k) /\ Part(p, f.index, k) # Nothing
         /\ \A i \in 1..k : e.parts[i] # Nothing => e.parts[i] \in Around(f.n)
         /\ \A g \in fragments : g.n = f.n /\ g.via = "relay" /\ g # f => e.parts[g.index] = Nothing
<1> DEFINE e == Stored(f)  p == f.part[1]  k == f.count  old == Entry(f)
<1>1. /\ k \in 2..MaxFragments /\ f.index \in 1..k /\ p \in 1..sent /\ f.n \in 1..taken
      /\ f.part = Part(p, f.index, k) /\ Part(p, f.index, k) # Nothing
  BY DEF FragmentsOK, FragmentOK, Part, Nothing, Counters, ChannelAssumption
<1>2. /\ PartsOK(old, p, k) /\ Fits(old, f.n, p, k)
      /\ \A i \in 1..k : old.parts[i] # Nothing => old.parts[i] \in Around(f.n)
  <2>1. CASE Id(f.n) \in DOMAIN pending
    <3>1. old = pending[Id(f.n)] /\ EntryOK(f.n, old)
      BY <1>1, <2>1 DEF Entry, PendingOK
    <3>2. PICK q \in 1..sent, l \in 2..MaxFragments : PartsOK(old, q, l) /\ Fits(old, f.n, q, l)
      BY <3>1 DEF EntryOK
    <3>3. q = p /\ l = k
      BY <3>2 DEF Fits
    <3>4. PartsOK(old, p, k) /\ Fits(old, f.n, p, k)
      BY <3>2, <3>3
    <3>5. \A i \in 1..k : i \in DOMAIN pending[Id(f.n)].parts
      BY <3>1, <3>4 DEF PartsOK
    <3>6. \A i \in 1..k : old.parts[i] # Nothing => old.parts[i] \in Around(f.n)
      BY <2>1, <3>1, <3>5 DEF Around
    <3> QED
      BY <3>4, <3>6
  <2>2. CASE Id(f.n) \notin DOMAIN pending
    <3>1. old = [received |-> 0, parts |-> [i \in 1..k |-> Nothing]]
      BY <2>2 DEF Entry
    <3>2. {i \in 1..k : old.parts[i] # Nothing} = {}
      BY <3>1
    <3>3. PartsOK(old, p, k)
      <4>1. old.received = Cardinality({i \in 1..k : old.parts[i] # Nothing})
        BY <3>1, <3>2, FS_EmptySet
      <4>2. old.parts = [i \in 1..k |-> old.parts[i]] /\ \A i \in 1..k : old.parts[i] = Nothing
        BY <3>1
      <4> HIDE DEF old
      <4> QED
        BY <4>1, <4>2 DEF PartsOK
    <3>4. Fits(old, f.n, p, k)
      BY <1>1, <3>1 DEF Fits, FragmentsOK, FragmentOK
    <3> QED
      BY <3>1, <3>3, <3>4
  <2> QED
    BY <2>1, <2>2
<1>3. f.part \in Around(f.n)
  BY DEF Around
<1> HIDE DEF old
<1>4. CASE old.parts[f.index] # Nothing
  <2>1. e = old
    BY <1>4 DEF Stored, old
  <2>2. old.parts[f.index] = Part(p, f.index, k)
    BY <1>1, <1>2, <1>4 DEF PartsOK
  <2>3. \A g \in fragments : g.n = f.n /\ g.via = "relay" => old.parts[g.index] = Nothing
    BY <1>2 DEF Fits
  <2> QED
    BY <1>1, <1>2, <2>1, <2>2, <2>3
<1>5. CASE old.parts[f.index] = Nothing
  <2>1. e = [received |-> old.received + 1, parts |-> [old.parts EXCEPT ![f.index] = f.part]]
    BY <1>5 DEF Stored, old
  <2>2. /\ e.parts = [i \in 1..k |-> e.parts[i]] /\ e.parts[f.index] = Part(p, f.index, k)
        /\ \A i \in (1..k) \ {f.index} : e.parts[i] = old.parts[i]
        /\ e.received = old.received + 1
    <3>1. old.parts = [i \in 1..k |-> old.parts[i]]
      BY <1>2 DEF PartsOK
    <3>2. e.parts = [old.parts EXCEPT ![f.index] = f.part] /\ e.received = old.received + 1
      BY <2>1
    <3>3. e.parts = [i \in 1..k |-> IF i = f.index THEN f.part ELSE old.parts[i]]
      BY <3>1, <3>2
    <3> HIDE DEF e
    <3> QED
      BY <1>1, <3>2, <3>3
  <2> HIDE DEF e
  <2>3. PartsOK(e, p, k)
    <3> DEFINE S == {i \in 1..k : old.parts[i] # Nothing}
    <3>1. {i \in 1..k : e.parts[i] # Nothing} = S \cup {f.index} /\ f.index \notin S
      BY <1>1, <1>5, <2>2
    <3>2. IsFiniteSet(1..k)
      BY <1>1, FS_Interval DEF ChannelAssumption
    <3>3. IsFiniteSet(S) /\ Cardinality(S) \in Nat
      BY <3>2, FS_Subset, FS_CardinalityType
    <3>4. Cardinality(S \cup {f.index}) = Cardinality(S) + 1
      BY <3>1, <3>3, FS_AddElement
    <3>5. old.received = Cardinality(S)
      BY <1>2 DEF PartsOK
    <3>6. e.received = Cardinality({i \in 1..k : e.parts[i] # Nothing})
      BY <2>2, <3>1, <3>4, <3>5
    <3>7. \A i \in 1..k : e.parts[i] \in {Nothing, Part(p, i, k)}
      BY <1>2, <2>2 DEF PartsOK
    <3> QED
      BY <2>2, <3>6, <3>7 DEF PartsOK
  <2>4. \A i \in 1..k : e.parts[i] # Nothing => e.parts[i] \in Around(f.n)
    BY <1>1, <1>2, <1>3, <2>2
  <2>5. ASSUME NEW g \in fragments, g.n = f.n, g.via = "relay", g # f
        PROVE  e.parts[g.index] = Nothing
    <3>1. g.index # f.index /\ g.index \in 1..k
      BY <2>5 DEF FragmentsOK, FragmentOK
    <3>2. old.parts[g.index] = Nothing
      BY <1>2, <2>5 DEF Fits
    <3> QED
      BY <2>2, <3>1, <3>2
  <2> QED
    BY <1>1, <2>2, <2>3, <2>4, <2>5 DEF e
<1> QED
  BY <1>4, <1>5

\* Where nothing is missing, everything was received.
LEMMA WholeWhenCounted ==
  ASSUME ChannelAssumption, NEW e, NEW p, NEW k \in 1..MaxFragments, PartsOK(e, p, k)
  PROVE  e.received = k <=> \A i \in 1..k : e.parts[i] # Nothing
<1> DEFINE S == {i \in 1..k : e.parts[i] # Nothing}
<1>1. IsFiniteSet(1..k) /\ Cardinality(1..k) = k
  BY FS_Interval DEF ChannelAssumption
<1>2. S = 1..k <=> Cardinality(S) = Cardinality(1..k)
  BY <1>1, FS_Subset
<1>3. e.received = Cardinality(S)
  BY DEF PartsOK
<1> QED
  BY <1>1, <1>2, <1>3

\* A fragment that is not thrown away is of a number not completed.
LEMMA NotCompletedYet ==
  ASSUME ChannelAssumption, StoreInv, WindowOK, NEW f \in fragments,
         ~(f.via = "direct" /\ Seen(window, Id(f.n)))
  PROVE  f.n \notin completed
BY CompletedIsSeen DEF StoreInv, CompletedOK, FragmentsOK, FragmentOK

LEMMA Leaves ==
  ASSUME NEW f \in fragments, Arrives(f)
  PROVE  fragments' \subseteq fragments /\ (f.via # "direct" => fragments' = fragments \ {f})
BY DEF Arrives

\* deleteEntryLocked
LEMMA DeletesOne ==
  ASSUME ChannelAssumption, StoreInv, NEW id \in DOMAIN pending, DeleteEntry(id)
  PROVE  /\ Counting' /\ DOMAIN pending' = DOMAIN pending \ {id}
         /\ \A x \in DOMAIN pending' : pending'[x] = pending[x]
<1> DEFINE D == DOMAIN pending
<1>1. DOMAIN pending' = D \ {id} /\ \A x \in DOMAIN pending' : pending'[x] = pending[x]
  BY DEF DeleteEntry
<1>2. IsFiniteSet(D) /\ Cardinality(D) \in Nat
  BY PendingIsFinite DEF StoreInv
<1>3. Cardinality(D \ {id}) = Cardinality(D) - 1 /\ Cardinality(D \ {id}) \in Nat
  BY <1>2, FS_RemoveElement, FS_CardinalityType
<1>4. count = Cardinality(D) /\ count <= MaxPending /\ MaxPending \in Nat
  BY DEF StoreInv, Counting, ChannelAssumption
<1>5. count' = Cardinality(D) - 1
  BY <1>2, <1>3, <1>4 DEF DeleteEntry
<1> QED
  BY <1>1, <1>2, <1>3, <1>4, <1>5 DEF Counting

\* A step that loses fragments and entries and keeps the count.
LEMMA LessKeeps ==
  ASSUME ChannelInv, Less, Counting', UNCHANGED <<window, got, completed>>
  PROVE  ChannelInv'
<1>1. FragmentsOK' /\ PendingOK' /\ \A n \in 1..taken : Around(n)' \subseteq Around(n)
  BY LessFits DEF ChannelInv, StoreInv
<1>2. OneAttempt' /\ HandedOnOnce' /\ WindowOK' /\ Counters'
  BY <1>1, NothingHandedOn DEF Less
<1>3. CompletedOK'
  BY DEF ChannelInv, StoreInv, CompletedOK, Less, Id
<1> QED
  BY <1>1, <1>2, <1>3 DEF ChannelInv, StoreInv

\* Expiry, loss, the end and the other sessions.
LEMMA QuietStep ==
  ASSUME ChannelAssumption, ChannelInv, LoseFragment \/ Expire \/ Stop \/ OtherSessions
  PROVE  ChannelInv' /\ UNCHANGED <<sent, got>>
<1>1. UNCHANGED <<base, taken, sent, window, got, completed>>
  BY DEF LoseFragment, Expire, Stop, OtherSessions, sender, receiver
<1>2. CASE LoseFragment \/ OtherSessions
  <2>1. fragments' \subseteq fragments /\ UNCHANGED <<pending, count>>
    BY <1>2 DEF LoseFragment, OtherSessions, reassembler
  <2>2. Less /\ Counting'
    BY <1>1, <2>1 DEF Less, ChannelInv, StoreInv, Counting
  <2> QED
    BY <1>1, <2>2, LessKeeps
<1>3. CASE Expire
  <2>1. PICK id \in DOMAIN pending : DeleteEntry(id)
    BY <1>3 DEF Expire
  <2>2. fragments' = fragments
    BY <1>3 DEF Expire
  <2>3. Less /\ Counting'
    BY <1>1, <2>1, <2>2, DeletesOne DEF Less, ChannelInv
  <2> QED
    BY <1>1, <2>3, LessKeeps
<1>4. CASE Stop
  <2>1. fragments' = fragments /\ DOMAIN pending' = {} /\ count' = 0
    BY <1>4 DEF Stop, NoEntry
  <2>2. Less /\ Counting'
    BY <1>1, <2>1, FS_EmptySet DEF Less, Counting, ChannelAssumption
  <2> QED
    BY <1>1, <2>2, LessKeeps
<1> QED
  BY <1>1, <1>2, <1>3, <1>4

\* FeedAppend puts the fragment into its entry.
LEMMA StoreStep ==
  ASSUME ChannelAssumption, ChannelInv, NEW f \in fragments, Arrives(f),
         ~(f.via = "direct" /\ Seen(window, Id(f.n))),
         f.count > 1, ~Refused(Id(f.n)), Stored(f).received < f.count,
         pending' = [i \in DOMAIN pending \cup {Id(f.n)} |->
                       IF i = Id(f.n) THEN Stored(f) ELSE pending[i]],
         count' = IF Id(f.n) \in DOMAIN pending THEN count ELSE count + 1,
         UNCHANGED <<sender, receiver>>
  PROVE  ChannelInv'
<1> DEFINE p == f.part[1]  k == f.count  id == Id(f.n)
<1> USE DEF ChannelInv, StoreInv
<1>1. PICK e : e = Stored(f)
  OBVIOUS
<1>2. /\ UNCHANGED <<base, taken, sent, window, got, completed>>
      /\ fragments' \subseteq fragments /\ (f.via # "direct" => fragments' = fragments \ {f})
      /\ \A m : Id(m)' = Id(m)
  BY Leaves DEF sender, receiver, Id
<1>3. /\ k \in 2..MaxFragments /\ f.index \in 1..k /\ p \in 1..sent /\ f.n \in 1..taken
      /\ taken \in 0..MaxIds /\ base \in Ids /\ f.via \in {"direct", "relay"}
  BY DEF FragmentsOK, FragmentOK, Counters, ChannelAssumption
<1>4. /\ PartsOK(e, p, k)
      /\ e.parts[f.index] # Nothing
      /\ \A i \in 1..k : e.parts[i] # Nothing => e.parts[i] \in Around(f.n)
      /\ \A g \in fragments : g.n = f.n /\ g.via = "relay" /\ g # f => e.parts[g.index] = Nothing
  BY <1>1, StoredHolds
<1>5. \A m \in 1..taken : Id(m) = id => m = f.n
  BY <1>3, IdInjective DEF ChannelAssumption
<1>6. /\ DOMAIN pending' = DOMAIN pending \cup {id} /\ pending'[id] = e
      /\ \A x \in DOMAIN pending \ {id} : pending'[x] = pending[x]
  BY <1>1
<1>7. FragmentsOK'
  BY <1>2 DEF FragmentsOK, FragmentOK, Part
<1>8. ASSUME NEW m \in 1..taken PROVE Around(m)' \subseteq Around(m)
  <2>1. CASE m = f.n
    <3>1. Around(m)' = {g.part : g \in {h \in fragments' : h.n = m}}
                         \cup ({e.parts[i] : i \in DOMAIN e.parts} \ {Nothing})
      BY <1>2, <1>6, <2>1 DEF Around, Nothing
    <3>2. DOMAIN e.parts = 1..k
      BY <1>4 DEF PartsOK
    <3>3. {e.parts[i] : i \in DOMAIN e.parts} \ {Nothing} \subseteq Around(m)
      BY <1>4, <2>1, <3>2
    <3>4. {g.part : g \in {h \in fragments' : h.n = m}} \subseteq Around(m)
      BY <1>2 DEF Around
    <3> QED
      BY <3>1, <3>3, <3>4
  <2>2. CASE m # f.n
    <3>1. Id(m) # id
      BY <1>5, <2>2
    <3> QED
      BY <1>2, <1>6, <3>1 DEF Around, Nothing
  <2> QED
    BY <2>1, <2>2
<1>9. OneAttempt' /\ HandedOnOnce' /\ WindowOK' /\ Counters'
  BY <1>2, <1>8, NothingHandedOn
<1>10. PendingOK'
  <2>1. DOMAIN pending' \subseteq {Id(m)' : m \in 1..taken'}
    BY <1>2, <1>3, <1>6 DEF PendingOK
  <2>2. ASSUME NEW m \in 1..taken', Id(m)' \in DOMAIN pending'
        PROVE  EntryOK(m, pending[Id(m)])'
    <3>1. CASE m = f.n
      <4>1. \A g \in fragments' : g.n = m =>
              /\ g.count = k /\ g.part[1] = p
              /\ g.via = "relay" => e.parts[g.index] = Nothing
        BY <1>2, <1>3, <1>4, <3>1 DEF FragmentsOK
      <4>2. \E i \in 1..k : e.parts[i] = Nothing
        BY <1>1, <1>3, <1>4, WholeWhenCounted DEF ChannelAssumption
      <4>3. EntryOK(m, e)'
        <5>1. PartsOK(e, p, k)' /\ Fits(e, m, p, k)'
          BY <1>4, <4>1 DEF PartsOK, Fits, Part, Nothing
        <5> QED
          BY <1>2, <1>3, <1>4, <4>2, <5>1 DEF EntryOK, Nothing
      <4> QED
        BY <1>2, <1>6, <3>1, <4>3
    <3>2. CASE m # f.n
      <4>1. PICK d : d = pending[Id(m)]
        OBVIOUS
      <4>2. Id(m) # id /\ Id(m) \in DOMAIN pending /\ pending'[Id(m)'] = d /\ EntryOK(m, d)
        BY <1>2, <1>5, <1>6, <2>2, <3>2, <4>1 DEF PendingOK
      <4>3. PICK q \in 1..sent, l \in 2..MaxFragments :
              /\ PartsOK(d, q, l) /\ Fits(d, m, q, l)
              /\ \E i \in 1..l : d.parts[i] # Nothing
              /\ \E i \in 1..l : d.parts[i] = Nothing
        BY <4>2 DEF EntryOK
      <4>4. PartsOK(d, q, l)' /\ Fits(d, m, q, l)'
        BY <1>2, <4>3 DEF PartsOK, Fits, Part, Nothing
      <4>5. EntryOK(m, d)'
        BY <1>2, <4>3, <4>4 DEF EntryOK, Nothing
      <4> QED
        BY <4>2, <4>5
    <3> QED
      BY <3>1, <3>2
  <2> QED
    BY <2>1, <2>2 DEF PendingOK
<1>11. Counting'
  <2> DEFINE D == DOMAIN pending
  <2>1. IsFiniteSet(D) /\ Cardinality(D) \in Nat
    BY PendingIsFinite
  <2>2. count = Cardinality(D) /\ count <= MaxPending /\ MaxPending \in Nat
    BY DEF Counting, ChannelAssumption
  <2>3. CASE id \in D
    BY <1>6, <2>2, <2>3 DEF Counting
  <2>4. CASE id \notin D
    <3>1. Cardinality(D \cup {id}) = Cardinality(D) + 1
      BY <2>1, <2>4, FS_AddElement
    <3>2. ~(count >= MaxPending)
      BY <2>4 DEF Refused
    <3> QED
      BY <1>6, <2>1, <2>2, <2>4, <3>1, <3>2 DEF Counting
  <2> QED
    BY <2>3, <2>4
<1>12. CompletedOK'
  <2>1. f.n \notin completed
    BY NotCompletedYet
  <2>2. \A m \in completed : Id(m) # id
    BY <1>5, <2>1 DEF Counters
  <2> QED
    BY <1>2, <1>6, <2>2 DEF CompletedOK
<1> QED
  BY <1>7, <1>9, <1>10, <1>11, <1>12

-----------------------------------------------------------------------------
(* A packet is handed on.                                                  *)

LEMMA AssembledIsThePacket ==
  ASSUME ChannelAssumption, Counters, NEW p \in 1..sent, NEW k \in 1..MaxFragments
  PROVE  Assembled([i \in 1..k |-> Part(p, i, k)]) = p
<1> DEFINE parts == [i \in 1..k |-> Part(p, i, k)]
           Is(q) == \A i \in DOMAIN parts : parts[i] = Part(q, i, Cardinality(DOMAIN parts))
<1>1. DOMAIN parts = 1..k /\ Cardinality(1..k) = k /\ 1 \in 1..k
  BY FS_Interval DEF ChannelAssumption
<1>2. Is(p)
  BY <1>1
<1>3. \A q \in 1..sent : Is(q) => q = p
  BY <1>1 DEF Part
<1>4. Assembled(parts) = CHOOSE q \in 1..sent : Is(q)
  BY <1>2 DEF Assembled
<1> HIDE DEF Is
<1> QED
  BY <1>2, <1>3, <1>4

\* What a loop does with packet p, completed from number n: nobody has had it.
LEMMA HandOnStep ==
  ASSUME ChannelAssumption, ChannelInv, NEW f \in fragments,
         ~(f.via = "direct" /\ Seen(window, Id(f.n))),
         NEW p \in 1..sent, NEW k \in 1..MaxFragments, CanComplete(f.n, p),
         HandOn(f, [i \in 1..k |-> Part(p, i, k)]),
         Less, Counting', Id(f.n) \notin DOMAIN pending',
         f.via = "relay" => \A g \in fragments' : g.n # f.n
  PROVE  ChannelInv' /\ got[p] = 0 /\ got' = [got EXCEPT ![p] = 1]
<1> DEFINE n == f.n
<1> USE DEF ChannelInv, StoreInv
<1>1. n \in 1..taken /\ f.via \in {"direct", "relay"} /\ n \notin completed
  BY NotCompletedYet DEF FragmentsOK, FragmentOK
<1>2. \A m : Id(m)' = Id(m)
  BY DEF Less, Id
<1>3. p \in Payloads /\ got[p] \in {0, 1} /\ got[p] = 0
  <2>1. p \in Payloads
    BY DEF Payloads, Counters, ChannelAssumption
  <2> QED
    BY <1>1, <2>1 DEF HandedOnOnce
<1>4. got' = [got EXCEPT ![p] = 1]
  BY <1>1, <1>3, AssembledIsThePacket DEF HandOn, HandedOnOnce
<1>5. FragmentsOK' /\ PendingOK' /\ \A m \in 1..taken : Around(m)' \subseteq Around(m)
  BY LessFits
<1>6. UNCHANGED <<base, taken, sent>>
  BY DEF Less
<1>7. OneAttempt'
  BY <1>5, <1>6, LessAttempts
<1>8. \/ f.via = "relay" /\ UNCHANGED <<window, completed>>
      \/ /\ f.via = "direct" /\ completed' = completed \cup {n}
         /\ window' = Completed(window, Id(n)) /\ ~Seen(window, Id(n))
  BY <1>1 DEF HandOn
<1>9. Counters'
  BY <1>1, <1>6, <1>8 DEF Counters
<1>10. WindowOK'
  <2>1. CASE UNCHANGED <<window, completed>>
    BY <1>2, <2>1 DEF WindowOK
  <2>2. CASE completed' = completed \cup {n} /\ window' = Completed(window, Id(n))
             /\ ~Seen(window, Id(n))
    BY <1>1, <1>6, <2>2, MarkRemembers
  <2> QED
    BY <1>8, <2>1, <2>2
<1>11. CompletedOK'
  <2>1. \A g \in fragments : g.n = n => g.via = f.via
    BY DEF FragmentsOK
  <2> QED
    BY <1>2, <1>8, <2>1 DEF CompletedOK, Less
<1>12. HandedOnOnce'
  <2>1. completed \subseteq completed'
    BY <1>8
  <2>2. ASSUME NEW m \in 1..taken, CanComplete(m, p)' PROVE m \in completed'
    <3>1. CanComplete(m, p)
      BY <1>5, <2>2, LessCompletes
    <3>2. m = n
      BY <1>1, <3>1 DEF OneAttempt
    <3>3. CASE f.via = "relay"
      <4>1. Around(n)' = {}
        BY <1>2, <3>3 DEF Around
      <4>2. \A l \in 1..MaxFragments : 1 \in 1..l
        BY DEF ChannelAssumption
      <4>3. ~CanComplete(n, p)'
        BY <4>1, <4>2 DEF CanComplete
      <4> QED
        BY <2>2, <3>2, <4>3
    <3> QED
      BY <1>8, <3>2, <3>3
  <2>3. ASSUME NEW q \in Payloads, got'[q] = 1, q # p
        PROVE  q \in 1..sent /\ \A m \in 1..taken : CanComplete(m, q)' => m \in completed'
    <3>1. got[q] = 1
      BY <1>4, <2>3 DEF HandedOnOnce
    <3> QED
      BY <1>5, <2>1, <3>1, <2>3, LessCompletes DEF HandedOnOnce
  <2>4. got' = [q \in Payloads |-> got'[q]] /\ \A q \in Payloads : got'[q] \in {0, 1}
    BY <1>3, <1>4 DEF HandedOnOnce
  <2> QED
    BY <1>6, <2>2, <2>3, <2>4 DEF HandedOnOnce, Payloads
<1> QED
  BY <1>3, <1>4, <1>5, <1>7, <1>9, <1>10, <1>11, <1>12

Handed == \E p \in 1..sent : got[p] = 0 /\ got' = [got EXCEPT ![p] = 1] /\ UNCHANGED sent

LEMMA ReceiveStep ==
  ASSUME ChannelAssumption, ChannelInv, Receive
  PROVE  ChannelInv' /\ (Handed \/ UNCHANGED <<sent, got>>)
<1>1. PICK f \in fragments :
        /\ Arrives(f)
        /\ \/ f.via = "direct" /\ Seen(window, Id(f.n)) /\ UNCHANGED <<reassembler, receiver>>
           \/ ~(f.via = "direct" /\ Seen(window, Id(f.n))) /\ FeedAppend(f)
  BY DEF Receive
<1> DEFINE p == f.part[1]  k == f.count  n == f.n
<1>2. /\ UNCHANGED <<base, taken, sent>>
      /\ fragments' \subseteq fragments /\ (f.via # "direct" => fragments' = fragments \ {f})
  BY <1>1, Leaves DEF Receive, sender
<1>3. /\ k \in 1..MaxFragments /\ f.index \in 1..k /\ p \in 1..sent /\ n \in 1..taken
      /\ f.part = Part(p, f.index, k) /\ f.via \in {"direct", "relay"}
      /\ taken \in 0..MaxIds /\ base \in Ids
  BY DEF ChannelInv, StoreInv, FragmentsOK, FragmentOK, Counters
<1>4. CASE UNCHANGED <<reassembler, receiver>>
  <2>1. UNCHANGED <<pending, count, window, got, completed>>
    BY <1>4 DEF reassembler, receiver
  <2>2. Less /\ Counting'
    BY <1>2, <2>1 DEF Less, ChannelInv, StoreInv, Counting
  <2> QED
    BY <1>2, <2>1, <2>2, LessKeeps
<1>5. CASE ~(f.via = "direct" /\ Seen(window, Id(n))) /\ FeedAppend(f)
  <2>1. CASE /\ f.count > 1 /\ ~Refused(Id(n)) /\ Stored(f).received < f.count
             /\ pending' = [i \in DOMAIN pending \cup {Id(n)} |->
                              IF i = Id(n) THEN Stored(f) ELSE pending[i]]
             /\ count' = IF Id(n) \in DOMAIN pending THEN count ELSE count + 1
             /\ UNCHANGED <<crowded, closed, receiver>>
    <3>1. ChannelInv'
      BY <1>1, <1>5, <2>1, StoreStep DEF Receive
    <3> QED
      BY <1>2, <2>1, <3>1 DEF receiver
  <2>2. CASE k = 1 /\ HandOn(f, [i \in 1..1 |-> f.part]) /\ UNCHANGED reassembler
    <3>1. f.index = 1 /\ [i \in 1..1 |-> f.part] = [i \in 1..1 |-> Part(p, i, 1)]
      BY <1>3, <2>2
    <3>2. CanComplete(n, p)
      <4>1. f.part \in Around(n)
        BY DEF Around
      <4> QED
        BY <1>3, <2>2, <3>1, <4>1 DEF CanComplete
    <3>3. Id(n) \notin DOMAIN pending
      <4> SUFFICES ASSUME Id(n) \in DOMAIN pending PROVE FALSE
        OBVIOUS
      <4>1. PICK q \in 1..sent, l \in 2..MaxFragments : Fits(pending[Id(n)], n, q, l)
        BY <1>3 DEF ChannelInv, StoreInv, PendingOK, EntryOK
      <4> QED
        BY <2>2, <4>1 DEF Fits
    <3>4. Less /\ Counting' /\ Id(n) \notin DOMAIN pending'
      BY <1>2, <2>2, <3>3 DEF reassembler, Less, ChannelInv, StoreInv, Counting
    <3>5. f.via = "relay" => \A g \in fragments' : g.n # n
      BY <1>2, <2>2, <3>1 DEF ChannelInv, StoreInv, FragmentsOK, FragmentOK
    <3>6. ChannelInv' /\ got[p] = 0 /\ got' = [got EXCEPT ![p] = 1]
      BY <1>3, <1>5, <2>2, <3>1, <3>2, <3>4, <3>5, HandOnStep
    <3> QED
      BY <1>2, <1>3, <3>6 DEF Handed
  <2>3. CASE /\ k > 1 /\ ~Refused(Id(n)) /\ Stored(f).received = k /\ DeleteEntry(Id(n))
             /\ HandOn(f, Stored(f).parts)
    <3> DEFINE e == Stored(f)
    <3>1. /\ PartsOK(e, p, k)
          /\ \A i \in 1..k : e.parts[i] # Nothing => e.parts[i] \in Around(n)
          /\ \A g \in fragments : g.n = n /\ g.via = "relay" /\ g # f => e.parts[g.index] = Nothing
      BY <2>3, StoredHolds DEF ChannelInv, StoreInv
    <3>2. Id(n) \in DOMAIN pending
      <4> SUFFICES ASSUME Id(n) \notin DOMAIN pending PROVE FALSE
        OBVIOUS
      <4>1. Entry(f) = [received |-> 0, parts |-> [i \in 1..k |-> Nothing]]
        BY DEF Entry
      <4>2. Stored(f).received = 1
        BY <1>3, <4>1 DEF Stored
      <4> QED
        BY <2>3, <4>2
    <3> HIDE DEF e
    <3>3. \A i \in 1..k : e.parts[i] # Nothing
      BY <1>3, <2>3, <3>1, WholeWhenCounted DEF e
    <3>4. e.parts = [i \in 1..k |-> Part(p, i, k)]
      BY <3>1, <3>3 DEF PartsOK
    <3>5. CanComplete(n, p)
      <4>1. \A i \in 1..k : Part(p, i, k) \in Around(n)
        BY <3>1, <3>3 DEF PartsOK
      <4> QED
        BY <1>3, <4>1 DEF CanComplete
    <3>6. Less /\ Counting' /\ Id(n) \notin DOMAIN pending'
      BY <1>2, <2>3, <3>2, DeletesOne DEF Less, ChannelInv
    <3>7. f.via = "relay" => \A g \in fragments' : g.n # n
      BY <1>2, <3>1, <3>3 DEF ChannelInv, StoreInv, FragmentsOK, FragmentOK
    <3>8. HandOn(f, [i \in 1..k |-> Part(p, i, k)])
      BY <2>3, <3>4 DEF e
    <3>9. ChannelInv' /\ got[p] = 0 /\ got' = [got EXCEPT ![p] = 1]
      BY <1>3, <1>5, <3>5, <3>6, <3>7, <3>8, HandOnStep
    <3> QED
      BY <1>2, <1>3, <3>9 DEF Handed
  <2> QED
    BY <1>4, <1>5, <2>1, <2>2, <2>3 DEF FeedAppend
<1> QED
  BY <1>1, <1>4, <1>5

-----------------------------------------------------------------------------
(* A packet is sent.                                                       *)

\* Everything around is of packets sent.
LEMMA AroundIsSent ==
  ASSUME ChannelAssumption, StoreInv, NEW n \in 1..taken, NEW x \in Around(n)
  PROVE  x[1] \in 1..sent
<1>1. CASE \E f \in fragments : x = f.part
  BY <1>1 DEF StoreInv, FragmentsOK, FragmentOK
<1>2. CASE Id(n) \in DOMAIN pending /\ x # Nothing
           /\ \E i \in DOMAIN pending[Id(n)].parts : x = pending[Id(n)].parts[i]
  <2>1. PICK i \in DOMAIN pending[Id(n)].parts : x = pending[Id(n)].parts[i]
    BY <1>2
  <2>2. PICK p \in 1..sent, k \in 2..MaxFragments : PartsOK(pending[Id(n)], p, k)
    BY <1>2 DEF StoreInv, PendingOK, EntryOK
  <2>3. x = Part(p, i, k)
    BY <1>2, <2>1, <2>2 DEF PartsOK
  <2> QED
    BY <2>3 DEF Part
<1> QED
  BY <1>1, <1>2 DEF Around

\* New fragments of the next j numbers, all of the next packet.
IsNew(new, j) ==
  /\ \A f \in new :
       /\ f.via \in {"direct", "relay"} /\ f.n \in (taken + 1)..(taken + j)
       /\ f.count \in 1..MaxFragments /\ f.index \in 1..f.count
       /\ f.part = Part(sent + 1, f.index, f.count)
  /\ \A f, g \in new : f.n = g.n =>
       f.via = g.via /\ f.count = g.count /\ (f.index = g.index => f = g)

\* The numbers taken before have around what they had, the new ones what is sent.
LEMMA SendKeeps ==
  ASSUME ChannelAssumption, ChannelInv, NEW new, NEW j \in 1..2,
         fragments' = fragments \cup new, taken' = taken + j, taken' <= MaxIds,
         sent' = sent + 1, UNCHANGED <<base, reassembler, receiver>>,
         IsNew(new, j)
  PROVE  /\ StoreInv' /\ WindowOK'
         /\ \A n \in 1..taken : Around(n)' = Around(n)
         /\ \A n \in (taken + 1)..(taken + j) :
              Around(n)' = {f.part : f \in {g \in new : g.n = n}}
<1> USE DEF ChannelInv, StoreInv, IsNew
<1>1. /\ UNCHANGED <<base, pending, count, window, got, completed>>
      /\ base \in Ids /\ taken \in Nat /\ sent \in 0..taken /\ MaxIds \in Nat
      /\ \A m : Id(m)' = Id(m)
  BY DEF reassembler, receiver, Counters, ChannelAssumption, Id
<1>2. Counters'
  BY <1>1 DEF Counters
<1>3. \A f \in fragments : f.n \in 1..taken /\ FragmentOK(f)
  BY DEF FragmentsOK, FragmentOK
<1>4. \A f \in new : FragmentOK(f)' /\ f.part[1] = sent + 1 /\ f.n \notin 1..taken
  BY <1>1 DEF FragmentOK, Part
<1>5. FragmentsOK'
  <2>1. \A f \in fragments : FragmentOK(f)'
    BY <1>1, <1>3 DEF FragmentOK, Part
  <2>2. ASSUME NEW f \in fragments', NEW g \in fragments', f.n = g.n
        PROVE  f.via = g.via /\ f.count = g.count /\ f.part[1] = g.part[1]
               /\ (f.index = g.index => f = g)
    <3>1. CASE f \in fragments /\ g \in fragments
      BY <2>2, <3>1 DEF FragmentsOK
    <3>2. CASE f \in new /\ g \in new
      BY <1>4, <2>2, <3>2
    <3> QED
      BY <1>3, <1>4, <2>2, <3>1, <3>2
  <2> QED
    BY <1>4, <2>1, <2>2 DEF FragmentsOK
<1>6. PendingOK'
  <2>1. DOMAIN pending' \subseteq {Id(m)' : m \in 1..taken'}
    BY <1>1 DEF PendingOK
  <2>2. ASSUME NEW m \in 1..taken', Id(m)' \in DOMAIN pending'
        PROVE  EntryOK(m, pending[Id(m)])'
    <3>1. PICK d : d = pending[Id(m)]
      OBVIOUS
    <3>2. m \in 1..taken
      <4>1. PICK l \in 1..taken : Id(m) = Id(l)
        BY <1>1, <2>2 DEF PendingOK
      <4>2. m \in 0..MaxIds /\ l \in 0..MaxIds
        BY <1>1
      <4> QED
        BY <1>1, <4>1, <4>2, IdInjective
    <3>3. Id(m) \in DOMAIN pending /\ pending'[Id(m)'] = d /\ EntryOK(m, d)
      BY <1>1, <2>2, <3>1, <3>2 DEF PendingOK
    <3>4. PICK q \in 1..sent, l \in 2..MaxFragments :
            /\ PartsOK(d, q, l) /\ Fits(d, m, q, l)
            /\ \E i \in 1..l : d.parts[i] # Nothing
            /\ \E i \in 1..l : d.parts[i] = Nothing
      BY <3>3 DEF EntryOK
    <3>5. PartsOK(d, q, l)' /\ Fits(d, m, q, l)'
      BY <1>4, <3>2, <3>4 DEF PartsOK, Fits, Part, Nothing
    <3>6. EntryOK(m, d)'
      <4>1. q \in 1..sent'
        BY <1>1
      <4> QED
        BY <3>4, <3>5, <4>1 DEF EntryOK, Nothing
    <3> QED
      BY <3>3, <3>6
  <2> QED
    BY <2>1, <2>2 DEF PendingOK
<1>7. Counting' /\ WindowOK'
  BY <1>1 DEF Counting, WindowOK
<1>8. CompletedOK'
  BY <1>1, <1>4 DEF CompletedOK, Counters
<1>9. \A n \in 1..taken : Around(n)' = Around(n)
  BY <1>1, <1>4 DEF Around, Nothing
<1>10. ASSUME NEW n \in (taken + 1)..(taken + j)
       PROVE  Around(n)' = {f.part : f \in {g \in new : g.n = n}}
  <2>1. Id(n) \notin DOMAIN pending
    <3> SUFFICES ASSUME Id(n) \in DOMAIN pending PROVE FALSE
      OBVIOUS
    <3>1. PICK l \in 1..taken : Id(n) = Id(l)
      BY DEF PendingOK
    <3>2. n \in 0..MaxIds /\ l \in 0..MaxIds /\ n # l
      BY <1>1
    <3> QED
      BY <1>1, <3>1, <3>2, IdInjective
  <2>2. {g \in fragments' : g.n = n} = {g \in new : g.n = n}
    BY <1>1, <1>3
  <2> QED
    BY <1>1, <2>1, <2>2 DEF Around
<1> QED
  BY <1>2, <1>5, <1>6, <1>7, <1>8, <1>9, <1>10

\* If only the last of the new numbers can be completed, there is one attempt.
LEMMA SendCompletes ==
  ASSUME ChannelAssumption, ChannelInv, NEW j \in 1..2, NEW packet, packet = sent + 1,
         taken' = taken + j, taken' <= MaxIds, sent' = sent + 1, UNCHANGED <<got, completed>>,
         \A n \in 1..taken : Around(n)' = Around(n),
         \A n \in (taken + 1)..(taken + j) : \A x \in Around(n)' : x[1] = packet,
         \A n \in (taken + 1)..(taken + j) : CanComplete(n, packet)' => n = taken + j
  PROVE  OneAttempt' /\ HandedOnOnce'
<1> USE DEF ChannelInv, StoreInv
<1>1. taken \in Nat /\ sent \in 0..taken /\ packet \notin 1..sent /\ MaxIds \in Nat
      /\ \A l \in 1..MaxFragments : 1 \in 1..l
  BY DEF Counters, ChannelAssumption
<1>2. \A n \in 1..taken : \A p : CanComplete(n, p)' => CanComplete(n, p)
  BY LessCompletes
<1>3. ASSUME NEW n \in 1..taken, NEW p, CanComplete(n, p) PROVE p \in 1..sent
  <2>1. PICK l \in 1..MaxFragments : Part(p, 1, l) \in Around(n)
    BY <1>1, <1>3 DEF CanComplete
  <2>2. Part(p, 1, l)[1] = p
    BY DEF Part
  <2> QED
    BY <2>1, <2>2, AroundIsSent
<1>4. ASSUME NEW n \in (taken + 1)..(taken + j), NEW p, CanComplete(n, p)' PROVE p = packet
  <2>1. PICK l \in 1..MaxFragments : Part(p, 1, l) \in Around(n)'
    BY <1>1, <1>4 DEF CanComplete, Part
  <2>2. Part(p, 1, l)[1] = p
    BY DEF Part
  <2> QED
    BY <2>1, <2>2
<1>5. 1..taken' = (1..taken) \cup ((taken + 1)..(taken + j)) /\ 1..sent' = (1..sent) \cup {packet}
  BY <1>1
<1>6. OneAttempt'
  <2> SUFFICES ASSUME NEW n \in 1..taken', NEW m \in 1..taken', NEW p \in 1..sent',
                      CanComplete(n, p)', CanComplete(m, p)'
               PROVE  n = m
    BY DEF OneAttempt
  <2>1. CASE n \in 1..taken /\ m \in 1..taken
    BY <1>2, <1>3, <2>1 DEF OneAttempt
  <2>2. CASE n \notin 1..taken /\ m \notin 1..taken
    BY <1>4, <1>5, <2>2
  <2>3. CASE n \in 1..taken /\ m \notin 1..taken
    BY <1>1, <1>2, <1>3, <1>4, <1>5, <2>3
  <2>4. CASE n \notin 1..taken /\ m \in 1..taken
    BY <1>1, <1>2, <1>3, <1>4, <1>5, <2>4
  <2> QED
    BY <2>1, <2>2, <2>3, <2>4
<1>7. HandedOnOnce'
  <2>1. ASSUME NEW p \in Payloads, got'[p] = 1
        PROVE  p \in 1..sent' /\ \A n \in 1..taken' : CanComplete(n, p)' => n \in completed'
    <3>1. p \in 1..sent /\ \A n \in 1..taken : CanComplete(n, p) => n \in completed
      BY <2>1 DEF HandedOnOnce
    <3>2. p # packet
      BY <1>1, <3>1
    <3> QED
      BY <1>2, <1>4, <1>5, <3>1, <3>2
  <2> QED
    BY <2>1 DEF HandedOnOnce, Payloads
<1> QED
  BY <1>6, <1>7

LEMMA FragmentsAre ==
  ASSUME NEW via, NEW n, NEW p, NEW k
  PROVE  /\ \A f \in Fragments(via, n, p, k) :
              /\ f.via = via /\ f.n = n /\ f.count = k /\ f.index \in 1..k
              /\ f.part = Part(p, f.index, k)
         /\ \A f, g \in Fragments(via, n, p, k) : f.index = g.index => f = g
BY DEF Fragments

LEMMA SendPacketStep ==
  ASSUME ChannelAssumption, ChannelInv, SendPacket
  PROVE  ChannelInv' /\ sent' = sent + 1 /\ UNCHANGED got
<1>1. PICK via \in {"direct", "relay"}, k \in 1..MaxFragments :
        fragments' = fragments \cup Fragments(via, taken + 1, sent + 1, k)
  BY DEF SendPacket
<1>2. PICK n, packet, new :
        n = taken + 1 /\ packet = sent + 1 /\ new = Fragments(via, n, packet, k)
  OBVIOUS
<1>3. /\ fragments' = fragments \cup new
      /\ taken' = taken + 1 /\ taken' <= MaxIds /\ sent' = sent + 1 /\ taken \in Nat
      /\ UNCHANGED <<base, reassembler, receiver>> /\ UNCHANGED <<got, completed>>
  BY <1>1, <1>2 DEF SendPacket, receiver, ChannelInv, StoreInv, Counters, ChannelAssumption
<1>4. \A f \in new :
           /\ f.via \in {"direct", "relay"} /\ f.n \in (taken + 1)..(taken + 1)
           /\ f.count \in 1..MaxFragments /\ f.index \in 1..f.count
           /\ f.part = Part(sent + 1, f.index, f.count)
  BY <1>2, <1>3, FragmentsAre
<1>5. \A f, g \in new : f.n = g.n =>
           f.via = g.via /\ f.count = g.count /\ (f.index = g.index => f = g)
  BY <1>2, FragmentsAre
<1>6. /\ StoreInv' /\ WindowOK'
      /\ \A m \in 1..taken : Around(m)' = Around(m)
      /\ \A m \in (taken + 1)..(taken + 1) : Around(m)' = {f.part : f \in {g \in new : g.n = m}}
  <2>1. IsNew(new, 1)
    BY <1>4, <1>5 DEF IsNew
  <2> QED
    BY <1>3, <2>1, SendKeeps
<1>7. \A m \in (taken + 1)..(taken + 1) : \A x \in Around(m)' : x[1] = packet
  BY <1>2, <1>4, <1>6 DEF Part
<1>8. \A m \in (taken + 1)..(taken + 1) : m = taken + 1
  BY <1>3
<1>9. OneAttempt' /\ HandedOnOnce'
  BY <1>2, <1>3, <1>6, <1>7, <1>8, SendCompletes
<1> QED
  BY <1>3, <1>6, <1>9 DEF ChannelInv

\* After a fallback the direct number lacks the fragment that failed.
LEMMA SendFallbackStep ==
  ASSUME ChannelAssumption, ChannelInv, SendFallback
  PROVE  ChannelInv' /\ sent' = sent + 1 /\ UNCHANGED got
<1>1. PICK k \in 1..MaxFragments : \E failed \in 1..k :
        fragments' = fragments
          \cup {f \in Fragments("direct", taken + 1, sent + 1, k) : f.index < failed}
          \cup Fragments("relay", taken + 2, sent + 1, k)
  BY DEF SendFallback
<1>2. PICK failed \in 1..k :
        fragments' = fragments
          \cup {f \in Fragments("direct", taken + 1, sent + 1, k) : f.index < failed}
          \cup Fragments("relay", taken + 2, sent + 1, k)
  BY <1>1
<1>3. PICK n, packet, direct, relay :
        /\ n = taken + 1 /\ packet = sent + 1
        /\ direct = {f \in Fragments("direct", n, packet, k) : f.index < failed}
        /\ relay = Fragments("relay", taken + 2, packet, k)
  OBVIOUS
<1>4. PICK new : new = direct \cup relay
  OBVIOUS
<1>5. /\ fragments' = fragments \cup new
      /\ taken' = taken + 2 /\ taken' <= MaxIds /\ sent' = sent + 1 /\ taken \in Nat
      /\ UNCHANGED <<base, reassembler, receiver>> /\ UNCHANGED <<got, completed>>
  BY <1>2, <1>3, <1>4
  DEF SendFallback, receiver, ChannelInv, StoreInv, Counters, ChannelAssumption
<1>6. /\ \A f \in direct :
           /\ f.via = "direct" /\ f.n = n /\ f.count = k
           /\ f.index \in 1..k /\ f.index < failed /\ f.part = Part(packet, f.index, k)
      /\ \A f, g \in direct : f.index = g.index => f = g
  BY <1>3, FragmentsAre
<1>7. /\ \A f \in relay :
           /\ f.via = "relay" /\ f.n = taken + 2 /\ f.count = k
           /\ f.index \in 1..k /\ f.part = Part(packet, f.index, k)
      /\ \A f, g \in relay : f.index = g.index => f = g
  BY <1>3, FragmentsAre
<1>8. /\ \A f \in new :
           /\ f.via \in {"direct", "relay"} /\ f.n \in (taken + 1)..(taken + 2)
           /\ f.count \in 1..MaxFragments /\ f.index \in 1..f.count
           /\ f.part = Part(sent + 1, f.index, f.count)
      /\ \A f \in new : f.n = n => f \in direct
  BY <1>3, <1>4, <1>5, <1>6, <1>7
<1>9. \A f, g \in new : f.n = g.n =>
           f.via = g.via /\ f.count = g.count /\ (f.index = g.index => f = g)
  BY <1>3, <1>4, <1>5, <1>6, <1>7
<1>10. /\ StoreInv' /\ WindowOK'
       /\ \A m \in 1..taken : Around(m)' = Around(m)
       /\ \A m \in (taken + 1)..(taken + 2) : Around(m)' = {f.part : f \in {g \in new : g.n = m}}
  <2>1. IsNew(new, 2)
    BY <1>8, <1>9 DEF IsNew
  <2> QED
    BY <1>5, <2>1, SendKeeps
<1>11. \A m \in (taken + 1)..(taken + 2) : \A x \in Around(m)' : x[1] = packet
  BY <1>3, <1>8, <1>10 DEF Part
<1>12. ~CanComplete(n, packet)'
  <2> SUFFICES ASSUME CanComplete(n, packet)' PROVE FALSE
    OBVIOUS
  <2>1. PICK l \in 1..MaxFragments : \A i \in 1..l : Part(packet, i, l) \in Around(n)'
    BY DEF CanComplete, Part
  <2>2. Around(n)' = {f.part : f \in {g \in new : g.n = n}}
    BY <1>3, <1>5, <1>10
  <2>3. \A x \in Around(n)' : \E i \in 1..k : i < failed /\ x = Part(packet, i, k)
    BY <1>6, <1>8, <2>2
  <2>4. l = k
    <3>1. Part(packet, 1, l) \in Around(n)'
      BY <2>1 DEF ChannelAssumption
    <3> QED
      BY <2>3, <3>1 DEF Part
  <2>5. Part(packet, failed, k) \in Around(n)'
    BY <2>1, <2>4
  <2>6. PICK i \in 1..k : i < failed /\ Part(packet, failed, k) = Part(packet, i, k)
    BY <2>3, <2>5
  <2> QED
    BY <2>6 DEF Part
<1>13. \A m \in (taken + 1)..(taken + 2) : CanComplete(m, packet)' => m = taken + 2
  BY <1>3, <1>5, <1>12
<1>14. OneAttempt' /\ HandedOnOnce'
  BY <1>3, <1>5, <1>10, <1>11, <1>13, SendCompletes
<1> QED
  BY <1>5, <1>10, <1>14 DEF ChannelInv

-----------------------------------------------------------------------------
(* Theorems.                                                               *)

LEMMA StepKeeps ==
  ASSUME ChannelAssumption, ChannelInv, [ChannelNext]_channelVars
  PROVE  /\ ChannelInv'
         /\ Handed \/ UNCHANGED <<sent, got>> \/ (sent' = sent + 1 /\ UNCHANGED got)
<1>1. CASE SendPacket
  BY <1>1, SendPacketStep
<1>2. CASE SendFallback
  BY <1>2, SendFallbackStep
<1>3. CASE Receive
  BY <1>3, ReceiveStep
<1>4. CASE LoseFragment \/ Expire \/ Stop \/ OtherSessions
  BY <1>4, QuietStep
<1>5. CASE UNCHANGED channelVars
  <2>1. UNCHANGED <<base, taken, sent, fragments, window, pending, count, got, completed>>
    BY <1>5 DEF channelVars, sender, reassembler, receiver
  <2>2. Less /\ Counting'
    BY <2>1 DEF Less, ChannelInv, StoreInv, Counting
  <2> QED
    BY <2>1, <2>2, LessKeeps
<1> QED
  BY <1>1, <1>2, <1>3, <1>4, <1>5 DEF ChannelNext

\* For any width of the identifiers and of the window the replay window knows which
\* of the latest identifiers were completed, through the wrap of the counter and in
\* any order of completion (replay.go:25-58).
THEOREM WindowIsExact == ASSUME ChannelAssumption PROVE ChannelSpec => []WindowRemembers
<1>1. ChannelInit => ChannelInv
  BY InitEstablishes
<1>2. ChannelInv /\ [ChannelNext]_channelVars => ChannelInv'
  BY StepKeeps
<1>3. ChannelInv => WindowRemembers
  BY WindowIsTheProperty DEF ChannelInv, StoreInv
<1> QED
  BY <1>1, <1>2, <1>3, PTL DEF ChannelSpec

\* The reassembler holds unfinished packets only, none of a number the window has
\* completed, and its count is theirs, within the limit, whatever is lost, repeated,
\* expired or stopped (reassembly.go:96-209).
THEOREM ReassemblyIsUnfinished == ASSUME ChannelAssumption PROVE ChannelSpec => []PendingIsUnfinished
<1>1. ChannelInit => ChannelInv
  BY InitEstablishes
<1>2. ChannelInv /\ [ChannelNext]_channelVars => ChannelInv'
  BY StepKeeps
<1>3. ChannelInv => PendingIsUnfinished
  <2> SUFFICES ASSUME ChannelInv PROVE PendingIsUnfinished
    OBVIOUS
  <2>1. ASSUME NEW id \in DOMAIN pending
        PROVE  /\ \E i \in DOMAIN pending[id].parts : pending[id].parts[i] = Nothing
               /\ \A n \in completed : Id(n) # id
    <3>1. PICK n \in 1..taken : id = Id(n)
      BY DEF ChannelInv, StoreInv, PendingOK
    <3>2. PICK p \in 1..sent, k \in 2..MaxFragments :
            PartsOK(pending[id], p, k) /\ \E i \in 1..k : pending[id].parts[i] = Nothing
      BY <3>1 DEF ChannelInv, StoreInv, PendingOK, EntryOK
    <3>3. DOMAIN pending[id].parts = 1..k
      BY <3>2 DEF PartsOK
    <3> QED
      BY <3>2, <3>3 DEF ChannelInv, StoreInv, CompletedOK
  <2> QED
    BY <2>1 DEF PendingIsUnfinished, ChannelInv, StoreInv, Counting
<1> QED
  BY <1>1, <1>2, <1>3, PTL DEF ChannelSpec

\* The channel implements PacketChannel: a packet that comes out of it was sent, is
\* whole and comes out once, for any number of fragments and packets that fits into
\* half of the identifiers, whatever the two paths do (manager.go:281-426,
\* client.go:566-576).
THEOREM ChannelKeepsThePromise == ASSUME ChannelAssumption PROVE ChannelSpec => ImplementsPacketChannel
<1>1. ChannelInit => ChannelInv /\ Promise!Init
  BY InitEstablishes DEF ChannelInit, Promise!Init
<1>2. ChannelInv /\ [ChannelNext]_channelVars => ChannelInv' /\ [Promise!Next]_<<sent, got>>
  <2> SUFFICES ASSUME ChannelInv, [ChannelNext]_channelVars
               PROVE  ChannelInv' /\ [Promise!Next]_<<sent, got>>
    OBVIOUS
  <2>1. /\ ChannelInv'
        /\ Handed \/ UNCHANGED <<sent, got>> \/ (sent' = sent + 1 /\ UNCHANGED got)
    BY StepKeeps
  <2>2. CASE Handed
    <3>1. PICK p \in 1..sent : got[p] = 0 /\ got' = [got EXCEPT ![p] = 1] /\ UNCHANGED sent
      BY <2>2 DEF Handed
    <3>2. p \in Payloads
      BY DEF ChannelInv, StoreInv, Counters, Payloads, ChannelAssumption
    <3> QED
      BY <2>1, <3>1, <3>2 DEF Promise!Next, Promise!Deliver
  <2>3. CASE sent' = sent + 1 /\ UNCHANGED got
    BY <2>1, <2>3 DEF Promise!Next, Promise!Send
  <2> QED
    BY <2>1, <2>2, <2>3
<1> QED
  BY <1>1, <1>2, PTL DEF ChannelSpec, ImplementsPacketChannel, Promise!Spec
=============================================================================
