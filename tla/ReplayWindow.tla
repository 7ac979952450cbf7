----------------------------- MODULE ReplayWindow -----------------------------
(***************************************************************************)
(* udp.ReplayWindow: which packet identifiers have been completed.         *)
(* Identifiers are unsigned integers of a fixed width (IdSpace = 2^32 in   *)
(* the code) compared as serial numbers; the bitmap (WindowSize = 64 bits) *)
(* is the set of its one bits, bit b standing for highest - b.             *)
(***************************************************************************)
EXTENDS Integers

CONSTANTS IdSpace, WindowSize

Ids == 0..(IdSpace - 1)

Fresh == [initialized |-> FALSE, highest |-> 0, bitmap |-> {}]

\* int32(packetID - w.highest): the difference modulo IdSpace as a signed number.
Delta(id, highest) ==
  LET d == (id - highest) % IdSpace
  IN IF d < IdSpace \div 2 THEN d ELSE d - IdSpace

\* Seen: completed already, or too old to know.
Seen(w, id) ==
  LET behind == -Delta(id, w.highest)
  IN /\ w.initialized
     /\ behind >= 0
     /\ behind >= WindowSize \/ behind \in w.bitmap

\* w.bitmap << shift; the bits shifted out are lost.
ShiftLeft(bitmap, shift) ==
  {b + shift : b \in {c \in bitmap : c + shift < WindowSize}}

\* Mutant of Completed: the bit of the new highest identifier is not set.
CompletedForgets(w, id) ==
  LET delta == Delta(id, w.highest) IN
  IF ~w.initialized THEN [initialized |-> TRUE, highest |-> id, bitmap |-> {0}]
  ELSE IF delta > 0 THEN [w EXCEPT !.highest = id, !.bitmap = ShiftLeft(w.bitmap, delta)]
  ELSE IF -delta < WindowSize THEN [w EXCEPT !.bitmap = @ \cup {-delta}]
  ELSE w

\* MarkCompleted, the window it leaves behind.
Completed(w, id) ==
  LET delta == Delta(id, w.highest) IN
  IF ~w.initialized THEN [initialized |-> TRUE, highest |-> id, bitmap |-> {0}]
  ELSE IF delta > 0 THEN [w EXCEPT !.highest = id, !.bitmap = ShiftLeft(w.bitmap, delta) \cup {0}]
  ELSE IF -delta < WindowSize THEN [w EXCEPT !.bitmap = @ \cup {-delta}]
  ELSE w
=============================================================================
