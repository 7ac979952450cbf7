----------------------------- MODULE PacketChannel -----------------------------
(***************************************************************************)
(* What carrying UDP over RDPulse promises to mstsc and termsrv: a packet  *)
(* that is handed over arrives whole and at most once, or not at all, in   *)
(* any order.                                                              *)
(***************************************************************************)
EXTENDS Naturals

CONSTANT Payloads  \* packets that are ever handed over, and what is none of them

VARIABLES sent,    \* how many packets have been handed over: 1..sent
          got      \* how often each of them came out at the other end

Init == sent = 0 /\ got = [p \in Payloads |-> 0]

Send == sent' = sent + 1 /\ UNCHANGED got

Deliver(p) ==
  /\ p \in 1..sent /\ got[p] = 0
  /\ got' = [got EXCEPT ![p] = 1]
  /\ UNCHANGED sent

Next == Send \/ \E p \in Payloads : Deliver(p)

Spec == Init /\ [][Next]_<<sent, got>>
=============================================================================
