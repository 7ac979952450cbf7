----------------------------- MODULE MCSignaling -----------------------------
\* Instances of Signaling for TLC: connections are model values.
EXTENDS Signaling, TLC

\* Controller connections differ in nothing.
Symmetry == Permutations(Controllers)
=============================================================================
