--------------------------- MODULE MCRelayRegistry ---------------------------
\* Instances of RelayRegistry for TLC: connections and devices are model values.
EXTENDS RelayRegistry, TLC

\* Connections only differ by the device they authenticate as, and devices only
\* by their ports.
Symmetry == Permutations(Conns) \cup Permutations(Devices)
==============================================================================
