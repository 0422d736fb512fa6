----------------------------- MODULE MCHeartbeat -----------------------------
EXTENDS Heartbeat, TLC
Symmetry == Permutations(Sess) \cup Permutations(Conns)
===============================================================================
