------------------------------- MODULE MCFanout -------------------------------
(* Small instances of Fanout, and with it of Topics, for TLC. *)
EXTENDS Fanout, TLC

CONSTANTS s1, s2, h1, d1, d2

\* A topic and the one above it.
Parent == <<"device">>
Leaf   == <<"device", "a">>

OneTopic   == {Leaf}
TwoTopics  == {Parent, Leaf}
OnlyParent == {Parent}

FanoutSymmetry == Permutations(Sessions) \cup Permutations(Dispatchers)
===============================================================================
