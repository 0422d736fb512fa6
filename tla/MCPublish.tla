------------------------------- MODULE MCPublish -------------------------------
(* Small instances of Publish for TLC. *)
EXTENDS Publish, TLC

CONSTANTS p1, p2, p3, p4, p5

RequestSymmetry == Permutations(Requests \ BadRequests)
===============================================================================
