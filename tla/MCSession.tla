------------------------------- MODULE MCSession ------------------------------
(* Small instances of Session for TLC. *)
EXTENDS Session, TLC

CONSTANTS c1, c2

ConnSymmetry == Permutations(Conns)
===============================================================================
