------------------------------ MODULE MCLimiter ------------------------------
(* Small instances of Limiter for TLC. *)
EXTENDS Limiter

Policy(r, b) == [rate |-> r, burst |-> b]

\* Below one token per unit of time, above it, and two that Validate rejects.
SomePolicies == {Policy(2, 2), Policy(5, 1), Policy(0, 3), Policy(4, 0)}
Conservative == Policy(1, 3)
===============================================================================
