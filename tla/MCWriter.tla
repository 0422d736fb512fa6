------------------------------- MODULE MCWriter -------------------------------
(* Small instances of Writer for TLC. *)
EXTENDS Writer, TLC

CONSTANTS s1, s2, c1, c2, e1, e2, e3

\* Callers are interchangeable; the events are not permuted, because the
\* properties are about their order.
CallerSymmetry == Permutations(Senders) \cup Permutations(Closers)
===============================================================================
