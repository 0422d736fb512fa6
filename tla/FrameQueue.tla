------------------------------ MODULE FrameQueue ------------------------------
(***************************************************************************)
(* What a session's write queue promises to its callers, with no goroutine *)
(* and no lock in sight: events are accepted one after the other, frames   *)
(* leave on the transport in exactly that order, each at most once, and    *)
(* nothing is accepted and nothing leaves after the release.  Module       *)
(* Writer implements it.                                                   *)
(***************************************************************************)
EXTENDS Naturals, Sequences

CONSTANT Events

VARIABLES accepted,   \* events taken into the queue, in order
          wire,       \* frames the transport has taken, in order
          released    \* no more sends, no more frames

fqVars == <<accepted, wire, released>>

Init ==
  /\ accepted = <<>>
  /\ wire = <<>>
  /\ released = FALSE

Accept(e) ==
  /\ ~released
  /\ accepted' = Append(accepted, e)
  /\ UNCHANGED <<wire, released>>

Emit ==
  /\ ~released
  /\ Len(wire) < Len(accepted)
  /\ wire' = Append(wire, accepted[Len(wire) + 1])
  /\ UNCHANGED <<accepted, released>>

Release ==
  /\ released' = TRUE
  /\ UNCHANGED <<accepted, wire>>

Next ==
  \/ \E e \in Events : Accept(e)
  \/ Emit
  \/ Release

Spec == Init /\ [][Next]_fqVars
===============================================================================
