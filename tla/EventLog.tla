------------------------------- MODULE EventLog --------------------------------
(***************************************************************************)
(* What internal/event and internal/publish promise a client between them, *)
(* without the ring, the sequence counter, the cursors and the locks: a    *)
(* log that only ever gets longer, in which an event has one place, and    *)
(* whose places are what the clients are told.                             *)
(***************************************************************************)
EXTENDS Naturals, Sequences

CONSTANT Events   \* what clients may ask to publish

VARIABLES visible,  \* the events a replay from the start returns, in order
          told      \* the events whose publication was confirmed to the client

logVars == <<visible, told>>

Init ==
  /\ visible = <<>>
  /\ told = {}

\* A longer log that begins with what was there, with every event once.
Extension(log, longer) ==
  /\ longer \in Seq(Events)
  /\ Len(longer) > Len(log)
  /\ \A i \in 1..Len(log) : longer[i] = log[i]
  /\ \A i, j \in 1..Len(longer) : longer[i] = longer[j] => i = j

\* One commit may bring several events to sight: those that were appended before
\* the committed one and have not been committed themselves, or never will be.
Reveal ==
  /\ Extension(visible, visible')
  /\ UNCHANGED told

\* A client hears of an event only after every replay returns it.
Tell(e) ==
  /\ \E i \in 1..Len(visible) : visible[i] = e
  /\ e \notin told
  /\ told' = told \cup {e}
  /\ UNCHANGED visible

Next == Reveal \/ \E e \in Events : Tell(e)

Spec == Init /\ [][Next]_logVars
===============================================================================
