-------------------------------- MODULE Budget --------------------------------
(***************************************************************************)
(* What internal/flow promises a session, without the bucket: every        *)
(* stretch of time that ends now has a budget, the burst and what the rate *)
(* earns in it, and an event may pass exactly when no budget is overdrawn  *)
(* by it.                                                                  *)
(***************************************************************************)
EXTENDS Integers

CONSTANTS Unit,    \* fractions in a token, the price of an event
          MaxTime  \* bound: clock

VARIABLES policy,  \* rate and burst of the session
          clock,
          spent,   \* fractions the events that passed have cost
          before,  \* what was spent before each time
          outcome  \* the last answer at this time, or "none"

budgetVars == <<policy, clock, spent, before, outcome>>

NothingSpent == [t \in 0..MaxTime |-> 0]

Init ==
  /\ policy \in [rate : Nat \ {0}, burst : Nat \ {0}]
  /\ clock = 0 /\ spent = 0 /\ outcome = "none"
  /\ before = NothingSpent

HasRoom ==
  \A t \in 0..clock :
    spent + Unit - before[t] <= policy.burst * Unit + policy.rate * (clock - t)

Pass ==
  /\ HasRoom
  /\ spent' = spent + Unit /\ outcome' = "passed"
  /\ UNCHANGED <<policy, clock, before>>

Refuse ==
  /\ ~HasRoom
  /\ outcome' = "limited"
  /\ UNCHANGED <<policy, clock, spent, before>>

\* A reconnect starts the session's account anew.
Reset ==
  /\ spent' = 0 /\ before' = NothingSpent /\ outcome' = "none"
  /\ UNCHANGED <<policy, clock>>

Tick ==
  /\ clock < MaxTime
  /\ clock' = clock + 1
  /\ before' = [before EXCEPT ![clock + 1] = spent]
  /\ outcome' = "none"
  /\ UNCHANGED <<policy, spent>>

Next == Pass \/ Refuse \/ Reset \/ Tick

Spec == Init /\ [][Next]_budgetVars
===============================================================================
