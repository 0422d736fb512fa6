-------------------------------- MODULE Limiter --------------------------------
(***************************************************************************)
(* internal/flow: the token bucket of one session.  Tokens are counted in  *)
(* fractions of which Unit make one token, so that a rate adds a whole     *)
(* number of them per unit of clock; float64 rounding is left out.         *)
(***************************************************************************)
EXTENDS Integers

CONSTANTS Policies,       \* configurations a session may be given
          DefaultPolicy,  \* flow.DefaultPolicy()
          Unit,           \* fractions in a token
          None,           \* the zero time of a bucket never used
          MaxTime         \* bound: clock

Valid(p) == p.rate > 0 /\ p.burst > 0

ASSUME PolicyAssumption == /\ Policies \subseteq [rate : Int, burst : Int]
                           /\ DefaultPolicy \in [rate : Int, burst : Int]
                           /\ Valid(DefaultPolicy)
ASSUME UnitAssumption == Unit \in Nat \ {0}
ASSUME ClockAssumption == MaxTime \in Nat /\ None \notin Nat

VARIABLES limiter,  \* its validated policy
          bucket,   \* its entry for the session
          clock,    \* time.Now()
          spent,    \* history: fractions this limiter has let pass
          before,   \* history: what was spent before each time
          outcome   \* history: the last answer at this time, or "none"

vars == <<limiter, bucket, clock, spent, before, outcome>>

NewLimiter(p) == IF Valid(p) THEN p ELSE DefaultPolicy
NewBucket == [tokens |-> 0, seen |-> None]

Init == /\ \E p \in Policies : limiter = NewLimiter(p)
        /\ bucket = NewBucket
        /\ clock = 0 /\ spent = 0 /\ outcome = "none"
        /\ before = [t \in 0..MaxTime |-> 0]

Full == limiter.burst * Unit
Earned(t) == limiter.rate * t

\* Variant: the refill is rounded down to whole tokens.
RefillRounded ==
  LET more == bucket.tokens + (Earned(clock - bucket.seen) \div Unit) * Unit
  IN  IF bucket.seen = None THEN Full ELSE IF more > Full THEN Full ELSE more

Refill == LET more == bucket.tokens + Earned(clock - bucket.seen)
          IN  IF bucket.seen = None THEN Full ELSE IF more > Full THEN Full ELSE more

\* Variant: any fraction of a token is enough.
EnoughRest(tokens) == tokens > 0

Enough(tokens) == tokens >= Unit

\* Variant: a refusal keeps what it refilled but not the time it did.
AllowKeepsSeen ==
  LET cost == IF Enough(Refill) THEN Unit ELSE 0
  IN  /\ bucket' = [tokens |-> Refill - cost,
                    seen |-> IF cost = 0 THEN bucket.seen ELSE clock]
      /\ spent' = spent + cost
      /\ outcome' = IF cost = 0 THEN "limited" ELSE "passed"
      /\ UNCHANGED <<limiter, clock, before>>

Allow == LET cost == IF Enough(Refill) THEN Unit ELSE 0
         IN  /\ bucket' = [tokens |-> Refill - cost, seen |-> clock]
             /\ spent' = spent + cost
             /\ outcome' = IF cost = 0 THEN "limited" ELSE "passed"
             /\ UNCHANGED <<limiter, clock, before>>

\* Session.Reconnect gives the session a new limiter from the same policy.
Reconnect == /\ bucket' = NewBucket
             /\ spent' = 0 /\ outcome' = "none"
             /\ before' = [t \in 0..MaxTime |-> 0]
             /\ UNCHANGED <<limiter, clock>>

Tick == /\ clock < MaxTime
        /\ clock' = clock + 1
        /\ before' = [before EXCEPT ![clock + 1] = spent]
        /\ outcome' = "none"
        /\ UNCHANGED <<limiter, bucket, spent>>

Next == Allow \/ Reconnect \/ Tick

Spec == Init /\ [][Next]_vars

-------------------------------------------------------------------------------

\* The bucket holds no debt and no more than the burst, whatever was configured.
TypeOK == /\ limiter \in [rate : Int, burst : Int] /\ Valid(limiter)
          /\ bucket \in [tokens : 0..Full, seen : Nat \cup {None}]
          /\ clock \in 0..MaxTime /\ spent \in Nat
          /\ before \in [0..MaxTime -> Nat]
          /\ bucket.seen # None => bucket.seen <= clock
          /\ outcome \in {"none", "passed", "limited"}

\* In no stretch of time does a session send more than the burst and what the
\* rate earns in that time, though the bucket is refilled only when it is used
\* (limiter.go:41-51) and calls that are refused move its clock too.
NeverOverBudget ==
  \A t \in 0..clock : spent - before[t] <= Full + Earned(clock - t)

\* And no send is refused without cause: one more would have gone over the
\* budget of some stretch of time that ends now.  Refusals lose no fraction.
RefusedOnlyWhenSpent ==
  outcome = "limited" =>
    \E t \in 0..clock : spent - before[t] + Unit > Full + Earned(clock - t)

Account == INSTANCE Budget WITH policy <- limiter

\* limiter.go:37-58: one number and one time per session, looked at only when the
\* session sends, decide every event as the budgets of all stretches of time would.
ImplementsBudget == Account!Spec
===============================================================================
