----------------------------- MODULE LimiterProofs -----------------------------
(***************************************************************************)
(* Proofs about Limiter, for any set of policies and any unit: the bucket  *)
(* that is refilled only when it is used keeps exactly the budget of every *)
(* stretch of time.                                                        *)
(***************************************************************************)
EXTENDS Limiter, TLAPS

\* Nothing was spent before the first use, nor since the last one.
HistoryOK ==
  /\ \A t \in 0..clock : before[t] <= spent
  /\ bucket.seen = None => spent = 0
  /\ bucket.seen # None => \A t \in 0..clock : t > bucket.seen => before[t] = spent

\* What is left in the bucket fits into the budget of every stretch of time that
\* ends with its last use,
TokensWithin ==
  bucket.seen # None =>
    \A t \in 0..bucket.seen :
      bucket.tokens + (spent - before[t]) <= Full + Earned(bucket.seen - t)

\* and fills the budget of one of them.
TokensFill ==
  bucket.seen # None =>
    \E t \in 0..bucket.seen :
      bucket.tokens + (spent - before[t]) >= Full + Earned(bucket.seen - t)

RefusalIsFresh == outcome = "limited" => bucket.seen = clock /\ bucket.tokens < Unit

LimiterInv == TypeOK /\ HistoryOK /\ TokensWithin /\ TokensFill /\ RefusalIsFresh
-------------------------------------------------------------------------------
\* What is earned is a natural number, and adds up over adjoining times.
LEMMA EarnedAdds ==
  ASSUME TypeOK
  PROVE  /\ limiter.rate \in Nat /\ limiter.burst \in Nat
         /\ Full \in Nat /\ Full >= Unit
         /\ \A t \in Nat : Earned(t) \in Nat
         /\ \A t, u \in Nat : Earned(t + u) = Earned(t) + Earned(u)
<1>1. /\ limiter.rate \in Nat /\ limiter.burst \in Nat
      /\ limiter.rate > 0 /\ limiter.burst > 0
  BY DEF TypeOK, Valid
<1>2. Full \in Nat /\ Full >= Unit
  BY <1>1, UnitAssumption DEF Full
<1>3. \A t \in Nat : Earned(t) \in Nat
  BY <1>1 DEF Earned
<1>4. \A t, u \in Nat : Earned(t + u) = Earned(t) + Earned(u)
  BY <1>1 DEF Earned
<1> QED
  BY <1>1, <1>2, <1>3, <1>4

\* The refill: never above the burst, never above what the time since the last
\* use earned, and one of the two exactly.
LEMMA RefillIs ==
  ASSUME TypeOK
  PROVE  /\ Refill \in 0..Full
         /\ bucket.seen = None => Refill = Full
         /\ bucket.seen # None =>
              /\ clock - bucket.seen \in Nat
              /\ Refill <= bucket.tokens + Earned(clock - bucket.seen)
              /\ Refill = Full \/ Refill = bucket.tokens + Earned(clock - bucket.seen)
<1>1. Full \in Nat /\ bucket.tokens \in 0..Full
  BY EarnedAdds DEF TypeOK
<1>2. CASE bucket.seen = None
  BY <1>1, <1>2 DEF Refill
<1>3. CASE bucket.seen # None
  <2>1. clock - bucket.seen \in Nat
    BY <1>3, ClockAssumption DEF TypeOK
  <2>2. Earned(clock - bucket.seen) \in Nat
    BY <2>1, EarnedAdds
  <2> QED
    BY <1>1, <1>3, <2>1, <2>2 DEF Refill
<1> QED
  BY <1>2, <1>3

\* The types of what the budget of a stretch of time is reckoned from.
LEMMA Types ==
  ASSUME TypeOK
  PROVE  /\ clock \in Nat /\ clock \in 0..MaxTime /\ clock # None /\ spent \in Nat
         /\ bucket.tokens \in Nat /\ bucket.seen \in Nat \cup {None}
         /\ bucket.seen # None => bucket.seen \in 0..clock
         /\ \A t \in 0..clock : before[t] \in Nat /\ clock - t \in Nat
         /\ \A t \in 0..clock : Earned(clock - t) \in Nat
<1>1. Full \in Nat
  BY EarnedAdds
<1>2. /\ clock \in Nat /\ clock \in 0..MaxTime /\ clock # None /\ spent \in Nat
      /\ bucket.tokens \in Nat /\ bucket.seen \in Nat \cup {None}
      /\ bucket.seen # None => bucket.seen \in 0..clock
      /\ \A t \in 0..clock : before[t] \in Nat /\ clock - t \in Nat
  BY <1>1, ClockAssumption DEF TypeOK
<1>3. \A t \in 0..clock : Earned(clock - t) \in Nat
  BY <1>2, EarnedAdds
<1> QED
  BY <1>2, <1>3
-------------------------------------------------------------------------------
LEMMA InitInv == Init => LimiterInv
<1> SUFFICES ASSUME Init PROVE LimiterInv
  OBVIOUS
<1>1. limiter \in [rate : Int, burst : Int] /\ Valid(limiter)
  BY PolicyAssumption DEF Init, NewLimiter
<1>2. Full \in Nat
  BY <1>1, UnitAssumption DEF Full, Valid
<1>3. TypeOK
  BY <1>1, <1>2, ClockAssumption DEF Init, TypeOK, NewBucket
<1> QED
  BY <1>3, ClockAssumption DEF Init, NewBucket, LimiterInv, HistoryOK, TokensWithin,
     TokensFill, RefusalIsFresh

\* A use of the bucket, whether it lets an event pass or not.
LEMMA AllowKeeps ==
  ASSUME LimiterInv, Allow
  PROVE  LimiterInv'
<1> DEFINE cost == IF Enough(Refill) THEN Unit ELSE 0
<1>0. TypeOK /\ HistoryOK /\ TokensWithin /\ TokensFill
  BY DEF LimiterInv
<1>1. /\ bucket' = [tokens |-> Refill - cost, seen |-> clock]
      /\ spent' = spent + cost /\ outcome' = IF cost = 0 THEN "limited" ELSE "passed"
      /\ limiter' = limiter /\ clock' = clock /\ before' = before
  BY DEF Allow
<1>2. /\ Refill \in 0..Full /\ Full \in Nat /\ cost \in 0..Refill /\ cost \in Nat
      /\ clock \in Nat /\ spent \in Nat /\ clock # None /\ clock \in 0..MaxTime
      /\ cost = 0 => Refill < Unit
  <2>1. Refill \in 0..Full /\ Full \in Nat /\ Unit \in Nat /\ Unit > 0
    BY <1>0, EarnedAdds, RefillIs, UnitAssumption
  <2>2. cost \in 0..Refill /\ cost \in Nat /\ (cost = 0 => Refill < Unit)
    BY <2>1 DEF Enough
  <2>3. clock \in Nat /\ spent \in Nat /\ clock # None /\ clock \in 0..MaxTime
    BY <1>0, Types
  <2> QED
    BY <2>1, <2>2, <2>3
<1> HIDE DEF cost
<1>3. Full' = Full /\ \A t : Earned(t)' = Earned(t)
  BY <1>1 DEF Full, Earned
<1>4. /\ bucket'.tokens = Refill - cost /\ bucket'.seen = clock
      /\ \A t \in 0..clock :
           /\ before[t] \in Nat /\ before[t] <= spent /\ Earned(clock - t) \in Nat
           /\ bucket'.tokens + (spent' - before[t]) = Refill + (spent - before[t])
  <2>1. \A t \in 0..clock :
          before[t] \in Nat /\ before[t] <= spent /\ Earned(clock - t) \in Nat
    BY <1>0, Types DEF HistoryOK
  <2> QED
    BY <1>1, <1>2, <2>1
<1>5. TypeOK'
  BY <1>0, <1>1, <1>2, <1>3, <1>4 DEF TypeOK, Valid
<1>6. HistoryOK'
  BY <1>1, <1>2, <1>4 DEF HistoryOK
<1>7. TokensWithin'
  <2> SUFFICES ASSUME NEW t \in 0..clock
               PROVE  Refill + (spent - before[t]) <= Full + Earned(clock - t)
    BY <1>1, <1>3, <1>4 DEF TokensWithin
  <2>1. before[t] \in Nat /\ before[t] <= spent /\ Earned(clock - t) \in Nat
    BY <1>4
  <2>2. CASE bucket.seen = None
    BY <1>0, <1>2, <2>1, <2>2 DEF HistoryOK
  <2>3. CASE bucket.seen # None /\ t > bucket.seen
    BY <1>0, <1>2, <2>1, <2>3 DEF HistoryOK
  <2>4. CASE bucket.seen # None /\ ~(t > bucket.seen)
    <3>1. /\ bucket.seen \in Nat /\ bucket.seen - t \in Nat /\ clock - bucket.seen \in Nat
          /\ t \in 0..bucket.seen /\ bucket.tokens \in Nat
      BY <1>0, <2>4, Types
    <3>2. /\ Earned(clock - t) = Earned(bucket.seen - t) + Earned(clock - bucket.seen)
          /\ Earned(bucket.seen - t) \in Nat /\ Earned(clock - bucket.seen) \in Nat
      <4>1. clock - t = (bucket.seen - t) + (clock - bucket.seen)
        BY <1>2, <3>1
      <4> QED
        BY <1>0, <3>1, <4>1, EarnedAdds
    <3>3. bucket.tokens + (spent - before[t]) <= Full + Earned(bucket.seen - t)
      BY <1>0, <2>4, <3>1 DEF TokensWithin
    <3>4. Refill <= bucket.tokens + Earned(clock - bucket.seen)
      BY <1>0, <2>4, RefillIs
    <3> QED
      BY <1>2, <2>1, <3>1, <3>2, <3>3, <3>4
  <2> QED
    BY <2>2, <2>3, <2>4
<1>8. TokensFill'
  <2> SUFFICES \E t \in 0..clock : Refill + (spent - before[t]) >= Full + Earned(clock - t)
    BY <1>1, <1>3, <1>4 DEF TokensFill
  <2>1. CASE Refill = Full
    <3>1. Earned(clock - clock) = 0
      <4>1. clock - clock = 0 /\ limiter.rate \in Nat
        BY <1>0, <1>2, EarnedAdds
      <4> QED
        BY <4>1 DEF Earned
    <3>2. before[clock] \in Nat /\ before[clock] <= spent /\ clock \in 0..clock
      BY <1>2, <1>4
    <3> QED
      BY <1>2, <2>1, <3>1, <3>2
  <2>2. CASE Refill # Full
    <3>1. /\ bucket.seen # None /\ clock - bucket.seen \in Nat
          /\ Refill = bucket.tokens + Earned(clock - bucket.seen)
      BY <1>0, <2>2, RefillIs
    <3>2. PICK t \in 0..bucket.seen :
            bucket.tokens + (spent - before[t]) >= Full + Earned(bucket.seen - t)
      BY <1>0, <3>1 DEF TokensFill
    <3>3. /\ bucket.seen \in Nat /\ bucket.seen - t \in Nat /\ t \in 0..clock
          /\ bucket.tokens \in Nat /\ before[t] \in Nat
      BY <1>0, <3>1, <3>2, Types
    <3>4. /\ Earned(clock - t) = Earned(bucket.seen - t) + Earned(clock - bucket.seen)
          /\ Earned(bucket.seen - t) \in Nat /\ Earned(clock - bucket.seen) \in Nat
      <4>1. clock - t = (bucket.seen - t) + (clock - bucket.seen)
        BY <1>2, <3>3
      <4> QED
        BY <1>0, <3>1, <3>3, <4>1, EarnedAdds
    <3>5. Refill + (spent - before[t]) >= Full + Earned(clock - t)
      BY <1>2, <3>1, <3>2, <3>3, <3>4
    <3> QED
      BY <3>3, <3>5
  <2> QED
    BY <2>1, <2>2
<1>9. RefusalIsFresh'
  BY <1>1, <1>2, <1>4 DEF RefusalIsFresh
<1> QED
  BY <1>5, <1>6, <1>7, <1>8, <1>9 DEF LimiterInv

LEMMA NextInv == LimiterInv /\ [Next]_vars => LimiterInv'
<1> SUFFICES ASSUME LimiterInv, [Next]_vars PROVE LimiterInv'
  OBVIOUS
<1>0. TypeOK /\ HistoryOK /\ TokensWithin /\ TokensFill /\ RefusalIsFresh
  BY DEF LimiterInv
<1>1. CASE Allow
  BY <1>1, AllowKeeps
<1>2. CASE Reconnect
  <2>1. Full' = Full /\ Full \in Nat
    BY <1>0, <1>2, EarnedAdds DEF Reconnect, Full
  <2>2. TypeOK'
    BY <1>0, <1>2, <2>1 DEF Reconnect, NewBucket, TypeOK, Valid
  <2> QED
    BY <1>0, <1>2, <2>2, ClockAssumption DEF Reconnect, NewBucket, LimiterInv, TypeOK,
       HistoryOK, TokensWithin, TokensFill, RefusalIsFresh
<1>3. CASE Tick
  <2>1. /\ Full' = Full /\ \A t : Earned(t)' = Earned(t)
    BY <1>3 DEF Tick, Full, Earned
  <2>2. TypeOK'
    BY <1>0, <1>3, <2>1, ClockAssumption DEF Tick, TypeOK, Valid
  <2>3. \A t \in 0..clock : before'[t] = before[t]
    BY <1>0, <1>3, ClockAssumption DEF Tick, TypeOK
  <2>4. before'[clock'] = spent
    BY <1>0, <1>3, ClockAssumption DEF Tick, TypeOK
  <2>5. HistoryOK'
    BY <1>0, <1>3, <2>3, <2>4, ClockAssumption DEF Tick, TypeOK, HistoryOK
  <2>6. bucket.seen # None => \A t \in 0..bucket.seen : before'[t] = before[t]
    BY <1>0, <2>3, ClockAssumption DEF TypeOK
  <2>7. TokensWithin' /\ TokensFill'
    BY <1>0, <1>3, <2>1, <2>6 DEF Tick, TokensWithin, TokensFill
  <2> QED
    BY <1>3, <2>2, <2>5, <2>7 DEF Tick, LimiterInv, RefusalIsFresh
<1>4. CASE UNCHANGED vars
  BY <1>0, <1>4 DEF vars, LimiterInv, TypeOK, Valid, HistoryOK, TokensWithin, TokensFill,
     RefusalIsFresh, Full, Earned
<1> QED
  BY <1>1, <1>2, <1>3, <1>4 DEF Next

THEOREM LimiterInvariant == Spec => []LimiterInv
<1> QED
  BY InitInv, NextInv, PTL DEF Spec
-------------------------------------------------------------------------------
\* What is left in the bucket bounds what may still be spent,
LEMMA WithinBudget == LimiterInv => NeverOverBudget
<1> SUFFICES ASSUME LimiterInv, NEW t \in 0..clock
             PROVE  spent - before[t] <= Full + Earned(clock - t)
  BY DEF NeverOverBudget
<1>0. TypeOK /\ HistoryOK /\ TokensWithin
  BY DEF LimiterInv
<1>1. /\ clock \in Nat /\ clock - t \in Nat /\ spent \in Nat /\ before[t] \in Nat
      /\ Full \in Nat /\ Earned(clock - t) \in Nat /\ bucket.tokens \in Nat
  BY <1>0, EarnedAdds, Types
<1>2. CASE bucket.seen = None \/ t > bucket.seen
  BY <1>0, <1>1, <1>2 DEF HistoryOK
<1>3. CASE bucket.seen # None /\ ~(t > bucket.seen)
  <2>1. /\ bucket.seen - t \in Nat /\ clock - bucket.seen \in Nat /\ t \in 0..bucket.seen
        /\ clock - t = (bucket.seen - t) + (clock - bucket.seen)
    BY <1>0, <1>3, Types
  <2>2. /\ Earned(clock - t) = Earned(bucket.seen - t) + Earned(clock - bucket.seen)
        /\ Earned(bucket.seen - t) \in Nat /\ Earned(clock - bucket.seen) \in Nat
    BY <1>0, <2>1, EarnedAdds
  <2>3. bucket.tokens + (spent - before[t]) <= Full + Earned(bucket.seen - t)
    BY <1>0, <1>3, <2>1 DEF TokensWithin
  <2> QED
    BY <1>1, <2>2, <2>3
<1> QED
  BY <1>2, <1>3

\* and a bucket that lacks a token stands for a budget that is used up.
LEMMA RefusalIsDue == LimiterInv => RefusedOnlyWhenSpent
<1> SUFFICES ASSUME LimiterInv, outcome = "limited"
             PROVE  \E t \in 0..clock : spent - before[t] + Unit > Full + Earned(clock - t)
  BY DEF RefusedOnlyWhenSpent
<1>1. TypeOK /\ bucket.seen = clock /\ bucket.tokens < Unit
  BY DEF LimiterInv, RefusalIsFresh
<1>2. PICK t \in 0..clock : bucket.tokens + (spent - before[t]) >= Full + Earned(clock - t)
  BY <1>1, Types DEF LimiterInv, TokensFill
<1>3. /\ spent \in Nat /\ before[t] \in Nat /\ bucket.tokens \in Nat /\ Full \in Nat
      /\ Earned(clock - t) \in Nat /\ Unit \in Nat
  BY <1>1, EarnedAdds, Types, UnitAssumption
<1> QED
  BY <1>1, <1>2, <1>3

\* The bucket never holds a debt nor more than the burst of the policy in force
\* (limiter.go:20-27, limiter.go:37-58).
THEOREM TypeCorrect == Spec => []TypeOK
<1>1. LimiterInv => TypeOK
  BY DEF LimiterInv
<1> QED
  BY <1>1, LimiterInvariant, PTL

\* No stretch of time sees more than its budget (limiter.go:37-58).
THEOREM BudgetKept == Spec => []NeverOverBudget
<1> QED
  BY WithinBudget, LimiterInvariant, PTL

\* No send is refused while the budget has room for it (limiter.go:53-56).
THEOREM RefusalsHaveCause == Spec => []RefusedOnlyWhenSpent
<1> QED
  BY RefusalIsDue, LimiterInvariant, PTL
-------------------------------------------------------------------------------
(* The bucket implements the budgets of all stretches of time *)

LEMMA AccountInit == Init => Account!Init
<1> SUFFICES ASSUME Init PROVE Account!Init
  OBVIOUS
<1>1. limiter \in [rate : Int, burst : Int] /\ limiter.rate > 0 /\ limiter.burst > 0
  BY PolicyAssumption DEF Init, NewLimiter, Valid
<1>2. limiter \in [rate : Nat \ {0}, burst : Nat \ {0}]
  BY <1>1
<1> QED
  BY <1>2 DEF Init, Account!Init, Account!NothingSpent

\* An event that passes leaves every budget within its limit, so there was room
\* for it; one that is refused finds a budget used up, and changes none.
LEMMA AccountStep ==
  ASSUME LimiterInv, NeverOverBudget', RefusedOnlyWhenSpent', [Next]_vars
  PROVE  [Account!Next]_Account!budgetVars
<1>1. CASE Allow
  <2>1. /\ spent \in Nat /\ Unit \in Nat /\ clock \in Nat
        /\ \A t \in 0..clock : before[t] \in Nat
        /\ UNCHANGED <<limiter, clock, before>>
    BY <1>1, Types, UnitAssumption DEF LimiterInv, Allow
  <2>2. CASE Enough(Refill)
    <3>1. spent' = spent + Unit /\ outcome' = "passed"
      BY <1>1, <2>2, UnitAssumption DEF Allow
    <3>2. \A t \in 0..clock : spent' - before[t] <= Full + Earned(clock - t)
      BY <2>1 DEF NeverOverBudget, Full, Earned
    <3>3. Account!HasRoom
      BY <2>1, <3>1, <3>2 DEF Account!HasRoom, Full, Earned
    <3> QED
      BY <2>1, <3>1, <3>3 DEF Account!Pass, Account!Next
  <2>3. CASE ~Enough(Refill)
    <3>1. spent' = spent /\ outcome' = "limited"
      BY <1>1, <2>1, <2>3 DEF Allow
    <3>2. \E t \in 0..clock : spent - before[t] + Unit > Full + Earned(clock - t)
      BY <2>1, <3>1 DEF RefusedOnlyWhenSpent, Full, Earned
    <3>3. ~Account!HasRoom
      <4>1. PICK t \in 0..clock : spent - before[t] + Unit > Full + Earned(clock - t)
        BY <3>2
      <4>2. Full \in Nat /\ Earned(clock - t) \in Nat /\ before[t] \in Nat
        BY <2>1, EarnedAdds, Types DEF LimiterInv
      <4>3. ~(spent + Unit - before[t] <= Full + Earned(clock - t))
        BY <2>1, <4>1, <4>2
      <4> QED
        BY <4>3 DEF Account!HasRoom, Full, Earned
    <3> QED
      BY <2>1, <3>1, <3>3 DEF Account!Refuse, Account!Next
  <2> QED
    BY <2>2, <2>3
<1>2. CASE Reconnect
  BY <1>2 DEF Reconnect, Account!Reset, Account!NothingSpent, Account!Next
<1>3. CASE Tick
  BY <1>3 DEF Tick, Account!Tick, Account!Next
<1>4. CASE UNCHANGED vars
  BY <1>4 DEF vars, Account!budgetVars
<1> QED
  BY <1>1, <1>2, <1>3, <1>4 DEF Next

\* limiter.go:37-58: for every policy, the bucket lets an event pass exactly when
\* the budgets of all stretches of time have room for it.
THEOREM BudgetRefinement == Spec => ImplementsBudget
<1> QED
  BY AccountInit, AccountStep, LimiterInvariant, BudgetKept, RefusalsHaveCause, PTL
     DEF Spec, ImplementsBudget, Account!Spec
===============================================================================
