------------------------- MODULE RiskManagerProofs -------------------------
(* Proofs about RiskManager, for every set of opportunities, results and     *)
(* limits.  The invariants of the runs are not inductive on their own: what  *)
(* makes them hold is that a trade approved today, or a loss recorded for    *)
(* one, implies that the counter has been cleared today already.             *)
EXTENDS RiskManager, TLAPS

(* The counter was cleared today if a trade was approved or lost today.      *)
ClearedToday ==
    /\ \A d \in inFlight : d = today => dailyResetAt > today
    /\ lossToday > 0 => dailyResetAt > today

(* While a trade is executing the counter is below the largest limit, so the *)
(* loss the trade may bring is the only one that can exceed it.              *)
HeadroomInFlight == inFlight # {} => dailyLossUsd < MaxLossLimit

(* While a trade of an earlier day executes, no other late loss was booked.  *)
OneStraddler == \A d \in inFlight : d < today => lateLossToday = 0

Inductive ==
    /\ TypeOK
    /\ ClearedToday
    /\ HeadroomInFlight
    /\ CounterCoversToday
    /\ OvershootBounded
    /\ OneStraddler
    /\ LateLossBounded

-----------------------------------------------------------------------------
(* The counter as check() leaves it is a natural number below its old value, *)
(* and its next reset lies in the future.                                    *)
LEMMA ResetTypes ==
    ASSUME TypeOK, MaybeResetDailyLoss
    PROVE  /\ dailyLossUsd' = LossAfterReset
           /\ LossAfterReset \in Nat
           /\ LossAfterReset <= dailyLossUsd
           /\ dailyResetAt' = today + 1
  BY DEF TypeOK, MaybeResetDailyLoss, LossAfterReset, ResetDue

(* If a loss of today is booked, check() keeps the counter as it is.         *)
LEMMA ResetKeepsToday ==
    ASSUME TypeOK, ClearedToday, CounterCoversToday
    PROVE  lossToday <= LossAfterReset
  BY DEF TypeOK, ClearedToday, CounterCoversToday, LossAfterReset, ResetDue

(* The limit in force is an integer that does not exceed the largest limit.  *)
LEMMA LimitBounded ==
    ASSUME TypeOK
    PROVE  /\ botConfig.maxDailyLossUsd \in Int
           /\ botConfig.maxDailyLossUsd <= MaxLossLimit
           /\ MaxLossLimit \in Nat
  BY LossLimitsAssumption DEF TypeOK, BotConfigs

LEMMA InitInductive == Init => Inductive
<1> SUFFICES ASSUME Init PROVE Inductive
  OBVIOUS
<1>1. /\ circuitBreakerTripped \in BOOLEAN /\ botConfig \in BotConfigs
      /\ dailyLossUsd = 0 /\ dailyResetAt = 1 /\ today = 0 /\ inFlight = {}
      /\ lossToday = 0 /\ lateLossToday = 0
  BY DEF Init
<1>2. TypeOK
  BY <1>1 DEF TypeOK
<1>3. ClearedToday /\ HeadroomInFlight /\ CounterCoversToday
  BY <1>1 DEF ClearedToday, HeadroomInFlight, CounterCoversToday
<1>4. OvershootBounded
  BY <1>1, LossLimitsAssumption, ResultsAssumption DEF OvershootBounded
<1>5. OneStraddler /\ LateLossBounded
  BY <1>1, ResultsAssumption DEF OneStraddler, LateLossBounded
<1> QED BY <1>2, <1>3, <1>4, <1>5 DEF Inductive

(* Whatever check() answers, it leaves the counter consistent. *)
LEMMA CheckInductive ==
    ASSUME Inductive, NEW opp, NEW wallet, Check(opp, wallet)
    PROVE  Inductive'
<1> USE DEF Inductive
<1>1. MaybeResetDailyLoss /\ inFlight = {}
  BY DEF Check, Approve, Reject, RejectAndTrip
<1>2. /\ dailyLossUsd' = LossAfterReset /\ LossAfterReset \in Nat
      /\ LossAfterReset <= dailyLossUsd /\ dailyResetAt' = today + 1
  BY <1>1, ResetTypes
<1>3. lossToday <= LossAfterReset
  BY ResetKeepsToday
<1>4. UNCHANGED <<botConfig, today, lossToday, lateLossToday>>
  BY DEF Check, Approve, Reject, RejectAndTrip, historyVars
<1>5. /\ circuitBreakerTripped' \in BOOLEAN
      /\ inFlight' = {} \/ (inFlight' = {today} /\ ~DailyLimitReached)
  BY <1>1 DEF Check, Approve, Reject, RejectAndTrip, historyVars, TypeOK
<1>6. TypeOK'
  BY <1>2, <1>4, <1>5 DEF TypeOK
<1>7. ClearedToday'
  BY <1>2, <1>4, <1>5 DEF ClearedToday, TypeOK
<1>8. HeadroomInFlight'
  <2>1. CASE inFlight' = {}
    BY <2>1 DEF HeadroomInFlight
  <2>2. CASE ~DailyLimitReached
    BY <2>2, <1>2, LimitBounded DEF HeadroomInFlight, DailyLimitReached
  <2> QED BY <1>5, <2>1, <2>2
<1>9. CounterCoversToday' /\ OvershootBounded'
  BY <1>2, <1>3, <1>4, ResultsAssumption, LossLimitsAssumption
  DEF CounterCoversToday, OvershootBounded, TypeOK
<1>10. OneStraddler' /\ LateLossBounded'
  BY <1>4, <1>5 DEF OneStraddler, LateLossBounded, TypeOK
<1> QED BY <1>6, <1>7, <1>8, <1>9, <1>10

(* A recorded loss lands on a counter that was below the largest limit.      *)
LEMMA RecordInductive ==
    ASSUME Inductive, NEW r \in Results, RecordTrade(r)
    PROVE  Inductive'
<1> DEFINE loss == IF r < 0 THEN -r ELSE 0
<1> USE DEF Inductive
<1>1. loss \in Nat /\ loss <= MaxLoss /\ MaxLoss \in Nat
  BY ResultsAssumption
<1>2. /\ inFlight # {} /\ inFlight' = {}
      /\ dailyLossUsd' = dailyLossUsd + loss
      /\ lossToday' = IF today \in inFlight THEN lossToday + loss ELSE lossToday
      /\ lateLossToday' = IF today \in inFlight THEN lateLossToday ELSE lateLossToday + loss
      /\ UNCHANGED <<dailyResetAt, botConfig, today>>
  BY DEF RecordTrade
<1>3. circuitBreakerTripped' \in BOOLEAN
  BY DEF RecordTrade, TypeOK
<1> HIDE DEF loss
<1>4. TypeOK'
  BY <1>1, <1>2, <1>3 DEF TypeOK
<1>5. ClearedToday'
  BY <1>1, <1>2 DEF ClearedToday, TypeOK
<1>6. HeadroomInFlight'
  BY <1>2 DEF HeadroomInFlight
<1>7. CounterCoversToday'
  BY <1>1, <1>2 DEF CounterCoversToday, TypeOK
<1>8. OvershootBounded'
  BY <1>1, <1>2, LossLimitsAssumption DEF HeadroomInFlight, OvershootBounded, TypeOK
<1>9. OneStraddler'
  BY <1>2 DEF OneStraddler
<1>10. LateLossBounded'
  <2>1. CASE today \in inFlight
    BY <2>1, <1>2 DEF LateLossBounded
  <2>2. CASE today \notin inFlight
    <3>1. PICK d \in 0..today : inFlight = {d} /\ d < today
      BY <2>2, <1>2 DEF TypeOK
    <3>2. lateLossToday = 0
      BY <3>1 DEF OneStraddler
    <3> QED BY <3>2, <2>2, <1>1, <1>2 DEF LateLossBounded
  <2> QED BY <2>1, <2>2
<1> QED BY <1>4, <1>5, <1>6, <1>7, <1>8, <1>9, <1>10

LEMMA MidnightInductive ==
    ASSUME Inductive, Midnight
    PROVE  Inductive'
<1> USE DEF Inductive, Midnight, riskVars
<1>1. TypeOK'
  BY DEF TypeOK
<1>2. ClearedToday'
  BY DEF ClearedToday, TypeOK
<1>3. HeadroomInFlight' /\ CounterCoversToday' /\ OvershootBounded'
  BY DEF HeadroomInFlight, CounterCoversToday, OvershootBounded, TypeOK
<1>4. OneStraddler' /\ LateLossBounded'
  BY ResultsAssumption DEF OneStraddler, LateLossBounded, TypeOK
<1> QED BY <1>1, <1>2, <1>3, <1>4

LEMMA NextInductive == Inductive /\ [Next]_vars => Inductive'
<1> SUFFICES ASSUME Inductive, [Next]_vars PROVE Inductive'
  OBVIOUS
<1>1. CASE \E opp \in Opportunities, wallet \in WalletBalances : Check(opp, wallet)
  BY <1>1, CheckInductive
<1>2. CASE \E r \in Results : RecordTrade(r)
  BY <1>2, RecordInductive
<1>3. CASE AbandonTrade
  BY <1>3 DEF AbandonTrade, riskVars, Inductive, TypeOK, ClearedToday,
              HeadroomInFlight, CounterCoversToday, OvershootBounded,
              OneStraddler, LateLossBounded
<1>4. CASE TripCircuitBreaker \/ ResetCircuitBreaker \/ UpdateConfig
  BY <1>4 DEF TripCircuitBreaker, ResetCircuitBreaker, UpdateConfig, historyVars,
              Inductive, TypeOK, ClearedToday, HeadroomInFlight, CounterCoversToday,
              OvershootBounded, OneStraddler, LateLossBounded
<1>5. CASE Midnight
  BY <1>5, MidnightInductive
<1>6. CASE UNCHANGED vars
  BY <1>6 DEF vars, riskVars, historyVars, Inductive, TypeOK, ClearedToday,
              HeadroomInFlight, CounterCoversToday, OvershootBounded,
              OneStraddler, LateLossBounded
<1> QED BY <1>1, <1>2, <1>3, <1>4, <1>5, <1>6 DEF Next

LEMMA AlwaysInductive == Spec => []Inductive
  BY InitInductive, NextInductive, PTL DEF Spec

-----------------------------------------------------------------------------
(* The variables keep their types: in particular at most one automatic trade *)
(* is in flight and the counter is cleared at most once a day.               *)
THEOREM TypeCorrect == Spec => []TypeOK
<1>1. Inductive => TypeOK
  BY DEF Inductive
<1> QED BY <1>1, AlwaysInductive, PTL

(* The lazily cleared loss counter of riskManager.ts:143-149 never forgets a *)
(* loss made today on a trade approved today.                                *)
THEOREM CounterIsSound == Spec => []CounterCoversToday
<1>1. Inductive => CounterCoversToday
  BY DEF Inductive
<1> QED BY <1>1, AlwaysInductive, PTL

(* The counter exceeds the largest loss limit by less than one trade's loss, *)
(* whatever the operator does with the breaker and the limits.               *)
THEOREM OvershootTheorem == Spec => []OvershootBounded
<1>1. Inductive => OvershootBounded
  BY DEF Inductive
<1> QED BY <1>1, AlwaysInductive, PTL

(* The losses that escape a day's budget, because their trades were in       *)
(* flight at midnight, come to one trade's loss at most.                     *)
THEOREM LateLossTheorem == Spec => []LateLossBounded
<1>1. Inductive => LateLossBounded
  BY DEF Inductive
<1> QED BY <1>1, AlwaysInductive, PTL

(* No sequence of breaker resets lets check() approve a trade once the       *)
(* losses of today's trades have reached the limit in force.                 *)
THEOREM BudgetTheorem == Spec => BudgetHolds
<1>1. Inductive /\ [Next]_vars => [TradeApproved => lossToday < botConfig.maxDailyLossUsd]_vars
  <2> SUFFICES ASSUME Inductive, Next, TradeApproved
               PROVE  lossToday < botConfig.maxDailyLossUsd
    OBVIOUS
  <2>1. PICK opp \in Opportunities, wallet \in WalletBalances : Approve(opp, wallet)
    BY DEF Next, Check, TradeApproved, Reject, RejectAndTrip, RecordTrade, AbandonTrade,
           TripCircuitBreaker, ResetCircuitBreaker, UpdateConfig, Midnight, historyVars
  <2>2. lossToday <= LossAfterReset
    BY ResetKeepsToday DEF Inductive
  <2>3. LossAfterReset \in Nat /\ lossToday \in Nat
    BY DEF Inductive, TypeOK, LossAfterReset
  <2> QED
    BY <2>1, <2>2, <2>3, LimitBounded DEF Approve, DailyLimitReached, Inductive
<1> QED BY <1>1, AlwaysInductive, PTL DEF Spec, BudgetHolds
=============================================================================
