---------------------------- MODULE RiskManager ----------------------------
(* The risk manager of the bot (backend/src/riskManager.ts): the gate every  *)
(* automatic trade passes, the daily loss counter and the circuit breaker.   *)
(*                                                                           *)
(* The class is driven through its public interface: check() approves or     *)
(* rejects an opportunity, recordTrade() books the result of an approved     *)
(* trade, and the operator trips or resets the breaker and edits the         *)
(* configuration between the two calls, because the caller awaits the trade  *)
(* in between (index.ts:121-128).  UTC midnights pass at any moment.         *)
(*                                                                           *)
(* Money is counted in whole units, exposure in percent, price impact in     *)
(* basis points.  Every update() that the class accepts is allowed, so the   *)
(* fields that the class stores but never reads (dryRun, scanIntervalMs,     *)
(* maxGasPriceMultiplier) are left out of the configuration.                 *)
EXTENDS Integers

CONSTANTS
    Opportunities,   \* candidate trades, [netProfitUsd, amountIn, buyImpact, sellImpact]
    WalletBalances,  \* USDC balances the bot may hold
    Results,         \* profits (or losses, negative) a trade can be recorded with
    MaxLoss,         \* no single trade loses more than this
    MinProfits,      \* values of minProfitUsd the operator may set
    Exposures,       \* values of maxTradeExposure, in percent
    Slippages,       \* values of maxSlippageBps
    LossLimits,      \* values of maxDailyLossUsd
    MaxLossLimit,    \* the largest of them
    MaxDay           \* bound: the number of midnights that pass

ASSUME ResultsAssumption ==
    /\ MaxLoss \in Nat
    /\ \A r \in Results : r \in Int /\ -r <= MaxLoss

ASSUME LossLimitsAssumption ==
    /\ MaxLossLimit \in Nat \ {0}
    /\ \A l \in LossLimits : l \in Int /\ l <= MaxLossLimit

ASSUME MaxDayAssumption == MaxDay \in Nat

VARIABLES
    circuitBreakerTripped,
    dailyLossUsd,    \* the loss counter
    dailyResetAt,    \* the day from which the counter is due to be cleared
    botConfig,       \* the limits in force, editable at run time
    today,           \* the current UTC day, counted from the start of the process
    inFlight,        \* day of approval of the trade being executed: {} or a singleton
    lossToday,       \* history: losses recorded today of trades approved today
    lateLossToday    \* history: losses recorded today of trades approved earlier

riskVars == <<circuitBreakerTripped, dailyLossUsd, dailyResetAt, botConfig>>
historyVars == <<inFlight, lossToday, lateLossToday>>
vars == <<riskVars, today, historyVars>>

BotConfigs == [autoTrade : BOOLEAN, minProfitUsd : MinProfits,
               maxTradeExposure : Exposures, maxSlippageBps : Slippages,
               maxDailyLossUsd : LossLimits]

Init ==
    /\ circuitBreakerTripped = FALSE
    /\ dailyLossUsd = 0
    /\ dailyResetAt = 1
    /\ botConfig \in BotConfigs /\ ~botConfig.autoTrade
    /\ today = 0
    /\ inFlight = {}
    /\ lossToday = 0
    /\ lateLossToday = 0

-----------------------------------------------------------------------------
(* check(): clears the counter first if a midnight has passed, then tests    *)
(* the limits in order; only the last test has an effect of its own.         *)

ResetDue == today >= dailyResetAt

LossAfterReset == IF ResetDue THEN 0 ELSE dailyLossUsd

(* Mutant: the counter is cleared, but the next reset is not scheduled. *)
ResetStaysDue ==
    /\ dailyLossUsd' = LossAfterReset
    /\ dailyResetAt' = dailyResetAt

(* Mutant: the next reset is scheduled a day after the next midnight. *)
ResetSkipsDay ==
    /\ dailyLossUsd' = LossAfterReset
    /\ dailyResetAt' = IF ResetDue THEN today + 2 ELSE dailyResetAt

MaybeResetDailyLoss ==
    /\ dailyLossUsd' = LossAfterReset
    /\ dailyResetAt' = IF ResetDue THEN today + 1 ELSE dailyResetAt

(* Mutant: check() does not look at the breaker. *)
WithinLimitsBreakerIgnored(opp, wallet) ==
    /\ botConfig.autoTrade
    /\ opp.netProfitUsd >= botConfig.minProfitUsd
    /\ opp.amountIn * 100 <= wallet * botConfig.maxTradeExposure
    /\ opp.buyImpact <= botConfig.maxSlippageBps
    /\ opp.sellImpact <= botConfig.maxSlippageBps

WithinLimits(opp, wallet) ==
    /\ botConfig.autoTrade
    /\ ~circuitBreakerTripped
    /\ opp.netProfitUsd >= botConfig.minProfitUsd
    /\ opp.amountIn * 100 <= wallet * botConfig.maxTradeExposure
    /\ opp.buyImpact <= botConfig.maxSlippageBps
    /\ opp.sellImpact <= botConfig.maxSlippageBps

(* Mutant: check() trusts recordTrade() to have tripped the breaker. *)
DailyLimitNotTested == FALSE

DailyLimitReached == LossAfterReset >= botConfig.maxDailyLossUsd

Approve(opp, wallet) ==
    /\ inFlight = {}
    /\ WithinLimits(opp, wallet)
    /\ ~DailyLimitReached
    /\ MaybeResetDailyLoss
    /\ inFlight' = {today}
    /\ UNCHANGED <<circuitBreakerTripped, botConfig, today, lossToday, lateLossToday>>

RejectAndTrip(opp, wallet) ==
    /\ inFlight = {}
    /\ WithinLimits(opp, wallet)
    /\ DailyLimitReached
    /\ MaybeResetDailyLoss
    /\ circuitBreakerTripped' = TRUE
    /\ UNCHANGED <<botConfig, today, historyVars>>

Reject(opp, wallet) ==
    /\ inFlight = {}
    /\ ~WithinLimits(opp, wallet)
    /\ MaybeResetDailyLoss
    /\ UNCHANGED <<circuitBreakerTripped, botConfig, today, historyVars>>

Check(opp, wallet) ==
    Approve(opp, wallet) \/ RejectAndTrip(opp, wallet) \/ Reject(opp, wallet)

(* Mutant: the result of a trade is booked again and again. *)
RecordRepeatedly(netProfitUsd) ==
    LET loss == IF netProfitUsd < 0 THEN -netProfitUsd ELSE 0
    IN  /\ inFlight # {}
        /\ dailyLossUsd < MaxLossLimit
        /\ dailyLossUsd' = dailyLossUsd + loss
        /\ lossToday' = IF today \in inFlight THEN lossToday + loss ELSE lossToday
        /\ lateLossToday' = IF today \in inFlight THEN lateLossToday ELSE lateLossToday + loss
        /\ UNCHANGED <<circuitBreakerTripped, dailyResetAt, botConfig, today, inFlight>>

(* recordTrade(): a loss is added to the counter and may trip the breaker.   *)
(* The counter is not cleared here, whatever the date.                       *)
RecordTrade(netProfitUsd) ==
    LET loss == IF netProfitUsd < 0 THEN -netProfitUsd ELSE 0
    IN  /\ inFlight # {}
        /\ dailyLossUsd' = dailyLossUsd + loss
        /\ circuitBreakerTripped' = \/ circuitBreakerTripped
                                    \/ /\ loss > 0
                                       /\ dailyLossUsd' >= botConfig.maxDailyLossUsd
        /\ inFlight' = {}
        /\ lossToday' = IF today \in inFlight THEN lossToday + loss ELSE lossToday
        /\ lateLossToday' = IF today \in inFlight THEN lateLossToday ELSE lateLossToday + loss
        /\ UNCHANGED <<dailyResetAt, botConfig, today>>

(* The execution of an approved trade may throw, and nothing is recorded.    *)
AbandonTrade ==
    /\ inFlight # {}
    /\ inFlight' = {}
    /\ UNCHANGED <<riskVars, today, lossToday, lateLossToday>>

TripCircuitBreaker ==
    /\ circuitBreakerTripped' = TRUE
    /\ UNCHANGED <<dailyLossUsd, dailyResetAt, botConfig, today, historyVars>>

ResetCircuitBreaker ==
    /\ circuitBreakerTripped' = FALSE
    /\ UNCHANGED <<dailyLossUsd, dailyResetAt, botConfig, today, historyVars>>

(* An update carries any subset of the fields, and overwrites those.         *)
UpdateConfig ==
    /\ botConfig' \in BotConfigs
    /\ UNCHANGED <<circuitBreakerTripped, dailyLossUsd, dailyResetAt, today, historyVars>>

(* A UTC midnight passes. *)
Midnight ==
    /\ today < MaxDay
    /\ today' = today + 1
    /\ lossToday' = 0
    /\ lateLossToday' = 0
    /\ UNCHANGED <<riskVars, inFlight>>

Next ==
    \/ \E opp \in Opportunities, wallet \in WalletBalances : Check(opp, wallet)
    \/ \E r \in Results : RecordTrade(r)
    \/ AbandonTrade
    \/ TripCircuitBreaker
    \/ ResetCircuitBreaker
    \/ UpdateConfig
    \/ Midnight

Spec == Init /\ [][Next]_vars

-----------------------------------------------------------------------------
(* The types of the variables; at most one trade is in flight, and the       *)
(* counter is never due to be cleared later than the next midnight.          *)
TypeOK ==
    /\ circuitBreakerTripped \in BOOLEAN
    /\ dailyLossUsd \in Nat
    /\ dailyResetAt \in 1..(today + 1)
    /\ botConfig \in BotConfigs
    /\ today \in Nat
    /\ \/ inFlight = {}
       \/ \E d \in 0..today : inFlight = {d}
    /\ lossToday \in Nat
    /\ lateLossToday \in Nat

(* The counter never under-reports the day: whatever was lost today on a     *)
(* trade that was also approved today is still in it, although it is cleared *)
(* lazily, by the first check() after midnight, and not at midnight.         *)
CounterCoversToday == lossToday <= dailyLossUsd

(* The counter overshoots the loss limit by less than one trade, however the *)
(* operator resets the breaker in between: the limit is tested again before  *)
(* every trade, and only one trade is in flight.                             *)
OvershootBounded == dailyLossUsd < MaxLossLimit + MaxLoss

(* What escapes the day's budget is the loss of one trade at most: the one   *)
(* in flight at midnight, whose loss is booked on the old day's counter and  *)
(* cleared by the next check().                                              *)
LateLossBounded == lateLossToday <= MaxLoss

TradeApproved == inFlight = {} /\ inFlight' # {}

(* Resetting the breaker does not buy a new budget: a trade is approved only *)
(* while today's losses on today's trades are below the limit in force.      *)
BudgetHolds == [][TradeApproved => lossToday < botConfig.maxDailyLossUsd]_vars
=============================================================================
