------------------------------- MODULE ArbBot -------------------------------
(* The bot process (backend/src/index.ts) with the operator's socket         *)
(* (backend/src/wsServer.ts): the scan loop drives the risk manager and the  *)
(* executor, while the operator's events, the balance timer and a restart    *)
(* interleave with it at every await.                                        *)
(*                                                                           *)
(* JavaScript runs one handler at a time up to its next await, so an action  *)
(* here is one such run: finding a trade, checking it and entering execute() *)
(* are one step, and so are the return of execute(), the booking of its      *)
(* record and the broadcast of the trade.                                    *)
(*                                                                           *)
(* The handler of manual_execute is not an action: it hands the client's     *)
(* opportunity to execute() without asking the risk manager, but its amounts *)
(* came as JSON and are not bigints, so the first quote of buildSwapTx()     *)
(* throws, the client receives an error, and no state here has changed.      *)
EXTENDS Integers, FiniteSets

CONSTANTS
    Opportunities, WalletBalances, Results, MaxLoss, MinProfits, Exposures,
    Slippages, LossLimits, MaxLossLimit, MaxDay,   \* of RiskManager
    Deployments, InitialLots, MaxCalls,            \* of Executor
    Transports,       \* builds: whether socket.io encodes the bigints of an opportunity
    IdleRebalance,    \* config.rebalanceToUsdc
    MaxRestarts       \* bound: the number of restarts

ASSUME ArbBotAssumption ==
    /\ Transports \subseteq BOOLEAN
    /\ IdleRebalance \in BOOLEAN
    /\ MaxCalls \in Nat
    /\ MaxRestarts \in Nat

(* The finder reports no opportunity below MIN_PROFIT_USD (arbFinder.ts:131), *)
(* which a deployment leaves positive.                                        *)
ASSUME ProfitsAssumption == \A opp \in Opportunities : opp.netProfitUsd \in Nat

VARIABLES
    \* the risk manager
    circuitBreakerTripped, dailyLossUsd, dailyResetAt, botConfig, today,
    inFlight, lossToday, lateLossToday,
    \* the executor, the wallet and the chain
    deploy, call, kind, lots, step, leg, simulated, outcome, tx, wsLots,
    \* the process
    encodes,            \* whether the transport can encode an opportunity
    loop,               \* where the scan loop is
    trade,              \* the opportunity being executed: <<>> or <<opp>>
    walletBalanceUsd,   \* the balance last read
    lastStatus,         \* the breaker in the process's last status: <<>> if none was sent
    armed,              \* history: the operator enabled auto-trade since the last start
    restarts

RM == INSTANCE RiskManager
EX == INSTANCE Executor

riskVars == <<circuitBreakerTripped, dailyLossUsd, dailyResetAt, botConfig, today,
              inFlight, lossToday, lateLossToday>>
execVars == <<deploy, call, kind, lots, step, leg, simulated, outcome, tx, wsLots>>
botVars == <<encodes, loop, trade, walletBalanceUsd, lastStatus, armed, restarts>>
vars == <<riskVars, execVars, botVars>>

Init ==
    /\ RM!Init
    /\ EX!Init
    /\ encodes \in Transports
    /\ loop = "sleeping"
    /\ trade = <<>>
    /\ walletBalanceUsd \in WalletBalances
    /\ lastStatus = <<>>
    /\ armed = FALSE
    /\ restarts = 0

-----------------------------------------------------------------------------
(* The scan loop *)

Sleep == loop' = "sleeping" /\ trade' = <<>>

BroadcastStatus == lastStatus' = <<circuitBreakerTripped'>>

(* The normal end of a scan: status, and a timer for the next one.           *)
EndScan ==
    /\ Sleep
    /\ BroadcastStatus
    /\ UNCHANGED <<encodes, walletBalanceUsd, armed, restarts>>

(* Mutant: an exception ends the loop. *)
AbortEndsLoop ==
    /\ loop' = "stopped"
    /\ trade' = <<>>
    /\ UNCHANGED <<encodes, walletBalanceUsd, lastStatus, armed, restarts>>

(* An exception: it is logged, and the clients receive no status.            *)
AbortScan ==
    /\ Sleep
    /\ UNCHANGED <<encodes, walletBalanceUsd, lastStatus, armed, restarts>>

Enter(place, opp) ==
    /\ loop' = place
    /\ trade' = opp
    /\ UNCHANGED <<encodes, walletBalanceUsd, lastStatus, armed, restarts>>

StartScan ==
    /\ loop = "sleeping"
    /\ Enter("finding", <<>>)
    /\ UNCHANGED <<riskVars, execVars>>

(* findOpportunities() never rejects: a pair whose quotes fail is skipped.   *)
FindNothing ==
    /\ loop = "finding"
    /\ UNCHANGED <<riskVars, execVars>>
    /\ IF IdleRebalance THEN Enter("balance", <<>>) ELSE EndScan

(* There is one supported pair, hence at most one opportunity in a scan.     *)
EmitThrows ==
    /\ loop = "finding"
    /\ ~encodes
    /\ AbortScan
    /\ UNCHANGED <<riskVars, execVars>>

(* Mutant: a rejected opportunity is executed all the same. *)
RejectedExecutes(opp) ==
    /\ loop = "finding"
    /\ encodes
    /\ RM!Reject(opp, walletBalanceUsd)
    /\ EX!Execute
    /\ Enter("executing", <<opp>>)

RejectOpportunity(opp) ==
    /\ loop = "finding"
    /\ encodes
    /\ RM!Reject(opp, walletBalanceUsd) \/ RM!RejectAndTrip(opp, walletBalanceUsd)
    /\ EndScan
    /\ UNCHANGED execVars

ExecuteOpportunity(opp) ==
    /\ loop = "finding"
    /\ encodes
    /\ RM!Approve(opp, walletBalanceUsd)
    /\ EX!Execute
    /\ Enter("executing", <<opp>>)

(* Mutant: the rebalance is entered without a call. *)
SkipRebalanceStays ==
    /\ loop = "balance"
    /\ Enter("rebalancing", <<>>)
    /\ UNCHANGED <<riskVars, execVars>>

(* The WS balance is unreadable or too small, or the rebalance starts.  The  *)
(* risk manager is not asked.                                                *)
SkipRebalance ==
    /\ loop = "balance"
    /\ UNCHANGED <<riskVars, execVars>>
    /\ EndScan

StartRebalance ==
    /\ loop = "balance"
    /\ EX!Rebalance
    /\ Enter("rebalancing", <<>>)
    /\ UNCHANGED riskVars

(* What the loop does in the same run in which its call returns.             *)
AfterCall ==
    CASE step' # "idle" ->
            UNCHANGED <<riskVars, botVars>>
      [] step' = "idle" /\ loop = "rebalancing" ->
            UNCHANGED riskVars /\ EndScan
      [] step' = "idle" /\ loop = "executing" /\ outcome'[call] = "threw" ->
            RM!AbandonTrade /\ AbortScan
      [] OTHER ->
            RM!RecordTrade(trade[1].netProfitUsd) /\ Enter("persisting", trade)

CallProgress == EX!Progress /\ AfterCall
CallStep == (EX!ConfirmError \/ EX!RelayAnswers) /\ AfterCall

(* insertTrade(): its failure is logged and otherwise ignored, so either way *)
(* the scan goes on; the table is not modelled, since the bot never reads it *)
(* but to display it.                                                        *)
InsertTrade ==
    /\ loop = "persisting"
    /\ UNCHANGED <<riskVars, execVars, encodes, walletBalanceUsd, armed, restarts>>
    /\ Sleep
    /\ BroadcastStatus

-----------------------------------------------------------------------------
(* The other handlers *)

UpdateWalletBalance ==
    /\ walletBalanceUsd' \in WalletBalances
    /\ UNCHANGED <<riskVars, execVars, encodes, loop, trade, lastStatus, armed, restarts>>

SetConfig ==
    /\ RM!UpdateConfig
    /\ armed' = (armed \/ botConfig'.autoTrade)
    /\ UNCHANGED <<execVars, encodes, loop, trade, walletBalanceUsd, lastStatus, restarts>>

(* Mutant: the reset of the breaker is not broadcast. *)
ResetUnannounced ==
    /\ RM!ResetCircuitBreaker
    /\ UNCHANGED <<execVars, botVars>>

ResetBreaker ==
    /\ RM!ResetCircuitBreaker
    /\ BroadcastStatus
    /\ UNCHANGED <<execVars, encodes, loop, trade, walletBalanceUsd, armed, restarts>>

EmergencyStop ==
    /\ RM!TripCircuitBreaker
    /\ BroadcastStatus
    /\ UNCHANGED <<execVars, encodes, loop, trade, walletBalanceUsd, armed, restarts>>

(* Mutant: the limits of the last run are restored with auto-trade on. *)
RestoredConfig == botConfig' \in RM!BotConfigs

StartConfig == botConfig' \in RM!BotConfigs /\ ~botConfig'.autoTrade

(* SIGTERM or a crash, and the next start.  A call under way is cut off; its *)
(* transactions stay on the network.  Everything the process held in memory  *)
(* is lost, and the clients reconnect with what they have on display.        *)
Restart ==
    /\ restarts < MaxRestarts
    /\ restarts' = restarts + 1
    /\ circuitBreakerTripped' = FALSE
    /\ dailyLossUsd' = 0
    /\ dailyResetAt' = today + 1
    /\ StartConfig
    /\ inFlight' = {}
    /\ step' = "idle"
    /\ Sleep
    /\ walletBalanceUsd' \in WalletBalances
    /\ lastStatus' = <<>>
    /\ armed' = FALSE
    /\ UNCHANGED <<today, lossToday, lateLossToday, deploy, call, kind, lots, leg,
                   simulated, outcome, tx, wsLots, encodes>>

Midnight == RM!Midnight /\ UNCHANGED <<execVars, botVars>>

Mine == EX!Mine /\ UNCHANGED <<riskVars, botVars>>

LoopStep ==
    \/ StartScan
    \/ FindNothing
    \/ EmitThrows
    \/ \E opp \in Opportunities : RejectOpportunity(opp) \/ ExecuteOpportunity(opp)
    \/ SkipRebalance
    \/ StartRebalance
    \/ CallProgress
    \/ InsertTrade

Next ==
    \/ LoopStep
    \/ CallStep
    \/ UpdateWalletBalance
    \/ SetConfig
    \/ ResetBreaker
    \/ EmergencyStop
    \/ Restart
    \/ Midnight
    \/ Mine

Spec == Init /\ [][Next]_vars

(* Every await of the loop ends by itself, and the timer of the next scan    *)
(* fires; only a post to a relay may hang.                                   *)
FairSpec == Spec /\ WF_vars(LoopStep)

-----------------------------------------------------------------------------
ArbRunning == step # "idle" /\ kind[call] = "arb"

(* The types of the loop's variables; the loop is inside a call exactly when *)
(* the executor is.                                                          *)
TypeOK ==
    /\ encodes \in BOOLEAN
    /\ loop \in {"sleeping", "finding", "executing", "persisting", "balance", "rebalancing"}
    /\ trade \in {<<>>} \cup {<<opp>> : opp \in Opportunities}
    /\ walletBalanceUsd \in WalletBalances
    /\ armed \in BOOLEAN
    /\ lastStatus \in {<<>>} \cup {<<b>> : b \in BOOLEAN}
    /\ restarts \in 0..MaxRestarts
    /\ (loop \in {"executing", "rebalancing"}) = (step # "idle")

(* No automatic trade without the risk manager: an arbitrage is executing if *)
(* and only if an approval is outstanding, so every approval is followed by  *)
(* one execution and no exception or restart leaves one behind.              *)
ApprovedAndRunning == (inFlight # {}) = ArbRunning

(* After a start no trade is executed until the operator enables auto-trade: *)
(* the breaker and the loss counter do not survive a restart, but neither    *)
(* does autoTrade (riskManager.ts:31).                                       *)
ArmedByOperator == ArbRunning => armed

(* Every status a client holds shows the true state of the breaker: no path  *)
(* trips or resets it without a broadcast in the same run.                   *)
StatusIsCurrent == lastStatus # <<>> => lastStatus[1] = circuitBreakerTripped

(* Stopped means no new automatic trade: however the stop, the scan and the  *)
(* operator's edits interleave, none begins while the breaker is tripped.    *)
NoTradeStartsStopped == [][~ArbRunning /\ ArbRunning' => ~circuitBreakerTripped]_vars

(* The scan loop survives every exception: it always comes back to sleep, if *)
(* no relay hangs.                                                           *)
LoopSurvives == []<>(loop = "sleeping" \/ step = "relay")

-----------------------------------------------------------------------------
(* What the repository says of the bot and the code does not do. *)

GasLosses ==
    Cardinality({c \in EX!Calls : /\ kind[c] = "arb"
                                  /\ outcome[c] = "failed"
                                  /\ tx[c][1] = "reverted"})

(* README.md:200: the bot halts when its losses exceed the limit.  A trade   *)
(* that reverted on-chain has burnt gas, counted here as one unit; the loop  *)
(* books the profit expected of it instead.                                  *)
LossesHalt == [][RM!TradeApproved => GasLosses < botConfig.maxDailyLossUsd]_vars
=============================================================================
