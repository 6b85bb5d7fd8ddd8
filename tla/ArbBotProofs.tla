---------------------------- MODULE ArbBotProofs ----------------------------
(* Proofs about ArbBot, for any opportunities, limits, deployments, numbers  *)
(* of calls and restarts: no automatic trade without an approval, without    *)
(* the operator's switch, or behind a tripped breaker.                       *)
EXTENDS ArbBot, TLAPS

Places == {"sleeping", "finding", "executing", "persisting", "balance", "rebalancing"}

Types ==
    /\ encodes \in BOOLEAN /\ armed \in BOOLEAN
    /\ loop \in Places
    /\ trade \in {<<>>} \cup {<<opp>> : opp \in Opportunities}
    /\ walletBalanceUsd \in WalletBalances
    /\ lastStatus \in {<<>>} \cup {<<b>> : b \in BOOLEAN}
    /\ restarts \in 0..MaxRestarts
    /\ circuitBreakerTripped \in BOOLEAN
    /\ call \in 0..MaxCalls
    /\ kind \in [EX!Calls -> {"arb", "rebalance"}]

(* What the place of the loop says about the executor and the risk manager.  *)
Position ==
    /\ loop \in {"executing", "rebalancing"} <=> step # "idle"
    /\ loop = "executing" => /\ kind[call] = "arb" /\ inFlight # {} /\ armed
                            /\ trade # <<>>
    /\ loop = "rebalancing" => kind[call] = "rebalance"
    /\ loop # "executing" => inFlight = {}

(* Auto-trade is on only if the operator has switched it on. *)
SwitchedOn == botConfig.autoTrade => armed

Inductive == Types /\ Position /\ SwitchedOn /\ StatusIsCurrent

-----------------------------------------------------------------------------
LEMMA InitInductive == Init => Inductive
<1> SUFFICES ASSUME Init PROVE Inductive
  OBVIOUS
<1>1. call = 0 /\ kind = [c \in EX!Calls |-> "arb"] /\ step = "idle"
  BY DEF Init, EX!Init
<1>2. circuitBreakerTripped = FALSE /\ inFlight = {} /\ ~botConfig.autoTrade
  BY DEF Init, RM!Init
<1>3. Types
  <2>1. encodes \in BOOLEAN /\ armed \in BOOLEAN /\ circuitBreakerTripped \in BOOLEAN
    BY <1>2, ArbBotAssumption DEF Init
  <2>2. loop \in Places /\ trade = <<>> /\ lastStatus = <<>> /\ walletBalanceUsd \in WalletBalances
    BY DEF Init, Places
  <2>3. restarts \in 0..MaxRestarts /\ call \in 0..MaxCalls
    BY <1>1, ArbBotAssumption DEF Init
  <2>4. kind \in [EX!Calls -> {"arb", "rebalance"}]
    BY <1>1
  <2> QED BY <2>1, <2>2, <2>3, <2>4 DEF Types
<1>4. Position /\ SwitchedOn /\ StatusIsCurrent
  BY <1>1, <1>2 DEF Init, Position, SwitchedOn, StatusIsCurrent
<1> QED BY <1>3, <1>4 DEF Inductive

(* A step that leaves the executor idle and the loop outside a call. *)
LEMMA IdleStep ==
  ASSUME Inductive, step = "idle",
         loop' \in {"sleeping", "finding", "balance", "persisting"}, trade' \in {<<>>, trade},
         \/ lastStatus' = <<circuitBreakerTripped'>>
         \/ UNCHANGED <<lastStatus, circuitBreakerTripped>>,
         circuitBreakerTripped' \in BOOLEAN,
         UNCHANGED <<encodes, walletBalanceUsd, armed, restarts, inFlight, botConfig, execVars>>
  PROVE  Inductive'
<1> USE DEF Inductive
<1>1. UNCHANGED <<call, kind, step>>
  BY DEF execVars
<1>2. Types'
  BY <1>1 DEF Types, Places
<1>3. inFlight = {}
  BY DEF Position
<1>4. Position'
  BY <1>1, <1>3 DEF Position
<1>5. SwitchedOn'
  BY <1>1 DEF SwitchedOn
<1>6. StatusIsCurrent'
  BY DEF StatusIsCurrent
<1> QED BY <1>2, <1>4, <1>5, <1>6

LEMMA ScanInductive ==
  ASSUME Inductive,
         \/ StartScan
         \/ FindNothing
         \/ EmitThrows
         \/ \E opp \in Opportunities : RejectOpportunity(opp)
         \/ SkipRebalance
         \/ InsertTrade
  PROVE  Inductive'
<1> USE DEF Inductive
<1>1. step = "idle"
  BY DEF StartScan, FindNothing, EmitThrows, RejectOpportunity, SkipRebalance, InsertTrade, Position
<1>2. /\ loop' \in {"sleeping", "finding", "balance", "persisting"} /\ trade' \in {<<>>, trade}
      /\ \/ lastStatus' = <<circuitBreakerTripped'>>
         \/ UNCHANGED <<lastStatus, circuitBreakerTripped>>
      /\ UNCHANGED <<encodes, walletBalanceUsd, armed, restarts, execVars>>
  BY DEF StartScan, FindNothing, EmitThrows, RejectOpportunity, SkipRebalance, InsertTrade,
         Enter, EndScan, AbortScan, Sleep, BroadcastStatus, riskVars
<1>3. circuitBreakerTripped' \in BOOLEAN /\ UNCHANGED <<inFlight, botConfig>>
  BY DEF StartScan, FindNothing, EmitThrows, RejectOpportunity, SkipRebalance, InsertTrade,
         riskVars, RM!Reject, RM!RejectAndTrip, RM!historyVars, Types
<1> QED BY <1>1, <1>2, <1>3, IdleStep

(* The two ways into the executor. *)
LEMMA BeginFacts ==
  ASSUME Inductive, NEW k \in {"arb", "rebalance"}, NEW n, EX!Begin(k, n)
  PROVE  /\ call' \in 0..MaxCalls /\ call' = call + 1 /\ call' \in EX!Calls
         /\ kind' = [kind EXCEPT ![call'] = k]
         /\ kind' \in [EX!Calls -> {"arb", "rebalance"}] /\ kind'[call'] = k
         /\ \A c \in EX!Calls : c <= call' => c <= call \/ c = call'
         /\ step' # "idle"
  BY ArbBotAssumption DEF EX!Begin, EX!Calls, Inductive, Types

LEMMA ExecuteInductive ==
  ASSUME Inductive, NEW opp \in Opportunities, ExecuteOpportunity(opp)
  PROVE  Inductive'
<1> USE DEF Inductive
<1>1. /\ encodes /\ botConfig.autoTrade /\ inFlight' = {today}
      /\ UNCHANGED <<circuitBreakerTripped, botConfig>>
  BY DEF ExecuteOpportunity, RM!Approve, RM!WithinLimits
<1>2. /\ loop' = "executing" /\ trade' = <<opp>>
      /\ UNCHANGED <<encodes, walletBalanceUsd, lastStatus, armed, restarts>>
  BY DEF ExecuteOpportunity, Enter
<1>3. /\ call' \in 0..MaxCalls /\ kind' \in [EX!Calls -> {"arb", "rebalance"}]
      /\ kind'[call'] = "arb" /\ step' # "idle"
  BY BeginFacts DEF ExecuteOpportunity, EX!Execute
<1>4. Types'
  BY <1>1, <1>2, <1>3 DEF Types, Places
<1>5. Position' /\ SwitchedOn'
  BY <1>1, <1>2, <1>3 DEF Position, SwitchedOn
<1>6. StatusIsCurrent'
  BY <1>1, <1>2 DEF StatusIsCurrent
<1> QED BY <1>4, <1>5, <1>6

LEMMA RebalanceInductive ==
  ASSUME Inductive, StartRebalance
  PROVE  Inductive'
<1> USE DEF Inductive
<1>1. /\ loop = "balance" /\ loop' = "rebalancing" /\ trade' = <<>>
      /\ UNCHANGED <<encodes, walletBalanceUsd, lastStatus, armed, restarts>>
      /\ UNCHANGED <<circuitBreakerTripped, botConfig, inFlight>>
  BY DEF StartRebalance, Enter, riskVars
<1>2. PICK n \in 1..wsLots : EX!Begin("rebalance", n)
  BY DEF StartRebalance, EX!Rebalance
<1>3. /\ call' \in 0..MaxCalls /\ call' \in EX!Calls
      /\ kind' = [kind EXCEPT ![call'] = "rebalance"]
      /\ kind' \in [EX!Calls -> {"arb", "rebalance"}] /\ kind'[call'] = "rebalance"
      /\ \A c \in EX!Calls : c <= call' => c <= call \/ c = call'
      /\ step' # "idle"
  BY <1>2, BeginFacts
<1>4. Types'
  BY <1>1, <1>3 DEF Types, Places
<1>5. Position' /\ SwitchedOn'
  BY <1>1, <1>3 DEF Position, SwitchedOn
<1>6. StatusIsCurrent'
  BY <1>1, <1>3 DEF StatusIsCurrent, Types
<1> QED BY <1>4, <1>5, <1>6

(* A step of the executor, and what the loop does when the call returns. *)
LEMMA CallFrame ==
  ASSUME EX!Progress \/ EX!ConfirmError \/ EX!RelayAnswers
  PROVE  step # "idle" /\ UNCHANGED <<call, kind>>
BY DEF EX!Progress, EX!ConfirmError, EX!RelayAnswers, EX!Quote, EX!Build, EX!SimulateLeg,
       EX!CheckBalance, EX!Prepare, EX!SendAccepted, EX!SendAnswerLost, EX!SendRefused,
       EX!ReceiptFound, EX!ConfirmTimeout, EX!fixed

LEMMA CallInductive ==
  ASSUME Inductive, step # "idle", UNCHANGED <<call, kind>>, AfterCall
  PROVE  Inductive'
<1> USE DEF Inductive
<1>1. CASE step' # "idle"
  <2>1. UNCHANGED <<circuitBreakerTripped, botConfig, inFlight, encodes, loop, trade,
                    walletBalanceUsd, lastStatus, armed, restarts>>
    BY <1>1 DEF AfterCall, riskVars, botVars
  <2>2. Types'
    BY <2>1 DEF Types
  <2>3. Position' /\ SwitchedOn'
    BY <1>1, <2>1 DEF Position, SwitchedOn
  <2>4. StatusIsCurrent'
    BY <2>1 DEF StatusIsCurrent
  <2> QED BY <2>2, <2>3, <2>4
<1>2. CASE step' = "idle" /\ loop = "rebalancing"
  <2>1. /\ UNCHANGED <<circuitBreakerTripped, botConfig, inFlight, encodes,
                       walletBalanceUsd, armed, restarts>>
        /\ loop' = "sleeping" /\ trade' = <<>> /\ lastStatus' = <<circuitBreakerTripped'>>
    BY <1>2 DEF AfterCall, riskVars, EndScan, Sleep, BroadcastStatus
  <2>2. Types'
    BY <2>1 DEF Types, Places
  <2>3. Position' /\ SwitchedOn'
    BY <1>2, <2>1 DEF Position, SwitchedOn
  <2>4. StatusIsCurrent'
    BY <2>1 DEF StatusIsCurrent
  <2> QED BY <2>2, <2>3, <2>4
<1>3. CASE step' = "idle" /\ loop = "executing" /\ outcome'[call] = "threw"
  <2>1. /\ UNCHANGED <<circuitBreakerTripped, botConfig, encodes,
                       walletBalanceUsd, armed, restarts, lastStatus>>
        /\ loop' = "sleeping" /\ trade' = <<>> /\ inFlight' = {}
    BY <1>3 DEF AfterCall, RM!AbandonTrade, RM!riskVars, AbortScan, Sleep
  <2>2. Types'
    BY <2>1 DEF Types, Places
  <2>3. Position' /\ SwitchedOn'
    BY <1>3, <2>1 DEF Position, SwitchedOn
  <2>4. StatusIsCurrent'
    BY <2>1 DEF StatusIsCurrent
  <2> QED BY <2>2, <2>3, <2>4
<1>4. CASE step' = "idle" /\ loop # "rebalancing"
           /\ ~(loop = "executing" /\ outcome'[call] = "threw")
  <2>1. RM!RecordTrade(trade[1].netProfitUsd) /\ Enter("persisting", trade)
    BY <1>4 DEF AfterCall
  <2>2. loop = "executing" /\ trade # <<>>
    BY <1>4 DEF Position
  <2>3. trade[1].netProfitUsd \in Nat
    BY <2>2, ProfitsAssumption DEF Types
  <2>4. inFlight' = {} /\ UNCHANGED <<botConfig, circuitBreakerTripped>>
    <3>1. inFlight' = {} /\ UNCHANGED botConfig
      BY <2>1 DEF RM!RecordTrade
    <3>2. ~(trade[1].netProfitUsd < 0)
      BY <2>3
    <3>3. circuitBreakerTripped' = (circuitBreakerTripped \/ (0 > 0 /\ dailyLossUsd' >= botConfig.maxDailyLossUsd))
      BY <2>1, <3>2, Zenon DEF RM!RecordTrade
    <3>4. ~(0 > 0) /\ circuitBreakerTripped \in BOOLEAN
      BY DEF Types
    <3>5. UNCHANGED circuitBreakerTripped
      BY <3>3, <3>4, Zenon
    <3> QED BY <3>1, <3>5
  <2>5. /\ loop' = "persisting"
        /\ UNCHANGED <<trade, encodes, walletBalanceUsd, armed, restarts, lastStatus>>
    BY <2>1 DEF Enter
  <2>6. Types'
    BY <2>4, <2>5 DEF Types, Places
  <2>7. Position' /\ SwitchedOn'
    BY <1>4, <2>4, <2>5 DEF Position, SwitchedOn
  <2>8. StatusIsCurrent'
    BY <2>4, <2>5 DEF StatusIsCurrent
  <2> QED BY <2>6, <2>7, <2>8
<1> QED BY <1>1, <1>2, <1>3, <1>4

(* The handlers that interleave with the loop. *)
LEMMA HandlerInductive ==
  ASSUME Inductive,
         \/ UpdateWalletBalance
         \/ SetConfig
         \/ ResetBreaker
         \/ EmergencyStop
         \/ Midnight
         \/ Mine
         \/ UNCHANGED vars
  PROVE  Inductive'
<1> USE DEF Inductive
<1>1. /\ UNCHANGED <<encodes, loop, trade, restarts, inFlight, call, kind, step>>
      /\ walletBalanceUsd' \in {walletBalanceUsd} \cup WalletBalances
  BY DEF UpdateWalletBalance, SetConfig, ResetBreaker, EmergencyStop, Midnight, Mine, vars,
         RM!UpdateConfig, RM!ResetCircuitBreaker, RM!TripCircuitBreaker, RM!Midnight, RM!historyVars,
         EX!Mine, EX!MineOk, EX!MineRevert, EX!callVars, riskVars, execVars, botVars
<1>2. /\ \/ lastStatus' = <<circuitBreakerTripped'>>
         \/ UNCHANGED <<lastStatus, circuitBreakerTripped>>
      /\ circuitBreakerTripped' \in BOOLEAN
  BY DEF UpdateWalletBalance, SetConfig, ResetBreaker, EmergencyStop, Midnight, Mine, vars,
         RM!UpdateConfig, RM!ResetCircuitBreaker, RM!TripCircuitBreaker, RM!Midnight, RM!riskVars,
         riskVars, botVars, BroadcastStatus, Types
<1>3. /\ armed' \in BOOLEAN /\ (armed => armed')
      /\ botConfig'.autoTrade => armed'
  <2>1. CASE SetConfig
    <3>1. botConfig'.autoTrade \in BOOLEAN
      BY <2>1 DEF SetConfig, RM!UpdateConfig, RM!BotConfigs
    <3>2. armed' = (armed \/ botConfig'.autoTrade)
      BY <2>1 DEF SetConfig
    <3>3. armed \in BOOLEAN
      BY DEF Types
    <3> QED BY <3>1, <3>2, <3>3, Zenon
  <2>2. CASE ~SetConfig
    <3>1. UNCHANGED <<armed, botConfig>>
      BY <2>2 DEF UpdateWalletBalance, ResetBreaker, EmergencyStop, Midnight, Mine, vars,
         RM!ResetCircuitBreaker, RM!TripCircuitBreaker, RM!Midnight, RM!riskVars, riskVars, botVars
    <3> QED BY <3>1 DEF Types, SwitchedOn
  <2> QED BY <2>1, <2>2
<1>4. Types'
  BY <1>1, <1>2, <1>3 DEF Types
<1>5. Position' /\ SwitchedOn'
  BY <1>1, <1>3 DEF Position, SwitchedOn
<1>6. StatusIsCurrent'
  BY <1>1, <1>2 DEF StatusIsCurrent
<1> QED BY <1>4, <1>5, <1>6

LEMMA RestartInductive == Inductive /\ Restart => Inductive'
<1> SUFFICES ASSUME Inductive, Restart PROVE Inductive'
  OBVIOUS
<1> USE DEF Inductive
<1>1. /\ loop' = "sleeping" /\ trade' = <<>> /\ lastStatus' = <<>> /\ inFlight' = {}
      /\ step' = "idle" /\ circuitBreakerTripped' = FALSE /\ armed' = FALSE
      /\ ~botConfig'.autoTrade /\ walletBalanceUsd' \in WalletBalances
      /\ UNCHANGED <<encodes, call, kind>>
  BY DEF Restart, Sleep, StartConfig
<1>2. restarts' \in 0..MaxRestarts
  BY ArbBotAssumption DEF Restart, Types
<1>3. Types'
  BY <1>1, <1>2 DEF Types, Places
<1>4. Position' /\ SwitchedOn' /\ StatusIsCurrent'
  BY <1>1 DEF Position, SwitchedOn, StatusIsCurrent
<1> QED BY <1>3, <1>4

LEMMA NextInductive == Inductive /\ [Next]_vars => Inductive'
<1> SUFFICES ASSUME Inductive, [Next]_vars PROVE Inductive'
  OBVIOUS
<1>1. CASE CallProgress \/ CallStep
  BY <1>1, CallFrame, CallInductive DEF CallProgress, CallStep
<1>2. CASE Restart
  BY <1>2, RestartInductive
<1>3. CASE StartRebalance
  BY <1>3, RebalanceInductive
<1>4. CASE \E opp \in Opportunities : ExecuteOpportunity(opp)
  BY <1>4, ExecuteInductive
<1> QED BY <1>1, <1>2, <1>3, <1>4, ScanInductive, HandlerInductive DEF Next, LoopStep

THEOREM Invariance == Spec => []Inductive
<1>1. Init => Inductive
  BY InitInductive
<1> QED BY <1>1, NextInductive, PTL DEF Spec

-----------------------------------------------------------------------------
(* The loop's variables have their types, and the loop is inside a call      *)
(* exactly when the executor is.                                             *)
THEOREM TypeCorrect == Spec => []TypeOK
<1>1. Inductive => TypeOK
  <2> SUFFICES ASSUME Inductive PROVE TypeOK
    OBVIOUS
  <2>1. (loop \in {"executing", "rebalancing"}) = (step # "idle")
    <3>1. loop \in {"executing", "rebalancing"} <=> step # "idle"
      BY DEF Inductive, Position
    <3>2. /\ (loop \in {"executing", "rebalancing"}) \in BOOLEAN
          /\ (step # "idle") \in BOOLEAN
      OBVIOUS
    <3> QED BY <3>1, <3>2, Zenon
  <2> QED BY <2>1 DEF Inductive, Types, TypeOK, Places
<1> QED BY <1>1, Invariance, PTL

(* An approval of the risk manager is outstanding exactly while the          *)
(* arbitrage it allowed is executing.                                        *)
THEOREM ApprovalTheorem == Spec => []ApprovedAndRunning
<1>1. Inductive => ApprovedAndRunning
  <2> SUFFICES ASSUME Inductive PROVE ApprovedAndRunning
    OBVIOUS
  <2>1. inFlight # {} <=> (step # "idle" /\ kind[call] = "arb")
    BY DEF Inductive, Position
  <2>2. (inFlight # {}) = (step # "idle" /\ kind[call] = "arb")
    BY <2>1, Zenon
  <2> QED BY <2>2 DEF ApprovedAndRunning, ArbRunning
<1> QED BY <1>1, Invariance, PTL

(* No arbitrage executes before the operator has enabled auto-trade in this  *)
(* run of the process.                                                       *)
THEOREM ArmedTheorem == Spec => []ArmedByOperator
<1>1. Inductive => ArmedByOperator
  BY DEF Inductive, Position, ArmedByOperator, ArbRunning
<1> QED BY <1>1, Invariance, PTL

(* The last status broadcast shows the breaker as it is. *)
THEOREM StatusTheorem == Spec => []StatusIsCurrent
<1>1. Inductive => StatusIsCurrent
  BY DEF Inductive
<1> QED BY <1>1, Invariance, PTL

(* No arbitrage begins while the breaker is tripped. *)
THEOREM StoppedTheorem == Spec => NoTradeStartsStopped
<1>1. Inductive /\ [Next]_vars => [~ArbRunning /\ ArbRunning' => ~circuitBreakerTripped]_vars
  <2> SUFFICES ASSUME Inductive, Next, ~ArbRunning, ArbRunning'
               PROVE  ~circuitBreakerTripped
    BY DEF ArbRunning
  <2>1. CASE \E opp \in Opportunities : ExecuteOpportunity(opp)
    BY <2>1 DEF ExecuteOpportunity, RM!Approve, RM!WithinLimits
  <2>2. CASE StartRebalance
    <3>1. PICK n \in 1..wsLots : EX!Begin("rebalance", n)
      BY <2>2 DEF StartRebalance, EX!Rebalance
    <3>2. kind'[call'] = "rebalance"
      BY <3>1, BeginFacts
    <3> QED BY <3>2 DEF ArbRunning
  <2>3. CASE CallProgress \/ CallStep
    <3>1. step # "idle" /\ UNCHANGED <<call, kind>>
      BY <2>3, CallFrame DEF CallProgress, CallStep
    <3> QED BY <3>1 DEF ArbRunning
  <2>4. CASE Restart
    BY <2>4 DEF Restart, ArbRunning
  <2>5. CASE \/ StartScan \/ FindNothing \/ EmitThrows \/ SkipRebalance \/ InsertTrade
             \/ \E opp \in Opportunities : RejectOpportunity(opp)
             \/ UpdateWalletBalance \/ SetConfig \/ ResetBreaker \/ EmergencyStop \/ Midnight
    <3>1. UNCHANGED <<step, call, kind>>
      BY <2>5 DEF StartScan, FindNothing, EmitThrows, SkipRebalance, InsertTrade, RejectOpportunity,
         UpdateWalletBalance, SetConfig, ResetBreaker, EmergencyStop, Midnight, execVars
    <3> QED BY <3>1 DEF ArbRunning
  <2>6. CASE Mine
    <3>1. UNCHANGED <<step, call, kind>>
      BY <2>6 DEF Mine, EX!Mine, EX!MineOk, EX!MineRevert, EX!callVars
    <3> QED BY <3>1 DEF ArbRunning
  <2> QED BY <2>1, <2>2, <2>3, <2>4, <2>5, <2>6 DEF Next, LoopStep
<1> QED BY <1>1, Invariance, PTL DEF Spec, NoTradeStartsStopped
=============================================================================
