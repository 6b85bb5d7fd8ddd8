------------------------------ MODULE Executor ------------------------------
(* The executor (backend/src/executor.ts) with the simulator it calls        *)
(* (backend/src/simulator.ts), the wallet and the chain.                     *)
(*                                                                           *)
(* A call is one execution of execute() ("arb") or of rebalanceToUsdc()      *)
(* ("rebalance").  The bot has one call at a time: both are awaited by the   *)
(* scan loop (index.ts:127, 156), and the third caller, manual_execute, is   *)
(* modelled in ArbBot.  A step is what runs between two awaits.              *)
(*                                                                           *)
(* A call sends at most two transactions, numbered 1 and 2: the legs of a    *)
(* sequential arbitrage, or the single transaction of an atomic one or of a  *)
(* rebalance.  The WS position of the wallet is counted in lots, a lot being *)
(* what leg 1 buys and leg 2 sells (opportunity.midAmount).                  *)
EXTENDS Integers

CONSTANTS
    Deployments,   \* configurations the process may be started with
    InitialLots,   \* lots of WS the wallet may hold at the start
    MaxCalls       \* bound: the number of calls

(* validateConfig() refuses to start in live mode without a signer. *)
ValidConfig(d) == d.dryRun \/ d.signer \/ d.remoteSigner

DeploymentType ==
    {d \in [dryRun : BOOLEAN, signer : BOOLEAN, remoteSigner : BOOLEAN,
            atomicHelper : BOOLEAN, mevRelay : BOOLEAN] : ValidConfig(d)}

ASSUME ExecutorAssumption ==
    /\ Deployments \subseteq DeploymentType
    /\ InitialLots \subseteq Nat
    /\ MaxCalls \in Nat

VARIABLES
    deploy,     \* the configuration, read once at start-up
    call,       \* number of the current call, or of the last one
    kind,       \* kind[c]: what call c is
    lots,       \* lots[c]: lots of WS that transaction 1 of rebalance c sells
    step,       \* where the current call is
    leg,        \* which transaction is being simulated, sent or relayed
    simulated,  \* transactions of the current call whose eth_call succeeded
    outcome,    \* outcome[c]: what call c returned
    tx,         \* tx[c][i]: fate of transaction i of call c
    wsLots      \* lots of WS in the wallet

callVars == <<deploy, call, kind, lots, step, leg, simulated, outcome>>
worldVars == <<tx, wsLots>>
vars == <<callVars, worldVars>>

Calls == 1..MaxCalls
Legs == {1, 2}
Steps == {"idle", "quote", "build", "simulate", "balance", "prepare", "send", "relay", "confirm"}

(* "threw" is a rejected promise, "none" a call that has not returned.       *)
Statuses == {"none", "threw", "failed", "confirmed", "simulated_only", "not_attempted"}

Sequential(c) == kind[c] = "arb" /\ ~deploy.atomicHelper

Sent(c, i) == tx[c][i] # "none"
Mined(c, i) == tx[c][i] \in {"ok", "reverted"}

Init ==
    /\ deploy \in Deployments
    /\ call = 0
    /\ kind = [c \in Calls |-> "arb"]
    /\ lots = [c \in Calls |-> 0]
    /\ step = "idle"
    /\ leg = 1
    /\ simulated = {}
    /\ outcome = [c \in Calls |-> "none"]
    /\ tx = [c \in Calls |-> [i \in Legs |-> "none"]]
    /\ wsLots \in InitialLots

-----------------------------------------------------------------------------
(* The call *)

Goto(s) == /\ step' = s
           /\ UNCHANGED <<leg, outcome>>

Return(status) ==
    /\ step' = "idle"
    /\ outcome' = [outcome EXCEPT ![call] = status]
    /\ UNCHANGED leg

Begin(k, n) ==
    /\ step = "idle"
    /\ call < MaxCalls
    /\ call' = call + 1
    /\ kind' = [kind EXCEPT ![call + 1] = k]
    /\ lots' = [lots EXCEPT ![call + 1] = n]
    /\ step' = IF k = "arb" THEN "build" ELSE "quote"
    /\ leg' = 1
    /\ simulated' = {}
    /\ UNCHANGED <<deploy, outcome, worldVars>>

Execute == Begin("arb", 0)

(* The caller has read a WS balance above the threshold. *)
Rebalance == \E n \in 1..wsLots : Begin("rebalance", n)

fixed == <<deploy, call, kind, lots>>

(* At least one DEX quotes the swap, or none does. *)
Quote ==
    /\ step = "quote"
    /\ Goto("build") \/ Return("not_attempted")
    /\ UNCHANGED <<fixed, simulated, worldVars>>

(* buildSwapTx() asks the pool for a fresh quote; outside any try block.     *)
Build ==
    /\ step = "build"
    /\ Goto("simulate") \/ Return("threw")
    /\ UNCHANGED <<fixed, simulated, worldVars>>

SimulationFails ==
    Return(IF kind[call] = "arb" THEN "failed" ELSE "not_attempted")

(* Mutant: the dry-run gate is missing. *)
NoDryRunGate == step' = "prepare" /\ leg' = 1 /\ UNCHANGED outcome

(* What follows a successful simulation without an await: the dry-run gate   *)
(* and the signer check, which validateConfig() has made redundant.          *)
AfterSimulation ==
    IF deploy.dryRun THEN Return("simulated_only")
    ELSE IF deploy.signer \/ deploy.remoteSigner THEN step' = "prepare" /\ leg' = 1 /\ UNCHANGED outcome
    ELSE IF kind[call] = "arb" THEN Return("threw")
    ELSE Return("not_attempted")

(* Mutant: leg 2 is simulated in the state that leg 1 leaves behind. *)
CanPayAfterLegOne(i) == kind[call] = "rebalance" => wsLots >= lots[call]

(* The wallet can pay what transaction i sells, as eth_call sees it: the     *)
(* current state, in which no earlier leg of the call has been executed.     *)
CanPay(i) ==
    CASE kind[call] = "rebalance" -> wsLots >= lots[call]
      [] i = 2 -> wsLots >= 1
      [] OTHER -> TRUE

(* Mutant: the simulation of leg 1 stands for both. *)
SimulateFirstLegOnly ==
    /\ step = "simulate"
    /\ UNCHANGED <<fixed, worldVars>>
    /\ \/ SimulationFails /\ UNCHANGED simulated
       \/ /\ CanPay(leg)
          /\ simulated' = simulated \cup {leg}
          /\ IF kind[call] = "rebalance" THEN AfterSimulation ELSE Goto("balance")

SimulateLeg ==
    /\ step = "simulate"
    /\ UNCHANGED <<fixed, worldVars>>
    /\ \/ SimulationFails /\ UNCHANGED simulated
       \/ /\ CanPay(leg)
          /\ simulated' = simulated \cup {leg}
          /\ IF kind[call] = "rebalance" THEN AfterSimulation
             ELSE /\ step' = IF leg = 1 THEN "simulate" ELSE "balance"
                  /\ leg' = 2
                  /\ UNCHANGED outcome

(* The balance read after the simulations is the wallet's present USDC, so   *)
(* it compares with amountIn + minProfit however unprofitable the trade is;  *)
(* an unreadable balance passes.                                             *)
CheckBalance ==
    /\ step = "balance"
    /\ SimulationFails \/ AfterSimulation
    /\ UNCHANGED <<fixed, simulated, worldVars>>

(* Delay, fee data and nonce; a failure is caught and recorded. *)
Prepare ==
    /\ step = "prepare"
    /\ Goto("send") \/ Return("failed")
    /\ UNCHANGED <<fixed, simulated, worldVars>>

(* The helper contract has no function with the selector the executor calls, *)
(* and no fallback: the gas estimate of the atomic transaction fails.        *)
Sendable == deploy.signer /\ (kind[call] = "rebalance" \/ ~deploy.atomicHelper)

(* Mutant: the leg counter runs past the legs. *)
NextLegOverrun ==
    IF Sequential(call)
    THEN step' = "send" /\ leg' = leg + 1 /\ UNCHANGED outcome
    ELSE step' = "confirm" /\ leg' = 1 /\ UNCHANGED outcome

NextLeg ==
    IF Sequential(call) /\ leg = 1
    THEN step' = "send" /\ leg' = 2 /\ UNCHANGED outcome
    ELSE step' = "confirm" /\ leg' = 1 /\ UNCHANGED outcome

(* signAndSend(): the transaction enters the mempool and, if a relay is      *)
(* configured, its hash is posted there afterwards.                          *)
SendAccepted ==
    /\ step = "send"
    /\ Sendable
    /\ tx' = [tx EXCEPT ![call][leg] = "pending"]
    /\ IF deploy.mevRelay THEN Goto("relay") ELSE NextLeg
    /\ UNCHANGED <<fixed, simulated, wsLots>>

(* The node took the transaction but its answer was lost. *)
SendAnswerLost ==
    /\ step = "send"
    /\ Sendable
    /\ tx' = [tx EXCEPT ![call][leg] = "pending"]
    /\ Return("failed")
    /\ UNCHANGED <<fixed, simulated, wsLots>>

(* Mutant: a refused transaction does not stop the legs after it. *)
SendRefusedIgnored ==
    /\ step = "send"
    /\ NextLeg
    /\ UNCHANGED <<fixed, simulated, worldVars>>

(* No signer, a failing gas estimate, or a transaction the node refuses.     *)
SendRefused ==
    /\ step = "send"
    /\ Return("failed")
    /\ UNCHANGED <<fixed, simulated, worldVars>>

(* The answer of the relay, or its error, which is swallowed. *)
RelayAnswers ==
    /\ step = "relay"
    /\ NextLeg
    /\ UNCHANGED <<fixed, simulated, worldVars>>

(* Only transaction 1 is waited for.  The wait ends with its receipt, with   *)
(* null after a minute, or with the failure of every provider.               *)
ReceiptFound ==
    /\ step = "confirm"
    /\ Mined(call, 1)
    /\ IF tx[call][1] = "ok" THEN Return("confirmed")
       ELSE Return("failed")
    /\ UNCHANGED <<fixed, simulated, worldVars>>

(* Mutant: a missing receipt counts as success. *)
TimeoutConfirms ==
    /\ step = "confirm"
    /\ Return("confirmed")
    /\ UNCHANGED <<fixed, simulated, worldVars>>

(* Mutant: the wait for the receipt has no deadline. *)
NoDeadline == FALSE

ConfirmTimeout ==
    /\ step = "confirm"
    /\ Return("failed")
    /\ UNCHANGED <<fixed, simulated, worldVars>>

ConfirmError ==
    /\ step = "confirm"
    /\ Return("failed")
    /\ UNCHANGED <<fixed, simulated, worldVars>>

Confirm == ReceiptFound \/ ConfirmTimeout \/ ConfirmError

-----------------------------------------------------------------------------
(* The world *)

(* Leg 2 carries the nonce after leg 1's, so it is mined after it. *)
Mineable(c, i) ==
    /\ tx[c][i] = "pending"
    /\ i = 2 => Mined(c, 1)

LotsAfter(c, i) ==
    IF kind[c] = "rebalance" THEN wsLots - lots[c]
    ELSE IF i = 1 THEN wsLots + 1 ELSE wsLots - 1

MineOk(c, i) ==
    /\ Mineable(c, i)
    /\ LotsAfter(c, i) >= 0
    /\ tx' = [tx EXCEPT ![c][i] = "ok"]
    /\ wsLots' = LotsAfter(c, i)
    /\ UNCHANGED callVars

MineRevert(c, i) ==
    /\ Mineable(c, i)
    /\ tx' = [tx EXCEPT ![c][i] = "reverted"]
    /\ UNCHANGED <<callVars, wsLots>>

Mine == \E c \in Calls, i \in Legs : MineOk(c, i) \/ MineRevert(c, i)

(* The awaits of a call that end by themselves: the RPC client gives up on a *)
(* request, and the wait for the receipt has a deadline.  The post to the    *)
(* relay has no timeout, so it is not one of them.                           *)
Progress ==
    \/ Quote
    \/ Build
    \/ SimulateLeg
    \/ CheckBalance
    \/ Prepare
    \/ SendAccepted
    \/ SendAnswerLost
    \/ SendRefused
    \/ ReceiptFound
    \/ ConfirmTimeout

Next ==
    \/ Execute
    \/ Rebalance
    \/ Progress
    \/ ConfirmError
    \/ RelayAnswers
    \/ Mine

Spec == Init /\ [][Next]_vars

FairSpec == Spec /\ WF_vars(Progress)

-----------------------------------------------------------------------------
(* The types of the variables; calls that have not begun have no traces.     *)
TypeOK ==
    /\ deploy \in Deployments
    /\ call \in 0..MaxCalls
    /\ kind \in [Calls -> {"arb", "rebalance"}]
    /\ lots \in [Calls -> Nat]
    /\ step \in Steps
    /\ step # "idle" => call > 0
    /\ leg \in Legs
    /\ simulated \subseteq Legs
    /\ outcome \in [Calls -> Statuses]
    /\ tx \in [Calls -> [Legs -> {"none", "pending", "ok", "reverted"}]]
    /\ wsLots \in Nat

Needed(c) == IF kind[c] = "arb" THEN Legs ELSE {1}

(* The safety guarantee of simulator.ts:8-9: when a transaction goes out, it *)
(* and every other transaction of its call have been simulated with success. *)
SimulatedBeforeSent ==
    [][\A c \in Calls, i \in Legs :
          ~Sent(c, i) /\ Sent(c, i)' => c = call /\ Needed(c) \subseteq simulated]_vars

(* README.md:120: a process started with DRY_RUN never sends anything.       *)
DryRunInert == deploy.dryRun => \A c \in Calls, i \in Legs : ~Sent(c, i)

(* Leg 2 is only ever on the network behind leg 1: the position is opened    *)
(* before it is closed, and leg 2 is never executed while leg 1 is pending.  *)
LegsInOrder ==
    \A c \in Calls :
        /\ Sent(c, 2) => kind[c] = "arb" /\ Sent(c, 1)
        /\ Mined(c, 2) => Mined(c, 1)

(* A transaction is sent only if its call can still report it: nothing is    *)
(* sent for a call that has returned, and a call that threw, declined or     *)
(* only simulated has sent nothing; confirmed means executed with success.   *)
Contract == INSTANCE ExecutionContract WITH
    n <- call,
    open <- step # "idle",
    exposed <- {c \in Calls : Sent(c, 1)},
    settled <- {c \in Calls : tx[c][1] = "ok"},
    verdict <- [c \in Calls |->
        CASE outcome[c] \in {"threw", "simulated_only", "not_attempted"} -> "inert"
          [] OTHER -> outcome[c]]

ImplementsContract == Contract!Spec

(* Leg 2 is simulated in the present state, before leg 1 is executed: a      *)
(* wallet that holds no WS never gets a trade past the simulation, so a bot  *)
(* that starts without WS never trades, and reports no simulated success.    *)
ArbNeedsStock ==
    wsLots = 0 /\ (\A c \in Calls, i \in Legs : ~Sent(c, i)) =>
        /\ step \notin {"prepare", "send", "relay", "confirm"}
        /\ \A c \in Calls : outcome[c] # "simulated_only"

(* A call always returns, unless it hangs in the post to the relay.          *)
CallReturns == [](step # "idle" => <>(step \in {"idle", "relay"}))

-----------------------------------------------------------------------------
(* What the repository says of the executor and the code does not do. *)

(* executor.ts:8: the result is recorded; but a trade is recorded as         *)
(* confirmed when leg 1 succeeds, whatever becomes of leg 2.                 *)
ConfirmedMeansBothLegs ==
    \A c \in Calls : outcome[c] = "confirmed" /\ Sequential(c) => tx[c][2] # "reverted"
=============================================================================
