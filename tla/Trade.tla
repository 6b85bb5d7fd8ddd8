-------------------------------- MODULE Trade --------------------------------
(* One sequential trade, from the opportunity that ArbFinder reports to the  *)
(* tokens in the wallet: the adapters that build the swaps (buildSwapTx of   *)
(* backend/src/poolAdapters/), the simulation (simulator.ts), the broadcast  *)
(* (executor.ts), and the chain that executes the swaps when it likes, while *)
(* the pools move.  Executor has the same steps without the amounts; this    *)
(* module has the amounts and the pools.  The helper contract AtomicArb      *)
(* (hardhat/contracts/AtomicArb.sol), which the bot's own call never         *)
(* reaches, is used by its owner by hand: with any two swaps, paying to      *)
(* anyone, and with the profit measured in either token.                     *)
EXTENDS ArbFinder

CONSTANTS
    MaxSlippage,     \* config.maxSlippageBps, in percent
    InitialWallets,  \* token balances of the wallet at the start
    InitialHelpers,  \* token balances of the helper contract at the start
    MaxHelperCalls   \* bound: calls of the helper

Holdings == [usdc : Nat, ws : Nat]

Tokens == {"usdc", "ws"}

ASSUME TradeAssumption ==
    /\ MaxSlippage \in 0..100
    /\ InitialWallets \subseteq [usdc : Nat, ws : Amounts]
    /\ InitialHelpers \subseteq [Tokens -> Nat]
    /\ MaxHelperCalls \in Nat

VARIABLES
    stage,     \* where execute() is; "watching" before, "done" after
    leg,       \* the leg that is built, simulated or sent
    tx,        \* tx[l]: the swap of leg l and its fate
    wallet,    \* the wallet's tokens on chain
    late,      \* a rebalance whose wait for the receipt ran out: "none", "pending", "mined"
    repriced,  \* history: a pool moved between the start of the scan and the last build
    drained,   \* history: the late rebalance was mined after leg 2 was simulated
    helper,    \* the tokens in AtomicArb
    promised,  \* history: what its calls have promised to leave of each token
    helperCalls

tradeStageVars == <<stage, leg, tx, repriced>>
chainVars == <<wallet, late, drained>>
helperVars == <<helper, promised, helperCalls>>
tradingVars == <<tradeStageVars, chainVars, helperVars>>
allVars == <<vars, tradingVars>>

Legs == 1..2
Unbuilt == [in |-> 0, minOut |-> 0, out |-> 0, status |-> "none"]

TradeInit ==
    /\ Init
    /\ stage = "watching"
    /\ leg = 1
    /\ tx = [l \in Legs |-> Unbuilt]
    /\ wallet \in InitialWallets
    /\ walletBalanceUsd = wallet.usdc
    /\ late \in IF wallet.ws > 0 THEN {"none", "pending"} ELSE {"none"}
    /\ repriced = FALSE
    /\ drained = FALSE
    /\ helper \in InitialHelpers
    /\ promised = helper
    /\ helperCalls = 0

(* Leg 1 buys WS on the DEX of the better quote, leg 2 sells on the other.   *)
DexOf(l) == IF l = 1 THEN buyDex ELSE Other(buyDex)
QuoteOf(l, a) == IF l = 1 THEN Buy(pool[DexOf(1)], a) ELSE Sell(pool[DexOf(2)], a)

-----------------------------------------------------------------------------
(* The scan goes on while no trade runs; the trade is awaited by the loop.   *)

Scan ==
    /\ stage = "watching" /\ helperCalls = 0
    /\ \/ StartScan
       \/ \E d \in Dexes : QuoteArrives(d)
       \/ QuoteFails
       \/ SellQuoteArrives
       \/ GasArrives
    /\ UNCHANGED tradingVars

(* The timer of index.ts reads the balance from the chain; it matters to the *)
(* next scan only. *)
UpdateWalletBalance ==
    /\ stage = "watching" /\ helperCalls = 0
    /\ WalletChanges
    /\ walletBalanceUsd' = wallet.usdc
    /\ UNCHANGED tradingVars

PoolsMove ==
    /\ \E d \in Dexes : PoolMoves(d)
    /\ UNCHANGED tradingVars

-----------------------------------------------------------------------------
(* execute() *)

(* The risk manager has approved the opportunity.                            *)
Execute ==
    /\ stage = "watching" /\ pc = "idle" /\ result = "opportunity"
    /\ stage' = "building"
    /\ UNCHANGED <<vars, leg, tx, repriced, chainVars, helperVars>>

Abort == stage' = "done" /\ UNCHANGED <<leg, tx>>

(* After the last leg, the next stage begins with the first one again.       *)
NextLeg(next) ==
    IF leg = 1 THEN leg' = 2 /\ UNCHANGED stage ELSE leg' = 1 /\ stage' = next

(* The least output a swap accepts: its quote less the slippage.             *)
MinOut(out) == (out * (100 - MaxSlippage)) \div 100

AmountOf(l) == IF l = 1 THEN amountIn ELSE midAmount

(* Mutant: the swap is built without a least output. *)
SwapUnprotected(l) == [in |-> AmountOf(l), minOut |-> 0, out |-> 0, status |-> "built"]

(* buildSwapTx() asks for a new quote: the least output is that of the       *)
(* moment of building, and the amount that of the scan.                      *)
Swap(l) ==
    [in |-> AmountOf(l), minOut |-> MinOut(QuoteOf(l, AmountOf(l))), out |-> 0, status |-> "built"]

BuildSwapTx ==
    /\ stage = "building"
    /\ tx' = [tx EXCEPT ![leg] = Swap(leg)]
    /\ repriced' = moved
    /\ NextLeg("simulating")
    /\ UNCHANGED <<vars, chainVars, helperVars>>

Balance(l) == IF l = 1 THEN wallet.usdc ELSE wallet.ws

(* Mutant: the simulation looks at the price only. *)
FillablePriceOnly(l) == QuoteOf(l, tx[l].in) >= tx[l].minOut

(* The router takes the input and pays no less than the least output.        *)
Fillable(l) == Balance(l) >= tx[l].in /\ QuoteOf(l, tx[l].in) >= tx[l].minOut

(* eth_call of each leg by itself, in the state of the moment.               *)
SimulateTx ==
    /\ stage = "simulating"
    /\ Fillable(leg)
    /\ NextLeg("checking")
    /\ UNCHANGED <<vars, tx, repriced, chainVars, helperVars>>

(* The balance, which the trade has not touched yet, is compared with what   *)
(* the trade should leave; a balance that cannot be read passes.             *)
CheckBalance ==
    /\ stage = "checking"
    /\ stage' = "sending"
    /\ UNCHANGED <<vars, leg, tx, repriced, chainVars, helperVars>>

BalanceTooLow == wallet.usdc < amountIn + (amountOut - amountIn) \div 2

(* A quote, a simulation, a balance or the node says no, or a request fails. *)
Refuse ==
    /\ stage \in {"building", "simulating", "sending"} \/ (stage = "checking" /\ BalanceTooLow)
    /\ Abort
    /\ UNCHANGED <<vars, repriced, chainVars, helperVars>>

(* The node takes the transaction; if its answer is lost, the trade ends.    *)
Send ==
    /\ stage = "sending"
    /\ tx' = [tx EXCEPT ![leg].status = "pending"]
    /\ NextLeg("done") \/ (stage' = "done" /\ UNCHANGED leg)
    /\ UNCHANGED <<vars, repriced, chainVars, helperVars>>

-----------------------------------------------------------------------------
(* The chain: transactions are executed in the order of their nonces.        *)

Mineable(l) ==
    /\ tx[l].status = "pending"
    /\ late # "pending"
    /\ l = 2 => tx[1].status # "pending"

Fill(l) ==
    LET out == QuoteOf(l, tx[l].in)
    IN  /\ Mineable(l) /\ Fillable(l)
        /\ tx' = [tx EXCEPT ![l].status = "filled", ![l].out = out]
        /\ wallet' = IF l = 1
                     THEN [usdc |-> wallet.usdc - tx[1].in, ws |-> wallet.ws + out]
                     ELSE [usdc |-> wallet.usdc + out, ws |-> wallet.ws - tx[2].in]
        /\ UNCHANGED <<vars, stage, leg, repriced, late, drained, helperVars>>

(* The price has left the slippage, the tokens are missing, or the deadline  *)
(* of five minutes has passed.                                               *)
Revert(l) ==
    /\ Mineable(l)
    /\ tx' = [tx EXCEPT ![l].status = "reverted"]
    /\ UNCHANGED <<vars, stage, leg, repriced, chainVars, helperVars>>

(* A rebalance sells all WS; its nonce is lower than the trade's.            *)
LateRebalance ==
    /\ late = "pending"
    /\ late' = "mined"
    /\ \/ /\ \E d \in Dexes :
                wallet' = [usdc |-> wallet.usdc + Sell(pool[d], wallet.ws), ws |-> 0]
          /\ drained' = (stage \in {"checking", "sending", "done"})
       \/ UNCHANGED <<wallet, drained>>
    /\ UNCHANGED <<vars, tradeStageVars, helperVars>>

-----------------------------------------------------------------------------
(* AtomicArb, called by its owner.  It shares only the pools with the bot:   *)
(* as a bound, it is used instead of it, and with no rebalance under way.    *)
(* Native coin and approvals are left out.                                   *)

HelperIdle ==
    /\ stage = "watching" /\ pc = "idle" /\ result = "none"
    /\ late # "pending" /\ helperCalls < MaxHelperCalls

(* The owner names any receiver, of a swap or of a withdrawal; a swap that   *)
(* sells more than is held would revert. *)
Accounts == {"helper", "wallet", "other"}
Swaps(d, held) ==
    {s \in [dex : {d}, sells : Tokens, amount : Amounts, to : Accounts] :
        s.amount <= held[s.sells]}

Paid(s, account, t) ==
    IF s.to # account \/ t = s.sells THEN 0
    ELSE IF t = "ws" THEN Buy(pool[s.dex], s.amount) ELSE Sell(pool[s.dex], s.amount)

(* What the helper holds after a swap, of what it held before.               *)
After(held, s) ==
    [t \in Tokens |-> held[t] + Paid(s, "helper", t) - IF t = s.sells THEN s.amount ELSE 0]

(* Mutant: the balance to compare with is read after the first swap. *)
ProfitAfterSwap(before, bought, sold, token, minProfit) ==
    sold[token] >= bought[token] + minProfit

(* A least profit of 0 is checked like any other. *)
Profitable(before, bought, sold, token, minProfit) ==
    sold[token] >= before[token] + minProfit

(* executeArb(): both swaps in one state, and the profit checked in the one  *)
(* token; otherwise the transaction reverts and nothing changes.  Of the     *)
(* other token it promises nothing.                                          *)
ExecuteArb(s1, s2, profitToken, minProfit) ==
    LET bought == After(helper, s1)
        sold == After(bought, s2)
        income(t) == Paid(s1, "wallet", t) + Paid(s2, "wallet", t)
    IN  /\ Profitable(helper, bought, sold, profitToken, minProfit)
        /\ helper' = sold
        /\ promised' = [sold EXCEPT ![profitToken] = promised[profitToken] + minProfit]
        /\ wallet' = [usdc |-> wallet.usdc + income("usdc"), ws |-> wallet.ws + income("ws")]
        /\ helperCalls' = helperCalls + 1
        /\ UNCHANGED <<vars, tradeStageVars, late, drained>>

(* withdraw(): some of one token goes where the owner says. *)
Withdraw(token, amount, to) ==
    LET moves(t, account) == IF t = token /\ to = account THEN amount ELSE 0
    IN  /\ amount <= helper[token]
        /\ helper' = [helper EXCEPT ![token] = @ - amount + moves(token, "helper")]
        /\ promised' = helper'
        /\ wallet' = [usdc |-> wallet.usdc + moves("usdc", "wallet"),
                      ws |-> wallet.ws + moves("ws", "wallet")]
        /\ helperCalls' = helperCalls + 1
        /\ UNCHANGED <<vars, tradeStageVars, late, drained>>

UseHelper ==
    /\ HelperIdle
    /\ \/ \E d \in Dexes : \E s1 \in Swaps(d, helper) :
             \E s2 \in Swaps(Other(d), After(helper, s1)), t \in Tokens, p \in 0..1 :
                ExecuteArb(s1, s2, t, p)
       \/ \E t \in Tokens, a \in Amounts, to \in Accounts : Withdraw(t, a, to)

TradeNext ==
    \/ Scan
    \/ UpdateWalletBalance
    \/ PoolsMove
    \/ Execute
    \/ BuildSwapTx
    \/ SimulateTx
    \/ CheckBalance
    \/ Refuse
    \/ Send
    \/ \E l \in Legs : Fill(l) \/ Revert(l)
    \/ LateRebalance
    \/ UseHelper

TradeSpec == TradeInit /\ [][TradeNext]_allVars
-----------------------------------------------------------------------------
Statuses == {"none", "built", "pending", "filled", "reverted"}
Stages == {"watching", "building", "simulating", "checking", "sending", "done"}

TradeTypes ==
    /\ stage \in Stages
    /\ leg \in Legs
    /\ tx \in [Legs -> [in : Amounts, minOut : Amounts, out : Amounts, status : Statuses]]
    /\ wallet \in Holdings
    /\ late \in {"none", "pending", "mined"}
    /\ repriced \in BOOLEAN /\ drained \in BOOLEAN
    /\ helper \in [Tokens -> Nat] /\ promised \in [Tokens -> Nat]
    /\ helperCalls \in 0..MaxHelperCalls

(* The types of the variables, the finder's among them: no size exceeds the  *)
(* cap of arbFinder.ts:85, and no balance ever goes below zero.              *)
TradeTypeOK == TypeOK /\ TradeTypes

Filled(l) == tx[l].status = "filled"

(* If the pools stood still from the scan to the building of both swaps, a   *)
(* trade that is executed whole leaves at least what was put in and the      *)
(* least profit, less the slippage on both, however the pools move before    *)
(* either transaction is mined.  Rounding costs less than a unit.            *)
RoundTripFloor ==
    ~repriced /\ Filled(1) /\ Filled(2) =>
        100 * (tx[2].out + 1) > (100 - MaxSlippage) * (amountIn + MinProfit)

(* And one whose second leg is missing leaves the WS that was bought, for    *)
(* the idle rebalance to sell.                                               *)
StrandedStock ==
    ~repriced /\ Filled(1) /\ ~Filled(2) =>
        100 * (wallet.ws + 1) > (100 - MaxSlippage) * midAmount

(* After leg 1 the wallet can pay for leg 2 (only the price can fail it),    *)
(* even where leg 1 bought less than leg 2 sells: the simulation of leg 2    *)
(* saw stock of the wallet's own, and nothing else spends it.  The exception *)
(* is a rebalance of an earlier scan that is mined late (executor.ts:399).   *)
LegTwoFunded ==
    ~drained /\ Filled(1) /\ tx[2].status = "pending" => wallet.ws >= tx[2].in

(* What executeArb() is for (AtomicArb.sol:61-65): over any run of calls      *)
(* that measure their profit in the same token, the helper has gained at     *)
(* least the sum of the profits they asked for, whichever tokens the swaps   *)
(* sell, wherever they pay and however the pools move between the calls.     *)
(* A call that measures the other token and a withdrawal start anew.         *)
PromisedGain == \A t \in Tokens : helper[t] >= promised[t]
=============================================================================
