----------------------------- MODULE ArbFinder -----------------------------
(* The opportunity finder (backend/src/arbFinder.ts): one scan of the one    *)
(* supported pair, split at its awaits, while the pools trade with others    *)
(* and the wallet changes.                                                   *)
(*                                                                           *)
(* A pool is what its adapter quotes: Buy(m, a) is the WS for a USDC and     *)
(* Sell(m, a) the USDC for a WS when the pool is in state m.  Of the real    *)
(* pools only this is assumed: more in gives no less out, and a round trip   *)
(* on one pool gains nothing.  Amounts are raw units, exposure is in         *)
(* percent, and the gas cost is in the units of the profit.                  *)
EXTENDS Integers

CONSTANTS
    PoolStates,
    Buy(_, _),
    Sell(_, _),
    MaxAmount,         \* bound: the largest amount
    WalletBalances,    \* balances the wallet may have
    MaxTradeExposure,  \* config.maxTradeExposure, in percent
    SizeCap,           \* 10 000 USD
    MinProfit,         \* config.minProfitUsd
    GasCosts           \* costs the gas estimate may give

Amounts == 0..MaxAmount

ASSUME AmountsAssumption ==
    /\ MaxAmount \in Nat
    /\ WalletBalances \subseteq Nat
    /\ MaxTradeExposure \in 0..100
    /\ SizeCap \in Amounts
    /\ MinProfit \in Int
    /\ GasCosts \subseteq Nat

ASSUME QuotesAssumption ==
    \A m \in PoolStates, a \in Amounts : Buy(m, a) \in Amounts /\ Sell(m, a) \in Amounts

ASSUME MonotoneAssumption ==
    \A m \in PoolStates : \A a, b \in Amounts : a <= b => Sell(m, a) <= Sell(m, b)

ASSUME NoSelfGainAssumption ==
    \A m \in PoolStates, a \in Amounts : Sell(m, Buy(m, a)) <= a

Dexes == {"shadow", "beets"}
Other(d) == IF d = "shadow" THEN "beets" ELSE "shadow"

VARIABLES
    pool,       \* pool[d]: the state of the pool on DEX d
    walletBalanceUsd,
    pc,         \* "idle", "quoting", "selling" or "gas": what analyzePair() awaits
    amountIn,
    quotes,     \* quotes[d]: {} or the answer of DEX d, as a singleton
    buyDex,
    midAmount,
    amountOut,
    result,     \* what the last scan returned, and why
    moved       \* history: whether a pool has changed since the scan began

marketVars == <<pool, walletBalanceUsd, moved>>
tradeVars == <<amountIn, buyDex, midAmount, amountOut>>
vars == <<marketVars, pc, tradeVars, quotes, result>>

Results == {"none", "failed", "no gross profit", "below minimum", "opportunity"}

Init ==
    /\ pool \in [Dexes -> PoolStates]
    /\ walletBalanceUsd \in WalletBalances
    /\ pc = "idle"
    /\ amountIn = 0
    /\ quotes = [d \in Dexes |-> {}]
    /\ buyDex = "shadow"
    /\ midAmount = 0
    /\ amountOut = 0
    /\ result = "none"
    /\ moved = FALSE

-----------------------------------------------------------------------------
(* analyzePair() *)

(* Mutant: the cap on the size is missing. *)
TradeSizeUncapped(wallet) == (2 * wallet * MaxTradeExposure + 100) \div 200

(* Math.round() of the exposure's share, at most the cap. *)
TradeSize(wallet) ==
    LET share == (2 * wallet * MaxTradeExposure + 100) \div 200
    IN  IF share <= SizeCap THEN share ELSE SizeCap

StartScan ==
    /\ pc = "idle"
    /\ pc' = "quoting"
    /\ amountIn' = TradeSize(walletBalanceUsd)
    /\ quotes' = [d \in Dexes |-> {}]
    /\ result' = "none"
    /\ moved' = FALSE
    /\ UNCHANGED <<pool, walletBalanceUsd, buyDex, midAmount, amountOut>>

(* Mutant: the cheaper quote is bought. *)
BuyOnWorse(qs) ==
    IF \A s \in qs["shadow"], b \in qs["beets"] : s > b THEN "beets" ELSE "shadow"

(* Buy where the quote gives more WS; on a tie, on Beets. *)
BuyOn(qs) ==
    IF \A s \in qs["shadow"], b \in qs["beets"] : s > b THEN "shadow" ELSE "beets"

(* Promise.all: the two quotes arrive in any order, and the second one       *)
(* settles the direction.                                                    *)
QuoteArrives(d) ==
    LET answers == [quotes EXCEPT ![d] = {Buy(pool[d], amountIn)}]
    IN  /\ pc = "quoting"
        /\ quotes[d] = {}
        /\ quotes' = answers
        /\ IF answers[Other(d)] = {}
           THEN UNCHANGED <<pc, buyDex, midAmount>>
           ELSE /\ pc' = "selling"
                /\ buyDex' = BuyOn(answers)
                /\ midAmount' \in answers[buyDex']
        /\ UNCHANGED <<marketVars, amountIn, amountOut, result>>

End(verdict) == pc' = "idle" /\ result' = verdict

(* A quote that fails ends the analysis; the scan goes on with the next pair *)
(* and there is none.                                                        *)
QuoteFails ==
    /\ pc \in {"quoting", "selling"}
    /\ End("failed")
    /\ UNCHANGED <<marketVars, tradeVars, quotes>>

SellQuoteArrives ==
    /\ pc = "selling"
    /\ amountOut' = Sell(pool[Other(buyDex)], midAmount)
    /\ IF amountOut' <= amountIn THEN End("no gross profit")
       ELSE pc' = "gas" /\ UNCHANGED result
    /\ UNCHANGED <<marketVars, amountIn, quotes, buyDex, midAmount>>

(* Mutant: the gas cost is added to the profit. *)
GasAdded ==
    /\ pc = "gas"
    /\ \E gasCost \in GasCosts :
          End(IF amountOut - amountIn + gasCost < MinProfit THEN "below minimum"
              ELSE "opportunity")
    /\ UNCHANGED <<marketVars, tradeVars, quotes>>

(* The gas estimate never fails: it has a default. *)
GasArrives ==
    /\ pc = "gas"
    /\ \E gasCost \in GasCosts :
          End(IF amountOut - amountIn - gasCost < MinProfit THEN "below minimum"
              ELSE "opportunity")
    /\ UNCHANGED <<marketVars, tradeVars, quotes>>

-----------------------------------------------------------------------------
(* The world *)

PoolMoves(d) ==
    /\ pool' \in {[pool EXCEPT ![d] = m] : m \in PoolStates \ {pool[d]}}
    /\ moved' = TRUE
    /\ UNCHANGED <<walletBalanceUsd, pc, tradeVars, quotes, result>>

WalletChanges ==
    /\ walletBalanceUsd' \in WalletBalances
    /\ UNCHANGED <<pool, moved, pc, tradeVars, quotes, result>>

Next ==
    \/ StartScan
    \/ \E d \in Dexes : QuoteArrives(d) \/ PoolMoves(d)
    \/ QuoteFails
    \/ SellQuoteArrives
    \/ GasArrives
    \/ WalletChanges

Spec == Init /\ [][Next]_vars

-----------------------------------------------------------------------------
(* The types of the variables. *)
TypeOK ==
    /\ pool \in [Dexes -> PoolStates]
    /\ walletBalanceUsd \in WalletBalances
    /\ pc \in {"idle", "quoting", "selling", "gas"}
    /\ amountIn \in Amounts
    /\ quotes \in [Dexes -> SUBSET Amounts]
    /\ buyDex \in Dexes
    /\ midAmount \in Amounts
    /\ amountOut \in Amounts
    /\ result \in Results
    /\ moved \in BOOLEAN

RoundTrip(d) == Sell(pool[Other(d)], Buy(pool[d], amountIn))

(* An opportunity is what the pools still offer, if they have stood still    *)
(* since the scan began: the amounts come from answers of different moments. *)
OpportunityIsReal ==
    ~moved /\ result = "opportunity" =>
        amountOut = RoundTrip(buyDex) /\ amountOut - amountIn >= MinProfit

(* The finder prices one direction only, the one that starts with the better *)
(* quote.  Nothing is missed: if the pools have stood still and it sees no   *)
(* gross profit, no round trip of that size gains, in either direction.      *)
NothingMissed ==
    ~moved /\ result = "no gross profit" => \A d \in Dexes : RoundTrip(d) <= amountIn
=============================================================================
