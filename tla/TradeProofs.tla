----------------------------- MODULE TradeProofs -----------------------------
(* Theorems about the finder and about Trade, for any pools whose quotes are *)
(* monotone and whose own round trips gain nothing, any wallet, any slippage *)
(* and any moves of the pools: while the pools stand still, every answer of  *)
(* a scan so far is what they still say; and what a trade that was built     *)
(* from a true opportunity leaves in the wallet, that leg 2 can be paid, and *)
(* what calls of the helper promise, for any two swaps.                      *)
EXTENDS Trade, TLAPS

-----------------------------------------------------------------------------
(* The finder *)

(* Both answers that have arrived are those of the pools. *)
QuotesCurrent ==
    ~moved /\ pc = "quoting" => \A d \in Dexes : quotes[d] \subseteq {Buy(pool[d], amountIn)}

(* The direction is the one with the better quote. *)
DirectionCurrent ==
    ~moved /\ pc \in {"selling", "gas"} =>
        /\ midAmount = Buy(pool[buyDex], amountIn)
        /\ Buy(pool[Other(buyDex)], amountIn) <= midAmount

OutputCurrent ==
    ~moved /\ pc = "gas" => amountOut = RoundTrip(buyDex) /\ amountOut > amountIn

ResultAtEnd == pc # "idle" => result = "none"

Inductive ==
    /\ TypeOK
    /\ QuotesCurrent
    /\ DirectionCurrent
    /\ OutputCurrent
    /\ ResultAtEnd
    /\ OpportunityIsReal
    /\ NothingMissed

-----------------------------------------------------------------------------
LEMMA OtherDex ==
    \A d \in Dexes : Other(d) \in Dexes /\ Other(d) # d /\ \A e \in Dexes : e = d \/ e = Other(d)
  BY DEF Dexes, Other

(* The size of a trade is an amount: the cap bounds it. *)
LEMMA SizeIsAmount == \A w \in WalletBalances : TradeSize(w) \in Amounts
<1> TAKE w \in WalletBalances
<1> DEFINE product == w * MaxTradeExposure
           share == (2 * product + 100) \div 200
<1>1. w \in Nat /\ MaxTradeExposure \in Nat /\ SizeCap \in Amounts /\ MaxAmount \in Nat
  BY AmountsAssumption
<1>2. product \in Nat
  BY <1>1
<1>3. 2 * w * MaxTradeExposure = 2 * product
  BY <1>1
<1> HIDE DEF product
<1>4. share \in Nat
  BY <1>2
<1>5. TradeSize(w) = IF share <= SizeCap THEN share ELSE SizeCap
  BY <1>3 DEF TradeSize
<1> HIDE DEF share
<1> QED BY <1>1, <1>4, <1>5 DEF Amounts

(* Pricing one direction is enough: if the round trip that starts with the   *)
(* better quote gains nothing, neither does the other one.                   *)
LEMMA OneDirectionSuffices ==
    ASSUME NEW m \in PoolStates, NEW o \in PoolStates, NEW a \in Amounts,
           Buy(o, a) <= Buy(m, a)
    PROVE  Sell(m, Buy(o, a)) <= a
<1>1. Buy(o, a) \in Amounts /\ Buy(m, a) \in Amounts
  BY QuotesAssumption
<1>2. Sell(m, Buy(o, a)) <= Sell(m, Buy(m, a))
  BY <1>1, MonotoneAssumption
<1>3. Sell(m, Buy(m, a)) <= a
  BY NoSelfGainAssumption
<1>4. Sell(m, Buy(o, a)) \in Amounts /\ Sell(m, Buy(m, a)) \in Amounts
  BY <1>1, QuotesAssumption
<1> QED BY <1>2, <1>3, <1>4, AmountsAssumption DEF Amounts

LEMMA InitInductive == Init => Inductive
<1> SUFFICES ASSUME Init PROVE Inductive
  OBVIOUS
<1>1. 0 \in Amounts
  BY AmountsAssumption DEF Amounts
<1>2. TypeOK
  BY <1>1 DEF Init, TypeOK, Dexes, Results
<1>3. QuotesCurrent /\ DirectionCurrent /\ OutputCurrent /\ ResultAtEnd
  BY DEF Init, QuotesCurrent, DirectionCurrent, OutputCurrent, ResultAtEnd
<1>4. OpportunityIsReal /\ NothingMissed
  BY DEF Init, OpportunityIsReal, NothingMissed
<1> QED BY <1>2, <1>3, <1>4 DEF Inductive

LEMMA StartScanInductive ==
    ASSUME Inductive, StartScan
    PROVE  Inductive'
<1> USE DEF StartScan
<1>1. TypeOK'
  <2>1. amountIn' \in Amounts
    BY SizeIsAmount DEF Inductive, TypeOK
  <2> QED BY <2>1 DEF Inductive, TypeOK, Dexes, Results
<1>2. QuotesCurrent'
  BY DEF QuotesCurrent
<1>3. DirectionCurrent' /\ OutputCurrent' /\ ResultAtEnd'
  BY DEF DirectionCurrent, OutputCurrent, ResultAtEnd
<1>4. OpportunityIsReal' /\ NothingMissed'
  BY DEF OpportunityIsReal, NothingMissed
<1> QED BY <1>1, <1>2, <1>3, <1>4 DEF Inductive

(* The second quote decides the direction, and decides it right. *)
LEMMA QuoteArrivesInductive ==
    ASSUME Inductive, NEW d \in Dexes, QuoteArrives(d)
    PROVE  Inductive'
<1> DEFINE o == Other(d)
           answer == Buy(pool[d], amountIn)
           answers == [quotes EXCEPT ![d] = {answer}]
<1>1. /\ pc = "quoting" /\ quotes' = answers /\ UNCHANGED <<marketVars, amountIn, amountOut, result>>
      /\ \/ answers[o] = {} /\ UNCHANGED <<pc, buyDex, midAmount>>
         \/ /\ answers[o] # {} /\ pc' = "selling" /\ buyDex' = BuyOn(answers)
            /\ midAmount' \in answers[buyDex']
  BY DEF QuoteArrives
<1>2. TypeOK
  BY DEF Inductive
<1>3. pool \in [Dexes -> PoolStates] /\ amountIn \in Amounts /\ quotes \in [Dexes -> SUBSET Amounts]
  BY <1>2 DEF TypeOK
<1>4. answer \in Amounts
  BY <1>3, QuotesAssumption
<1>5. answers \in [Dexes -> SUBSET Amounts] /\ answers[d] = {answer}
      /\ \A e \in Dexes : e # d => answers[e] = quotes[e]
  BY <1>3, <1>4
<1>6. o \in Dexes /\ o # d /\ \A e \in Dexes : e = d \/ e = o
  BY OtherDex
<1>7. BuyOn(answers) \in Dexes
  BY DEF BuyOn, Dexes
<1> HIDE DEF answers, answer, o
<1>8. TypeOK'
  <2>1. midAmount' \in Amounts /\ buyDex' \in Dexes /\ pc' \in {"quoting", "selling"}
    BY <1>1, <1>2, <1>5, <1>7 DEF TypeOK
  <2> QED BY <1>1, <1>2, <1>5, <2>1 DEF TypeOK, marketVars
<1>9. ~moved => \A e \in Dexes : answers[e] \subseteq {Buy(pool[e], amountIn)}
  BY <1>1, <1>5 DEF Inductive, QuotesCurrent, answer
<1>10. QuotesCurrent'
  BY <1>1, <1>9 DEF QuotesCurrent, marketVars
<1>11. DirectionCurrent'
  <2> SUFFICES ASSUME ~moved', pc' \in {"selling", "gas"}
               PROVE  /\ midAmount' = Buy(pool[buyDex'], amountIn)
                      /\ Buy(pool[Other(buyDex')], amountIn) <= midAmount'
    BY <1>1 DEF DirectionCurrent, marketVars
  <2>1. /\ ~moved /\ answers[o] # {} /\ buyDex' = BuyOn(answers) /\ midAmount' \in answers[buyDex']
    BY <1>1 DEF marketVars
  <2>2. \A e \in Dexes : answers[e] = {Buy(pool[e], amountIn)}
    BY <1>5, <1>6, <1>9, <2>1
  <2>3. \A e \in Dexes : Buy(pool[e], amountIn) \in Int
    BY <1>3, QuotesAssumption, AmountsAssumption DEF Amounts
  <2>4. midAmount' = Buy(pool[buyDex'], amountIn)
    BY <1>7, <2>1, <2>2
  <2>5. CASE buyDex' = "shadow"
    <3>1. Buy(pool["shadow"], amountIn) > Buy(pool["beets"], amountIn)
      BY <2>1, <2>2, <2>5 DEF BuyOn, Dexes
    <3> QED BY <3>1, <2>3, <2>4, <2>5 DEF Other, Dexes
  <2>6. CASE buyDex' = "beets"
    <3>1. ~(Buy(pool["shadow"], amountIn) > Buy(pool["beets"], amountIn))
      BY <2>1, <2>2, <2>6 DEF BuyOn, Dexes
    <3> QED BY <3>1, <2>3, <2>4, <2>6 DEF Other, Dexes
  <2> QED BY <2>1, <2>5, <2>6, <1>7 DEF Dexes
<1>12. OutputCurrent' /\ ResultAtEnd'
  BY <1>1 DEF OutputCurrent, Inductive, ResultAtEnd
<1>13. OpportunityIsReal' /\ NothingMissed'
  BY <1>1 DEF OpportunityIsReal, NothingMissed, Inductive, ResultAtEnd
<1> QED BY <1>8, <1>10, <1>11, <1>12, <1>13 DEF Inductive

LEMMA SellQuoteInductive ==
    ASSUME Inductive, SellQuoteArrives
    PROVE  Inductive'
<1> USE DEF Inductive
<1>1. /\ pc = "selling"
      /\ amountOut' = Sell(pool[Other(buyDex)], midAmount)
      /\ \/ amountOut' <= amountIn /\ pc' = "idle" /\ result' = "no gross profit"
         \/ ~(amountOut' <= amountIn) /\ pc' = "gas" /\ result' = result
      /\ UNCHANGED <<marketVars, amountIn, quotes, buyDex, midAmount>>
  BY DEF SellQuoteArrives, End
<1>2. UNCHANGED <<pool, walletBalanceUsd, moved>>
  BY <1>1 DEF marketVars
<1>3. /\ buyDex \in Dexes /\ Other(buyDex) \in Dexes /\ amountIn \in Amounts
      /\ midAmount \in Amounts /\ pool \in [Dexes -> PoolStates]
  BY OtherDex DEF TypeOK
<1>4. amountOut' \in Amounts
  BY <1>1, <1>3, QuotesAssumption
<1>5. TypeOK'
  BY <1>1, <1>2, <1>4 DEF TypeOK, Results
<1>6. result = "none"
  BY <1>1 DEF ResultAtEnd
<1>7. ~moved => /\ midAmount = Buy(pool[buyDex], amountIn)
                /\ Buy(pool[Other(buyDex)], amountIn) <= Buy(pool[buyDex], amountIn)
                /\ amountOut' = RoundTrip(buyDex)
  BY <1>1 DEF DirectionCurrent, RoundTrip
<1>8. NothingMissed'
  <2> SUFFICES ASSUME ~moved, amountOut' <= amountIn, NEW e \in Dexes
               PROVE  RoundTrip(e) <= amountIn
    BY <1>1, <1>2, <1>6 DEF NothingMissed, RoundTrip
  <2>1. CASE e = buyDex
    BY <2>1, <1>7
  <2>2. CASE e = Other(buyDex)
    <3>1. Other(e) = buyDex
      BY <2>2, <1>3 DEF Other, Dexes
    <3> QED BY <3>1, <2>2, <1>3, <1>7, OneDirectionSuffices DEF RoundTrip
  <2> QED BY <2>1, <2>2, <1>3, OtherDex
<1>9. OutputCurrent'
  BY <1>1, <1>2, <1>3, <1>4, <1>7, AmountsAssumption DEF OutputCurrent, RoundTrip, Amounts
<1>10. QuotesCurrent' /\ ResultAtEnd' /\ OpportunityIsReal'
  BY <1>1, <1>6 DEF QuotesCurrent, ResultAtEnd, OpportunityIsReal
<1>11. DirectionCurrent'
  BY <1>1, <1>2 DEF DirectionCurrent
<1> QED BY <1>5, <1>8, <1>9, <1>10, <1>11

LEMMA GasInductive ==
    ASSUME Inductive, GasArrives
    PROVE  Inductive'
<1> USE DEF Inductive
<1>1. PICK gasCost \in GasCosts :
        result' = IF amountOut - amountIn - gasCost < MinProfit THEN "below minimum"
                  ELSE "opportunity"
  BY DEF GasArrives, End
<1>2. pc = "gas" /\ pc' = "idle" /\ UNCHANGED <<marketVars, tradeVars, quotes>>
  BY DEF GasArrives, End
<1>3. TypeOK'
  BY <1>1, <1>2 DEF TypeOK, marketVars, tradeVars, Results
<1>4. OpportunityIsReal'
  <2> SUFFICES ASSUME ~moved, result' = "opportunity"
               PROVE  amountOut = RoundTrip(buyDex) /\ amountOut - amountIn >= MinProfit
    BY <1>2 DEF OpportunityIsReal, RoundTrip, marketVars, tradeVars
  <2>1. amountOut \in Int /\ amountIn \in Int /\ gasCost \in Nat /\ MinProfit \in Int
    BY AmountsAssumption DEF TypeOK, Amounts
  <2>2. ~(amountOut - amountIn - gasCost < MinProfit)
    BY <1>1
  <2> QED BY <1>2, <2>1, <2>2 DEF OutputCurrent
<1>5. NothingMissed'
  BY <1>1 DEF NothingMissed
<1>6. QuotesCurrent' /\ DirectionCurrent' /\ OutputCurrent' /\ ResultAtEnd'
  BY <1>2 DEF QuotesCurrent, DirectionCurrent, OutputCurrent, ResultAtEnd
<1> QED BY <1>3, <1>4, <1>5, <1>6

LEMMA OtherStepsInductive ==
    ASSUME Inductive,
           \/ QuoteFails
           \/ WalletChanges
           \/ \E d \in Dexes : PoolMoves(d)
           \/ UNCHANGED vars
    PROVE  Inductive'
<1> USE DEF Inductive
<1>1. CASE QuoteFails
  BY <1>1 DEF QuoteFails, End, marketVars, tradeVars, TypeOK, Results, QuotesCurrent,
              DirectionCurrent, OutputCurrent, ResultAtEnd, OpportunityIsReal, NothingMissed
<1>2. CASE WalletChanges
  BY <1>2 DEF WalletChanges, tradeVars, TypeOK, QuotesCurrent, DirectionCurrent,
              OutputCurrent, RoundTrip, ResultAtEnd, OpportunityIsReal, NothingMissed
<1>3. CASE \E d \in Dexes : PoolMoves(d)
  <2>1. moved' = TRUE /\ UNCHANGED <<walletBalanceUsd, pc, tradeVars, quotes, result>>
    BY <1>3 DEF PoolMoves
  <2>2. pool' \in [Dexes -> PoolStates]
    BY <1>3 DEF PoolMoves, TypeOK
  <2> QED BY <2>1, <2>2 DEF tradeVars, TypeOK, QuotesCurrent, DirectionCurrent,
             OutputCurrent, ResultAtEnd, OpportunityIsReal, NothingMissed
<1>4. CASE UNCHANGED vars
  BY <1>4 DEF vars, marketVars, tradeVars, TypeOK, QuotesCurrent, DirectionCurrent,
              OutputCurrent, RoundTrip, ResultAtEnd, OpportunityIsReal, NothingMissed
<1> QED BY <1>1, <1>2, <1>3, <1>4

LEMMA NextInductive == Inductive /\ [Next]_vars => Inductive'
<1> SUFFICES ASSUME Inductive, [Next]_vars PROVE Inductive'
  OBVIOUS
<1>1. CASE StartScan
  BY <1>1, StartScanInductive
<1>2. CASE \E d \in Dexes : QuoteArrives(d)
  BY <1>2, QuoteArrivesInductive
<1>3. CASE SellQuoteArrives
  BY <1>3, SellQuoteInductive
<1>4. CASE GasArrives
  BY <1>4, GasInductive
<1>5. CASE QuoteFails \/ WalletChanges \/ (\E d \in Dexes : PoolMoves(d)) \/ UNCHANGED vars
  BY <1>5, OtherStepsInductive
<1> QED BY <1>1, <1>2, <1>3, <1>4, <1>5 DEF Next

LEMMA AlwaysInductive == Spec => []Inductive
  BY InitInductive, NextInductive, PTL DEF Spec

-----------------------------------------------------------------------------
(* The variables keep their types; the size of a trade never exceeds the     *)
(* cap of arbFinder.ts:85.                                                   *)
THEOREM TypeCorrect == Spec => []TypeOK
<1>1. Inductive => TypeOK
  BY DEF Inductive
<1> QED BY <1>1, AlwaysInductive, PTL

(* What findOpportunities() reports can be had, if the pools have stood      *)
(* still while it awaited its quotes.                                        *)
THEOREM OpportunityTheorem == Spec => []OpportunityIsReal
<1>1. Inductive => OpportunityIsReal
  BY DEF Inductive
<1> QED BY <1>1, AlwaysInductive, PTL

(* Choosing the direction by the first quotes alone (arbFinder.ts:100-110)   *)
(* misses no round trip that gains.                                          *)
THEOREM NothingMissedTheorem == Spec => []NothingMissed
<1>1. Inductive => NothingMissed
  BY DEF Inductive
<1> QED BY <1>1, AlwaysInductive, PTL

-----------------------------------------------------------------------------
(* The trade *)

(* The middle amount of an opportunity is what the pools still say. *)
MidCurrent ==
    ~moved /\ result = "opportunity" => midAmount = Buy(pool[buyDex], amountIn)

FinderInv == Inductive /\ MidCurrent

(* What the place in execute() says about the two swaps. *)
Progress ==
    /\ stage = "watching" => leg = 1 /\ ~repriced /\ \A l \in Legs : tx[l].status = "none"
    /\ stage # "watching" => pc = "idle" /\ result = "opportunity"
    /\ stage = "building" => tx[2].status = "none" /\ tx[1].status = IF leg = 1 THEN "none" ELSE "built"
    /\ stage \in {"simulating", "checking"} => \A l \in Legs : tx[l].status = "built"
    /\ stage = "sending" => tx[2].status = "built" /\ (leg = 1 => tx[1].status = "built")

(* The least outputs of swaps that were built while the pools stood still.   *)
Prices ==
    /\ stage # "watching" /\ repriced => moved
    /\ ~repriced /\ tx[1].status # "none" => tx[1].minOut = MinOut(midAmount)
    /\ ~repriced /\ tx[2].status # "none" =>
          tx[2].minOut = MinOut(amountOut) /\ amountOut - amountIn >= MinProfit

(* What executed swaps have paid, and that nothing takes it away. *)
Outputs ==
    /\ \A l \in Legs : Filled(l) => tx[l].out >= tx[l].minOut
    /\ Filled(1) => late # "pending"
    /\ late = "pending" => wallet.ws \in Amounts
    /\ Filled(1) /\ ~Filled(2) => wallet.ws >= tx[1].out

(* What the simulation of leg 2 saw in the wallet stays there. *)
Funds ==
    /\ tx[2].status = "pending" => stage = "done"
    /\ stage \in {"checking", "sending"} \/ tx[2].status = "pending" =>
          drained \/ wallet.ws >= tx[2].in

TradeInv == TradeTypes /\ Progress /\ Prices /\ Outputs /\ Funds

-----------------------------------------------------------------------------
(* Arithmetic *)

LEMMA Product == \A a, b \in Int, k \in Nat : a >= b => a * k >= b * k
  OBVIOUS

LEMMA Rounding == \A x \in Int : 100 * ((x \div 100) + 1) > x
  OBVIOUS

LEMMA Share == \A x \in Nat, s \in 0..100 : (x * (100 - s)) \div 100 \in 0..x
<1> TAKE x \in Nat, s \in 0..100
<1> DEFINE y == x * (100 - s)
<1>1. y \in 0..(100 * x)
  OBVIOUS
<1> HIDE DEF y
<1>2. y \div 100 \in 0..x
  BY <1>1
<1> QED BY <1>2 DEF y

LEMMA MinOutIsAmount == \A x \in Amounts : MinOut(x) \in Amounts
  BY Share, AmountsAssumption, TradeAssumption DEF MinOut, Amounts

(* What is above the least output is above the slippage's share. *)
LEMMA AboveMinOut ==
  ASSUME NEW x \in Amounts, NEW out \in Nat, out >= MinOut(x), NEW low \in Int, x >= low
  PROVE  100 * (out + 1) > (100 - MaxSlippage) * low
<1> DEFINE k == 100 - MaxSlippage
<1>1. k \in Nat /\ x \in Int
  BY TradeAssumption, AmountsAssumption DEF Amounts
<1>2. x * k >= low * k
  BY <1>1, Product
<1>3. x * k \in Int /\ low * k \in Int /\ low * k = k * low
  BY <1>1
<1>4. out >= (x * k) \div 100
  BY DEF MinOut
<1> HIDE DEF k
<1>5. 100 * (out + 1) > x * k
  <2> DEFINE y == x * k
  <2> HIDE DEF y
  <2>1. y \in Int /\ out >= y \div 100
    BY <1>3, <1>4 DEF y
  <2>2. 100 * ((y \div 100) + 1) > y /\ y \div 100 \in Int
    BY <2>1, Rounding
  <2> QED BY <2>1, <2>2 DEF y
<1>6. 100 * (out + 1) > k * low
  BY <1>2, <1>3, <1>5
<1> QED BY <1>6 DEF k

LEMMA QuoteIsAmount ==
  ASSUME TypeOK, NEW l \in Legs, NEW a \in Amounts
  PROVE  QuoteOf(l, a) \in Amounts
<1>1. pool[buyDex] \in PoolStates /\ pool[Other(buyDex)] \in PoolStates
  BY OtherDex DEF TypeOK
<1>2. QuoteOf(l, a) = Buy(pool[buyDex], a) \/ QuoteOf(l, a) = Sell(pool[Other(buyDex)], a)
  BY DEF QuoteOf, DexOf, Legs
<1> QED BY <1>1, <1>2, QuotesAssumption

-----------------------------------------------------------------------------
(* Every step of the trade is a step of the finder, or leaves it alone.      *)

LEMMA HelperStep ==
    UseHelper => /\ HelperIdle
                 /\ helperCalls' = helperCalls + 1
                 /\ UNCHANGED <<vars, tradeStageVars, late, drained>>
<1> SUFFICES ASSUME UseHelper
             PROVE  helperCalls' = helperCalls + 1 /\ UNCHANGED <<vars, tradeStageVars, late, drained>>
  BY DEF UseHelper
<1>1. ASSUME NEW s1, NEW s2, NEW t, NEW p, ExecuteArb(s1, s2, t, p)
      PROVE  helperCalls' = helperCalls + 1 /\ UNCHANGED <<vars, tradeStageVars, late, drained>>
  BY <1>1, Zenon DEF ExecuteArb
<1>2. ASSUME NEW t, NEW a, NEW to, Withdraw(t, a, to)
      PROVE  helperCalls' = helperCalls + 1 /\ UNCHANGED <<vars, tradeStageVars, late, drained>>
  BY <1>2, Zenon DEF Withdraw
<1> QED BY <1>1, <1>2 DEF UseHelper

LEMMA FinderStep == [TradeNext]_allVars => [Next]_vars
<1> SUFFICES ASSUME TradeNext PROVE Next \/ UNCHANGED vars
  BY DEF allVars
<1>1. CASE Scan
  BY <1>1 DEF Scan, Next
<1>2. CASE UpdateWalletBalance
  BY <1>2 DEF UpdateWalletBalance, Next
<1>3. CASE PoolsMove
  BY <1>3 DEF PoolsMove, Next
<1>4. CASE Execute \/ BuildSwapTx \/ SimulateTx \/ CheckBalance \/ Refuse \/ Send
  BY <1>4 DEF Execute, BuildSwapTx, SimulateTx, CheckBalance, Refuse, Send
<1>5. CASE LateRebalance \/ \E l \in Legs : Fill(l) \/ Revert(l)
  BY <1>5 DEF LateRebalance, Fill, Revert
<1>6. CASE UseHelper
  BY <1>6, HelperStep
<1> QED BY <1>1, <1>2, <1>3, <1>4, <1>5, <1>6 DEF TradeNext

(* The trade's behaviours are the finder's: what is proved of the finder     *)
(* holds of the bot that trades on what it finds.                            *)
THEOREM TradeRefinesFinder == TradeSpec => Spec
<1>1. TradeInit => Init
  BY DEF TradeInit
<1> QED BY <1>1, FinderStep, PTL DEF TradeSpec, Spec

(* The middle amount is current when the scan ends, and stays so. *)
LEMMA FinderInvInductive ==
    /\ Init => FinderInv
    /\ FinderInv /\ [Next]_vars => FinderInv'
<1>1. Init => FinderInv
  BY InitInductive DEF FinderInv, Init, MidCurrent
<1>2. ASSUME FinderInv, [Next]_vars
      PROVE  MidCurrent'
  <2> USE <1>2 DEF FinderInv, MidCurrent
  <2>1. CASE StartScan
    BY <2>1 DEF StartScan
  <2>2. ASSUME NEW d \in Dexes, QuoteArrives(d)
        PROVE  MidCurrent'
    BY <2>2 DEF QuoteArrives, Inductive, ResultAtEnd
  <2>3. CASE SellQuoteArrives
    BY <2>3 DEF SellQuoteArrives, End, Inductive, ResultAtEnd
  <2>4. CASE GasArrives
    BY <2>4 DEF GasArrives, marketVars, tradeVars, Inductive, DirectionCurrent
  <2>5. CASE QuoteFails
    BY <2>5 DEF QuoteFails, End
  <2>6. ASSUME NEW d \in Dexes, PoolMoves(d)
        PROVE  MidCurrent'
    BY <2>6 DEF PoolMoves
  <2>7. CASE WalletChanges \/ UNCHANGED vars
    BY <2>7 DEF WalletChanges, vars, marketVars, tradeVars
  <2> QED BY <1>2, <2>1, <2>2, <2>3, <2>4, <2>5, <2>6, <2>7 DEF Next
<1> QED BY <1>1, <1>2, NextInductive DEF FinderInv

-----------------------------------------------------------------------------
(* Each step of a trade keeps its invariant. *)

LEMMA TradeInitInv == TradeInit => TradeInv
<1> SUFFICES ASSUME TradeInit PROVE TradeInv
  OBVIOUS
<1> USE DEF TradeInit
<1>1. 0 \in Amounts
  BY AmountsAssumption DEF Amounts
<1>2. TradeTypes
  <2>1. tx \in [Legs -> [in : Amounts, minOut : Amounts, out : Amounts, status : Statuses]]
    BY <1>1 DEF Unbuilt, Statuses
  <2>2. wallet \in Holdings /\ helper \in [Tokens -> Nat] /\ promised \in [Tokens -> Nat]
    BY TradeAssumption, AmountsAssumption DEF Holdings, Amounts
  <2>3. helperCalls \in 0..MaxHelperCalls
    BY TradeAssumption
  <2>4. late \in {"none", "pending", "mined"} /\ repriced \in BOOLEAN /\ drained \in BOOLEAN
    OBVIOUS
  <2>5. stage \in Stages /\ leg \in Legs
    BY DEF Stages, Legs
  <2> QED BY <2>1, <2>2, <2>3, <2>4, <2>5 DEF TradeTypes
<1>3. Progress /\ Prices
  BY DEF Progress, Prices, Unbuilt, Legs
<1>4. Outputs /\ Funds
  BY TradeAssumption DEF Outputs, Funds, Filled, Unbuilt, Legs
<1> QED BY <1>2, <1>3, <1>4 DEF TradeInv

(* The scan and the pools leave the trade alone. *)
LEMMA ScanKeepsInv ==
  ASSUME TradeInv, Scan \/ UpdateWalletBalance \/ PoolsMove
  PROVE  TradeInv'
<1>1. UNCHANGED tradingVars
  BY DEF Scan, UpdateWalletBalance, PoolsMove
<1>2. \/ stage = "watching"
      \/ moved' = TRUE /\ UNCHANGED <<pc, tradeVars, result>>
  BY DEF Scan, UpdateWalletBalance, PoolsMove, PoolMoves
<1> USE <1>1, <1>2 DEF TradeInv, tradingVars, tradeStageVars, chainVars, helperVars
<1>3. TradeTypes'
  BY DEF TradeTypes
<1>4. Progress'
  BY DEF Progress
<1>5. Prices'
  BY DEF Prices, Progress, tradeVars, MinOut, Legs
<1>6. Outputs' /\ Funds'
  BY DEF Outputs, Funds, Filled
<1> QED BY <1>3, <1>4, <1>5, <1>6

(* What a swap of the helper pays, and leaves it, are amounts of tokens. *)
LEMMA SwapPays ==
  ASSUME TypeOK, NEW held \in [Tokens -> Nat], NEW d \in Dexes, NEW s \in Swaps(d, held)
  PROVE  /\ \A account \in Accounts, t \in Tokens : Paid(s, account, t) \in Nat
         /\ After(held, s) \in [Tokens -> Nat]
<1>1. /\ s.dex = d /\ s.sells \in Tokens /\ s.amount \in Amounts /\ s.amount \in Nat
      /\ s.amount <= held[s.sells]
  BY AmountsAssumption DEF Swaps, Amounts
<1>2. Buy(pool[s.dex], s.amount) \in Nat /\ Sell(pool[s.dex], s.amount) \in Nat
  <2>1. pool[s.dex] \in PoolStates
    BY <1>1 DEF TypeOK
  <2>2. Buy(pool[s.dex], s.amount) \in Amounts /\ Sell(pool[s.dex], s.amount) \in Amounts
    BY <1>1, <2>1, QuotesAssumption
  <2> QED BY <2>2, AmountsAssumption DEF Amounts
<1>3. \A account \in Accounts, t \in Tokens : Paid(s, account, t) \in Nat
  BY <1>2 DEF Paid
<1>4. ASSUME NEW t \in Tokens
      PROVE  held[t] + Paid(s, "helper", t) - (IF t = s.sells THEN s.amount ELSE 0) \in Nat
  <2>1. Paid(s, "helper", t) \in Nat
    BY <1>3 DEF Accounts
  <2> QED BY <1>1, <2>1
<1> QED BY <1>3, <1>4 DEF After

(* What a call of executeArb() leaves behind. *)
LEMMA CallLeaves ==
  ASSUME TypeOK, TradeTypes, NEW d \in Dexes, NEW s1 \in Swaps(d, helper),
         NEW s2 \in Swaps(Other(d), After(helper, s1)), NEW token \in Tokens, NEW p \in 0..1,
         ExecuteArb(s1, s2, token, p)
  PROVE  /\ wallet' \in Holdings /\ helper' \in [Tokens -> Nat]
         /\ helper'[token] >= helper[token] + p
         /\ promised' = [helper' EXCEPT ![token] = promised[token] + p]
<1> DEFINE bought == After(helper, s1)
           sold == After(bought, s2)
           income(t) == Paid(s1, "wallet", t) + Paid(s2, "wallet", t)
<1>1. /\ sold[token] >= helper[token] + p /\ helper' = sold
      /\ promised' = [sold EXCEPT ![token] = promised[token] + p]
      /\ wallet' = [usdc |-> wallet.usdc + income("usdc"), ws |-> wallet.ws + income("ws")]
  BY Zenon DEF ExecuteArb, Profitable
<1>2. helper \in [Tokens -> Nat] /\ Other(d) \in Dexes /\ wallet \in Holdings
  BY OtherDex DEF TradeTypes
<1>3. /\ bought \in [Tokens -> Nat]
      /\ \A account \in Accounts, t \in Tokens : Paid(s1, account, t) \in Nat
  BY <1>2, SwapPays
<1> HIDE DEF bought
<1>4. s2 \in Swaps(Other(d), bought)
  BY DEF bought
<1>5. /\ sold \in [Tokens -> Nat]
      /\ \A account \in Accounts, t \in Tokens : Paid(s2, account, t) \in Nat
  BY <1>2, <1>3, <1>4, SwapPays
<1> HIDE DEF sold
<1>6. income("usdc") \in Nat /\ income("ws") \in Nat
  BY <1>3, <1>5 DEF Accounts, Tokens
<1> HIDE DEF income
<1> QED BY <1>1, <1>2, <1>5, <1>6 DEF Holdings

(* And a call of withdraw(). *)
LEMMA WithdrawalLeaves ==
  ASSUME TradeTypes, NEW t \in Tokens, NEW a \in Amounts, NEW to \in Accounts,
         Withdraw(t, a, to)
  PROVE  wallet' \in Holdings /\ helper' \in [Tokens -> Nat] /\ promised' = helper'
<1> DEFINE moves(u, account) == IF u = t /\ to = account THEN a ELSE 0
<1>1. /\ a <= helper[t] /\ helper' = [helper EXCEPT ![t] = helper[t] - a + moves(t, "helper")]
      /\ promised' = helper'
      /\ wallet' = [usdc |-> wallet.usdc + moves("usdc", "wallet"),
                    ws |-> wallet.ws + moves("ws", "wallet")]
  BY Zenon DEF Withdraw
<1>2. a \in Nat /\ helper \in [Tokens -> Nat] /\ wallet \in Holdings
  BY AmountsAssumption DEF Amounts, TradeTypes
<1>3. \A u \in Tokens, account \in Accounts : moves(u, account) \in Nat
  BY <1>2
<1>4. "usdc" \in Tokens /\ "ws" \in Tokens /\ "helper" \in Accounts /\ "wallet" \in Accounts
  BY DEF Tokens, Accounts
<1> HIDE DEF moves
<1>5. helper[t] - a + moves(t, "helper") \in Nat
  BY <1>1, <1>2, <1>3, <1>4
<1> QED BY <1>1, <1>2, <1>3, <1>4, <1>5 DEF Holdings

LEMMA HelperKeepsInv ==
  ASSUME TypeOK, TradeInv, UseHelper
  PROVE  TradeInv'
<1>1. /\ HelperIdle /\ helperCalls' = helperCalls + 1
      /\ UNCHANGED <<vars, tradeStageVars, late, drained>>
  BY HelperStep
<1>2. wallet' \in Holdings /\ helper' \in [Tokens -> Nat] /\ promised' \in [Tokens -> Nat]
  <2>1. TradeTypes
    BY DEF TradeInv
  <2>2. ASSUME NEW d \in Dexes, NEW s1 \in Swaps(d, helper),
               NEW s2 \in Swaps(Other(d), After(helper, s1)), NEW t \in Tokens, NEW p \in 0..1,
               ExecuteArb(s1, s2, t, p)
        PROVE  wallet' \in Holdings /\ helper' \in [Tokens -> Nat]
               /\ promised' \in [Tokens -> Nat]
    <3>1. /\ wallet' \in Holdings /\ helper' \in [Tokens -> Nat]
          /\ promised' = [helper' EXCEPT ![t] = promised[t] + p]
      BY <2>1, <2>2, CallLeaves
    <3>2. promised[t] + p \in Nat
      BY <2>1 DEF TradeTypes
    <3> QED BY <3>1, <3>2
  <2>3. ASSUME NEW t \in Tokens, NEW a \in Amounts, NEW to \in Accounts, Withdraw(t, a, to)
        PROVE  wallet' \in Holdings /\ helper' \in [Tokens -> Nat]
               /\ promised' \in [Tokens -> Nat]
    BY <2>1, <2>3, WithdrawalLeaves
  <2> QED BY <2>2, <2>3 DEF UseHelper
<1> USE <1>1 DEF TradeInv, HelperIdle, tradeStageVars
<1>3. TradeTypes'
  BY <1>2, TradeAssumption DEF TradeTypes
<1>4. Progress' /\ Prices'
  BY DEF Progress, Prices, MinOut, vars, marketVars, tradeVars
<1>5. Outputs' /\ Funds'
  BY DEF Progress, Outputs, Funds, Filled, Legs
<1> QED BY <1>3, <1>4, <1>5

(* The steps of execute() that only move it on. *)
LEMMA ControlKeepsInv ==
  ASSUME TradeInv, Execute \/ CheckBalance \/ Refuse
  PROVE  TradeInv'
<1>1. UNCHANGED <<vars, tx, repriced, chainVars, helperVars, leg>>
  BY DEF Execute, CheckBalance, Refuse, Abort
<1>2. \/ stage = "watching" /\ stage' = "building" /\ pc = "idle" /\ result = "opportunity"
      \/ stage = "checking" /\ stage' = "sending"
      \/ stage \in {"building", "simulating", "checking", "sending"} /\ stage' = "done"
  BY DEF Execute, CheckBalance, Refuse, Abort
<1> USE <1>1, <1>2 DEF TradeInv, chainVars, helperVars, vars, marketVars, tradeVars
<1>3. TradeTypes'
  BY DEF TradeTypes, Stages
<1>4. Progress'
  BY DEF Progress, Legs
<1>5. Prices'
  BY DEF Prices, Progress, MinOut
<1>6. Outputs' /\ Funds'
  BY DEF Progress, Outputs, Funds, Filled, Legs
<1> QED BY <1>3, <1>4, <1>5, <1>6

(* Both swaps are built from the amounts of the scan; while the pools have   *)
(* stood still, the quotes at building are those of the scan.                *)
LEMMA BuildKeepsInv ==
  ASSUME FinderInv, TradeInv, BuildSwapTx
  PROVE  TradeInv'
<1> USE DEF TradeInv
<1>1. /\ stage = "building" /\ pc = "idle" /\ result = "opportunity"
      /\ tx' = [tx EXCEPT ![leg] = Swap(leg)] /\ repriced' = moved
      /\ \/ leg = 1 /\ leg' = 2 /\ stage' = stage
         \/ leg = 2 /\ leg' = 1 /\ stage' = "simulating"
      /\ UNCHANGED <<vars, chainVars, helperVars>>
  BY DEF BuildSwapTx, NextLeg, Progress, TradeTypes, Legs
<1>2. TypeOK /\ leg \in Legs /\ AmountOf(leg) \in Amounts
  BY DEF FinderInv, Inductive, TypeOK, AmountOf, TradeTypes
<1>3. tx' \in [Legs -> [in : Amounts, minOut : Amounts, out : Amounts, status : Statuses]]
  <2>1. MinOut(QuoteOf(leg, AmountOf(leg))) \in Amounts
    BY <1>2, QuoteIsAmount, MinOutIsAmount
  <2>2. 0 \in Amounts
    BY AmountsAssumption DEF Amounts
  <2> QED BY <1>1, <1>2, <2>1, <2>2 DEF TradeTypes, Swap, Statuses
<1>4. /\ tx'[leg].status = "built"
      /\ tx'[leg].minOut = MinOut(QuoteOf(leg, AmountOf(leg)))
      /\ \A l \in Legs : l # leg => tx'[l] = tx[l]
  BY <1>1, <1>2 DEF TradeTypes, Swap
<1>5. TradeTypes'
  BY <1>1, <1>2, <1>3 DEF TradeTypes, FinderInv, Inductive, TypeOK, Stages, Legs,
         vars, marketVars, chainVars, helperVars
<1>6. Progress'
  BY <1>1, <1>4 DEF Progress, Legs, vars
<1>7. Prices'
  <2>1. ~moved => /\ ~repriced /\ AmountOf(1) = amountIn /\ AmountOf(2) = midAmount
                  /\ QuoteOf(1, amountIn) = midAmount
                  /\ QuoteOf(2, midAmount) = amountOut /\ amountOut - amountIn >= MinProfit
    BY <1>1 DEF Prices, FinderInv, MidCurrent, Inductive, OpportunityIsReal, RoundTrip,
           AmountOf, QuoteOf, DexOf
  <2>2. UNCHANGED <<moved, amountIn, midAmount, amountOut>>
    BY <1>1 DEF vars, marketVars, tradeVars
  <2>3. ~moved => tx'[1].minOut = MinOut(midAmount)
    BY <1>1, <1>4, <2>1 DEF Prices, Progress, TradeTypes, Legs
  <2>4. ~moved /\ tx'[2].status # "none" => tx'[2].minOut = MinOut(amountOut)
    BY <1>1, <1>4, <2>1 DEF Prices, Progress, TradeTypes, Legs
  <2> QED BY <1>1, <2>1, <2>2, <2>3, <2>4 DEF Prices, MinOut
<1>8. Outputs' /\ Funds'
  BY <1>1, <1>4 DEF Outputs, Funds, Filled, Progress, chainVars, Legs
<1> QED BY <1>5, <1>6, <1>7, <1>8

(* The simulation of leg 2 has seen its input in the wallet. *)
LEMMA SimulateKeepsInv ==
  ASSUME TradeInv, SimulateTx
  PROVE  TradeInv'
<1> USE DEF TradeInv
<1>1. /\ stage = "simulating" /\ Fillable(leg)
      /\ \/ leg = 1 /\ leg' = 2 /\ stage' = stage
         \/ leg = 2 /\ leg' = 1 /\ stage' = "checking"
      /\ UNCHANGED <<vars, tx, repriced, chainVars, helperVars>>
  BY DEF SimulateTx, NextLeg, TradeTypes, Legs
<1> USE <1>1 DEF vars, marketVars, tradeVars, chainVars, helperVars
<1>2. TradeTypes'
  BY DEF TradeTypes, Stages, Legs
<1>3. Progress'
  BY DEF Progress, Legs
<1>4. Prices'
  BY DEF Prices, MinOut
<1>5. Outputs'
  BY DEF Outputs, Filled
<1>6. Funds'
  BY DEF Funds, Fillable, Balance, Progress, Legs
<1> QED BY <1>2, <1>3, <1>4, <1>5, <1>6

(* A change of the status of one transaction, and of nothing else. *)
LEMMA StatusType ==
  ASSUME TradeTypes, NEW l \in Legs, NEW s \in Statuses, tx' = [tx EXCEPT ![l].status = s]
  PROVE  /\ tx' \in [Legs -> [in : Amounts, minOut : Amounts, out : Amounts, status : Statuses]]
         /\ tx'[l].status = s
         /\ \A k \in Legs : k # l => tx'[k] = tx[k]
         /\ \A k \in Legs : tx'[k].in = tx[k].in /\ tx'[k].minOut = tx[k].minOut
                           /\ tx'[k].out = tx[k].out
  BY DEF TradeTypes

LEMMA SendKeepsInv ==
  ASSUME TradeInv, Send
  PROVE  TradeInv'
<1> USE DEF TradeInv
<1>1. /\ stage = "sending" /\ tx' = [tx EXCEPT ![leg].status = "pending"]
      /\ \/ leg = 1 /\ leg' = 2 /\ stage' = stage
         \/ leg = 2 /\ leg' = 1 /\ stage' = "done"
         \/ leg' = leg /\ stage' = "done"
      /\ UNCHANGED <<vars, repriced, chainVars, helperVars>>
  BY DEF Send, NextLeg, TradeTypes, Legs
<1>2. leg \in Legs /\ "pending" \in Statuses /\ tx[leg].status = "built"
  BY <1>1 DEF TradeTypes, Statuses, Progress, Legs
<1>3. /\ tx' \in [Legs -> [in : Amounts, minOut : Amounts, out : Amounts, status : Statuses]]
      /\ tx'[leg].status = "pending"
      /\ \A k \in Legs : k # leg => tx'[k] = tx[k]
      /\ \A k \in Legs : tx'[k].in = tx[k].in /\ tx'[k].minOut = tx[k].minOut
                        /\ tx'[k].out = tx[k].out
  BY <1>1, <1>2, StatusType
<1>4. UNCHANGED <<pc, result, moved, amountIn, midAmount, amountOut, wallet, late, drained,
                  helper, promised, helperCalls, repriced>>
  BY <1>1 DEF vars, marketVars, tradeVars, chainVars, helperVars
<1>5. TradeTypes'
  BY <1>1, <1>3, <1>4 DEF TradeTypes, Stages, Legs
<1>6. Progress'
  BY <1>1, <1>3, <1>4 DEF Progress, Legs
<1>7. Prices'
  BY <1>1, <1>2, <1>3, <1>4 DEF Prices, MinOut, Legs
<1>8. Outputs'
  BY <1>2, <1>3, <1>4 DEF Outputs, Filled, Legs
<1>9. Funds'
  BY <1>1, <1>2, <1>3, <1>4 DEF Funds, Progress, Legs
<1> QED BY <1>5, <1>6, <1>7, <1>8, <1>9

-----------------------------------------------------------------------------
(* So does each step of the chain. *)

LEMMA FillKeepsInv ==
  ASSUME TypeOK, TradeInv, NEW l \in Legs, Fill(l)
  PROVE  TradeInv'
<1> DEFINE out == QuoteOf(l, tx[l].in)
<1> USE DEF TradeInv
<1>1. /\ tx[l].status = "pending" /\ late # "pending"
      /\ l = 2 => tx[1].status # "pending"
      /\ Balance(l) >= tx[l].in /\ out >= tx[l].minOut
      /\ tx' = [tx EXCEPT ![l].status = "filled", ![l].out = out]
      /\ UNCHANGED <<vars, stage, leg, repriced, late, drained, helperVars>>
  BY DEF Fill, Mineable, Fillable
<1>2. /\ l = 1 => wallet' = [usdc |-> wallet.usdc - tx[1].in, ws |-> wallet.ws + out]
      /\ l = 2 => wallet' = [usdc |-> wallet.usdc + out, ws |-> wallet.ws - tx[2].in]
  BY DEF Fill
<1>3. tx[l].in \in Amounts /\ out \in Amounts /\ wallet \in Holdings
  BY QuoteIsAmount DEF TradeTypes
<1> HIDE DEF out
<1>4. /\ tx' \in [Legs -> [in : Amounts, minOut : Amounts, out : Amounts, status : Statuses]]
      /\ tx'[l].status = "filled" /\ tx'[l].out = out /\ tx'[l].minOut = tx[l].minOut
      /\ \A k \in Legs : k # l => tx'[k] = tx[k]
  BY <1>1, <1>3 DEF TradeTypes, Statuses
<1>5. wallet' \in Holdings /\ (l = 1 => wallet'.ws >= out /\ wallet'.ws >= wallet.ws)
  BY <1>1, <1>2, <1>3, AmountsAssumption DEF Holdings, Amounts, Balance, Legs
<1>6. UNCHANGED <<pc, result, moved, amountIn, midAmount, amountOut, stage, leg, late, drained,
                  helper, promised, helperCalls, repriced>>
  BY <1>1 DEF vars, marketVars, tradeVars, helperVars
<1>7. TradeTypes'
  BY <1>4, <1>5, <1>6 DEF TradeTypes
<1>8. Progress'
  BY <1>1, <1>4, <1>6 DEF Progress, Legs
<1>9. Prices'
  BY <1>1, <1>4, <1>6 DEF Prices, MinOut, Legs
<1>10. Outputs'
  <2>1. \A k \in Legs : Filled(k)' => tx'[k].out >= tx'[k].minOut
    BY <1>1, <1>4 DEF Outputs, Filled
  <2>2. CASE l = 1
    BY <2>1, <2>2, <1>1, <1>4, <1>5, <1>6 DEF Outputs, Filled
  <2>3. CASE l = 2
    BY <2>1, <2>3, <1>1, <1>4, <1>6 DEF Outputs, Filled
  <2> QED BY <2>2, <2>3 DEF Legs
<1>11. Funds'
  <2>1. CASE l = 1
    <3>1. tx'[2] = tx[2] /\ wallet'.ws >= wallet.ws /\ tx[2].in \in Int
      BY <2>1, <1>4, <1>5, AmountsAssumption DEF Legs, TradeTypes, Amounts
    <3>2. wallet.ws \in Int /\ wallet'.ws \in Int
      BY <1>3, <1>5 DEF Holdings
    <3> QED BY <3>1, <3>2, <1>6 DEF Funds
  <2>2. CASE l = 2
    BY <2>2, <1>1, <1>4, <1>6 DEF Funds
  <2> QED BY <2>1, <2>2 DEF Legs
<1> QED BY <1>7, <1>8, <1>9, <1>10, <1>11

LEMMA RevertKeepsInv ==
  ASSUME TradeInv, NEW l \in Legs, Revert(l)
  PROVE  TradeInv'
<1> USE DEF TradeInv
<1>1. /\ tx[l].status = "pending" /\ tx' = [tx EXCEPT ![l].status = "reverted"]
      /\ UNCHANGED <<vars, stage, leg, repriced, chainVars, helperVars>>
  BY DEF Revert, Mineable
<1>2. "reverted" \in Statuses
  BY DEF Statuses
<1>3. /\ tx' \in [Legs -> [in : Amounts, minOut : Amounts, out : Amounts, status : Statuses]]
      /\ tx'[l].status = "reverted"
      /\ \A k \in Legs : k # l => tx'[k] = tx[k]
      /\ \A k \in Legs : tx'[k].in = tx[k].in /\ tx'[k].minOut = tx[k].minOut
                        /\ tx'[k].out = tx[k].out
  BY <1>1, <1>2, StatusType
<1>4. UNCHANGED <<pc, result, moved, amountIn, midAmount, amountOut, stage, leg, late, drained,
                  helper, promised, helperCalls, repriced, wallet>>
  BY <1>1 DEF vars, marketVars, tradeVars, helperVars, chainVars
<1>5. TradeTypes'
  BY <1>3, <1>4 DEF TradeTypes
<1>6. Progress'
  BY <1>1, <1>3, <1>4 DEF Progress, Legs
<1>7. Prices'
  BY <1>1, <1>3, <1>4 DEF Prices, MinOut, Legs
<1>8. Outputs'
  BY <1>1, <1>3, <1>4 DEF Outputs, Filled, Legs
<1>9. Funds'
  BY <1>1, <1>3, <1>4 DEF Funds, Legs
<1> QED BY <1>5, <1>6, <1>7, <1>8, <1>9

(* The late rebalance comes before both legs; once leg 2 was simulated, it   *)
(* is what the exception of LegTwoFunded is about.                           *)
LEMMA LateKeepsInv ==
  ASSUME TypeOK, TradeInv, LateRebalance
  PROVE  TradeInv'
<1> USE DEF TradeInv
<1>1. /\ late = "pending" /\ late' = "mined"
      /\ UNCHANGED <<pc, result, moved, amountIn, midAmount, amountOut, stage, leg, tx,
                     helper, promised, helperCalls, repriced>>
  BY DEF LateRebalance, vars, marketVars, tradeVars, tradeStageVars, helperVars
<1>2. wallet' \in Holdings
  <2>1. \A d \in Dexes : Sell(pool[d], wallet.ws) \in Nat
    BY <1>1, QuotesAssumption, AmountsAssumption DEF Outputs, TypeOK, Amounts
  <2> QED BY <2>1 DEF LateRebalance, TradeTypes, Holdings
<1>3. /\ drained' \in BOOLEAN
      /\ stage \in {"checking", "sending", "done"} => drained' \/ UNCHANGED <<wallet, drained>>
  <2>1. \/ drained' = (stage \in {"checking", "sending", "done"})
        \/ UNCHANGED <<wallet, drained>>
    BY DEF LateRebalance
  <2>2. drained \in BOOLEAN
    BY DEF TradeTypes
  <2>3. CASE drained' = (stage \in {"checking", "sending", "done"})
    <3>1. (stage \in {"checking", "sending", "done"}) \in BOOLEAN
      OBVIOUS
    <3>2. drained' \in BOOLEAN
      BY <2>3, <3>1, Zenon
    <3>3. ASSUME stage \in {"checking", "sending", "done"} PROVE drained'
      BY <2>3, <3>3, Zenon
    <3> QED BY <3>2, <3>3
  <2>4. CASE UNCHANGED <<wallet, drained>>
    BY <2>2, <2>4
  <2> QED BY <2>1, <2>3, <2>4
<1>4. TradeTypes'
  BY <1>1, <1>2, <1>3 DEF TradeTypes
<1>5. Progress' /\ Prices'
  BY <1>1 DEF Progress, Prices, MinOut
<1>6. Outputs'
  BY <1>1 DEF Outputs, Filled
<1>7. Funds'
  BY <1>1, <1>3 DEF Funds
<1> QED BY <1>4, <1>5, <1>6, <1>7

-----------------------------------------------------------------------------
LEMMA TradeStepInv ==
  ASSUME FinderInv, TradeInv, [TradeNext]_allVars
  PROVE  TradeInv'
<1>1. TypeOK
  BY DEF FinderInv, Inductive
<1>2. CASE Scan \/ UpdateWalletBalance \/ PoolsMove
  BY <1>2, ScanKeepsInv
<1>3. CASE Execute \/ CheckBalance \/ Refuse
  BY <1>3, ControlKeepsInv
<1>4. CASE BuildSwapTx
  BY <1>4, BuildKeepsInv
<1>5. CASE SimulateTx
  BY <1>5, SimulateKeepsInv
<1>6. CASE Send
  BY <1>6, SendKeepsInv
<1>7. ASSUME NEW l \in Legs, Fill(l) PROVE TradeInv'
  BY <1>1, <1>7, FillKeepsInv
<1>8. ASSUME NEW l \in Legs, Revert(l) PROVE TradeInv'
  BY <1>8, RevertKeepsInv
<1>9. CASE LateRebalance
  BY <1>1, <1>9, LateKeepsInv
<1>10. CASE UseHelper
  BY <1>1, <1>10, HelperKeepsInv
<1>11. CASE UNCHANGED allVars
  BY <1>11 DEF allVars, vars, marketVars, tradeVars, tradingVars, tradeStageVars, chainVars,
         helperVars, TradeInv, TradeTypes, Progress, Prices, MinOut, Outputs, Funds, Filled
<1> QED BY <1>2, <1>3, <1>4, <1>5, <1>6, <1>7, <1>8, <1>9, <1>10, <1>11 DEF TradeNext

LEMMA AlwaysTradeInv == TradeSpec => [](FinderInv /\ TradeInv)
<1>1. TradeInit => FinderInv /\ TradeInv
  BY FinderInvInductive, TradeInitInv DEF TradeInit
<1>2. FinderInv /\ TradeInv /\ [TradeNext]_allVars => (FinderInv /\ TradeInv)'
  BY FinderStep, FinderInvInductive, TradeStepInv
<1> QED BY <1>1, <1>2, PTL DEF TradeSpec

(* The variables keep their types: no balance of the wallet or of AtomicArb  *)
(* goes below zero, and no size exceeds the finder's cap.                    *)
THEOREM TradeTypeCorrect == TradeSpec => []TradeTypeOK
<1>1. FinderInv /\ TradeInv => TradeTypeOK
  BY DEF FinderInv, Inductive, TradeInv, TradeTypeOK
<1> QED BY <1>1, AlwaysTradeInv, PTL

(* What is left of a trade executed whole (the least outputs of the two      *)
(* buildSwapTx() are all that protects it).                                  *)
THEOREM RoundTripFloorTheorem == TradeSpec => []RoundTripFloor
<1>1. FinderInv /\ TradeInv => RoundTripFloor
  <2> SUFFICES ASSUME FinderInv, TradeInv, ~repriced, Filled(1), Filled(2)
               PROVE  100 * (tx[2].out + 1) > (100 - MaxSlippage) * (amountIn + MinProfit)
    BY DEF RoundTripFloor
  <2>1. /\ tx[2].out >= MinOut(amountOut) /\ amountOut - amountIn >= MinProfit
    BY DEF TradeInv, Prices, Outputs, Filled, Legs
  <2>2. /\ amountOut \in Amounts /\ amountIn \in Int /\ amountOut \in Int
        /\ tx[2].out \in Nat /\ MinProfit \in Int
    BY AmountsAssumption DEF FinderInv, Inductive, TypeOK, TradeInv, TradeTypes, Amounts, Legs
  <2>3. amountIn + MinProfit \in Int /\ amountOut >= amountIn + MinProfit
    BY <2>1, <2>2
  <2> QED BY <2>1, <2>2, <2>3, AboveMinOut
<1> QED BY <1>1, AlwaysTradeInv, PTL

(* What is left of one whose second leg is missing. *)
THEOREM StrandedStockTheorem == TradeSpec => []StrandedStock
<1>1. FinderInv /\ TradeInv => StrandedStock
  <2> SUFFICES ASSUME FinderInv, TradeInv, ~repriced, Filled(1), ~Filled(2)
               PROVE  100 * (wallet.ws + 1) > (100 - MaxSlippage) * midAmount
    BY DEF StrandedStock
  <2>1. /\ tx[1].out >= MinOut(midAmount) /\ wallet.ws >= tx[1].out
    BY DEF TradeInv, Prices, Outputs, Filled, Legs
  <2>2. /\ midAmount \in Amounts /\ midAmount \in Int /\ wallet.ws \in Nat
        /\ tx[1].out \in Int /\ MinOut(midAmount) \in Int
    BY MinOutIsAmount, AmountsAssumption
    DEF FinderInv, Inductive, TypeOK, TradeInv, TradeTypes, Holdings, Amounts, Legs
  <2>3. wallet.ws >= MinOut(midAmount)
    BY <2>1, <2>2
  <2> QED BY <2>2, <2>3, AboveMinOut
<1> QED BY <1>1, AlwaysTradeInv, PTL

(* The simulation of leg 2 makes sure that it can be paid: between the       *)
(* simulation and the execution only a late rebalance spends WS.             *)
THEOREM LegTwoFundedTheorem == TradeSpec => []LegTwoFunded
<1>1. TradeInv => LegTwoFunded
  BY DEF TradeInv, Funds, LegTwoFunded
<1> QED BY <1>1, AlwaysTradeInv, PTL

(* executeArb() compares the balance with the one at its start, so the       *)
(* profits that its calls ask for add up, whatever the two swaps do.         *)
THEOREM PromisedGainTheorem == TradeSpec => []PromisedGain
<1>1. TradeInit => PromisedGain
  BY TradeAssumption DEF TradeInit, PromisedGain
<1>2. ASSUME FinderInv, TradeInv, PromisedGain, [TradeNext]_allVars
      PROVE  PromisedGain'
  <2>1. /\ TypeOK /\ TradeTypes /\ helper \in [Tokens -> Nat] /\ promised \in [Tokens -> Nat]
        /\ \A t \in Tokens : helper[t] >= promised[t]
    BY <1>2 DEF FinderInv, Inductive, TradeInv, TradeTypes, PromisedGain
  <2>2. CASE UNCHANGED <<helper, promised>>
    BY <2>1, <2>2 DEF PromisedGain
  <2>3. ASSUME NEW d \in Dexes, NEW s1 \in Swaps(d, helper),
               NEW s2 \in Swaps(Other(d), After(helper, s1)), NEW token \in Tokens,
               NEW p \in 0..1, ExecuteArb(s1, s2, token, p)
        PROVE  PromisedGain'
    <3>1. /\ helper' \in [Tokens -> Nat] /\ helper'[token] >= helper[token] + p
          /\ promised' = [helper' EXCEPT ![token] = promised[token] + p]
      BY <2>1, <2>3, CallLeaves
    <3> QED BY <2>1, <3>1 DEF PromisedGain
  <2>4. ASSUME NEW t \in Tokens, NEW a \in Amounts, NEW to \in Accounts, Withdraw(t, a, to)
        PROVE  PromisedGain'
    <3>1. helper' \in [Tokens -> Nat] /\ promised' = helper'
      BY <2>1, <2>4, WithdrawalLeaves
    <3> QED BY <3>1 DEF PromisedGain
  <2>5. UNCHANGED <<helper, promised>> \/ UseHelper
    BY <1>2 DEF TradeNext, allVars, tradingVars, helperVars, Scan, UpdateWalletBalance,
           PoolsMove, Execute, BuildSwapTx, SimulateTx, CheckBalance, Refuse, Send, Fill,
           Revert, LateRebalance
  <2> QED BY <2>2, <2>3, <2>4, <2>5 DEF UseHelper
<1> QED BY <1>1, <1>2, AlwaysTradeInv, PTL DEF TradeSpec
=============================================================================
