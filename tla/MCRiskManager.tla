--------------------------- MODULE MCRiskManager ---------------------------
(* A small instance of RiskManager: one opportunity inside every limit and   *)
(* one outside each of them, two settings of each limit, and losses that     *)
(* reach the small loss limit at once and the large one in two trades.       *)
EXTENDS RiskManager

Opp(profit, size, buy, sell) ==
    [netProfitUsd |-> profit, amountIn |-> size, buyImpact |-> buy, sellImpact |-> sell]

MCOpportunities ==
    {Opp(3, 10, 5, 5), Opp(1, 10, 5, 5), Opp(3, 40, 5, 5), Opp(3, 10, 40, 5), Opp(3, 10, 5, 40)}

MCWalletBalances == {0, 50, 100}
MCResults == {-3, -1, 2}
MCMinProfits == {1, 2}
MCExposures == {20, 50}
MCSlippages == {30, 50}
MCLossLimits == {0, 2, 4}

=============================================================================
