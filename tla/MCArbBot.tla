------------------------------ MODULE MCArbBot ------------------------------
(* Small instances of ArbBot: one opportunity inside the limits, one setting *)
(* of each limit, and a local signer with (MCRelay) or without a relay.      *)
EXTENDS ArbBot

Opp(profit, size) ==
    [netProfitUsd |-> profit, amountIn |-> size, buyImpact |-> 5, sellImpact |-> 5]

MCOneOpportunity == {Opp(3, 10)}
MCWalletBalances == {0, 100}
MCRichWallet == {100}
MCResults == {3}
MCMinProfits == {1}
MCExposures == {20}
MCSlippages == {50}
MCLossLimits == {0, 1}
MCLossLimit == {1}

Live(relay) == [dryRun |-> FALSE, signer |-> TRUE, remoteSigner |-> FALSE,
                atomicHelper |-> FALSE, mevRelay |-> relay]
MCLive == {Live(FALSE)}
MCRelay == {Live(TRUE)}
MCStock == {1}
MCEither == {TRUE, FALSE}
MCAlways == {TRUE}
=============================================================================
