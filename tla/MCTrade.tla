------------------------------ MODULE MCTrade ------------------------------
(* Small pools for Trade: cheaper, dearer, with a fee, and with a depth of   *)
(* four units beyond which nothing more is paid out.                         *)
EXTENDS Trade

MCPoolStates == {"cheap", "dear", "fee", "shallow"}

MCBuy(m, a) ==
    LET out == CASE m = "cheap" -> 2 * a
                 [] m = "dear" -> (2 * a) \div 3
                 [] m = "fee" -> (9 * a) \div 10
                 [] m = "shallow" -> IF a < 4 THEN a + a \div 2 ELSE 5
    IN  IF out <= MaxAmount THEN out ELSE MaxAmount

MCSell(m, a) ==
    LET out == CASE m = "cheap" -> a \div 2
                 [] m = "dear" -> (3 * a) \div 2
                 [] m = "fee" -> (9 * a) \div 10
                 [] m = "shallow" -> IF a < 5 THEN (2 * a) \div 3 ELSE 3
    IN  IF out <= MaxAmount THEN out ELSE MaxAmount

MCWalletBalances == 0..60
MCGasCosts == {0, 2}

(* The third wallet is so rich that the cap on the size matters.            *)
MCWallets == {[usdc |-> 8, ws |-> 8], [usdc |-> 6, ws |-> 0], [usdc |-> 30, ws |-> 0]}
MCHelpers == {[usdc |-> 1, ws |-> 1]}
=============================================================================
