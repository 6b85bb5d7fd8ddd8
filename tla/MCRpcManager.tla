---------------------------- MODULE MCRpcManager ----------------------------
(* Two quotes at once, each with the call inside it, as in every scan; or    *)
(* two plain calls.                                                          *)
EXTENDS RpcManager, TLC

CONSTANTS shadow, shadowPool, beets, beetsPool

MCQuotes == {shadow, shadowPool, beets, beetsPool}
MCInside == shadow :> shadowPool @@ beets :> beetsPool
MCCalls == {shadow, beets}
MCApart == [c \in {} |-> c]
=============================================================================
