------------------------- MODULE ExecutionContract -------------------------
(* What the caller of the executor may rely on, without the pipeline.        *)
(*                                                                           *)
(* Calls are opened one at a time.  A call exposes the wallet when its first *)
(* transaction may have reached the network; it settles when that            *)
(* transaction is executed successfully, possibly long after the call has    *)
(* been closed.  A call is closed with one of three verdicts: "inert" (it    *)
(* threw, declined or only simulated), "failed" or "confirmed".              *)
EXTENDS Integers

CONSTANT MaxCalls

VARIABLES
    n,        \* number of the last call
    open,     \* whether it is still running
    exposed,  \* calls that may have a transaction on the network
    settled,  \* calls whose first transaction succeeded
    verdict   \* what the calls were closed with

vars == <<n, open, exposed, settled, verdict>>

Calls == 1..MaxCalls

Init ==
    /\ n = 0
    /\ open = FALSE
    /\ exposed = {}
    /\ settled = {}
    /\ verdict = [c \in Calls |-> "none"]

Open ==
    /\ ~open
    /\ n < MaxCalls
    /\ n' = n + 1
    /\ open' = TRUE
    /\ UNCHANGED <<exposed, settled, verdict>>

Expose ==
    /\ open
    /\ exposed' = exposed \cup {n}
    /\ UNCHANGED <<n, open, settled, verdict>>

Settle(c) ==
    /\ c \in exposed
    /\ settled' = settled \cup {c}
    /\ UNCHANGED <<n, open, exposed, verdict>>

Close(v) ==
    /\ open
    /\ open' = FALSE
    /\ verdict' = [verdict EXCEPT ![n] = v]
    /\ UNCHANGED <<n, settled>>

(* The promise to the caller: an inert call left nothing on the network.     *)
CloseInert == Close("inert") /\ n \notin exposed /\ UNCHANGED exposed

(* A failed call may have exposed the wallet, even in its very last step.    *)
CloseFailed == Close("failed") /\ exposed' \in {exposed, exposed \cup {n}}

(* A call is confirmed only when its transaction has succeeded.              *)
CloseConfirmed == Close("confirmed") /\ n \in settled /\ UNCHANGED exposed

Next ==
    \/ Open
    \/ Expose
    \/ \E c \in Calls : Settle(c)
    \/ CloseInert
    \/ CloseFailed
    \/ CloseConfirmed

Spec == Init /\ [][Next]_vars
=============================================================================
