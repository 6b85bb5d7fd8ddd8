--------------------------- MODULE NonceAllocator ---------------------------
(* What a nonce manager shared by several bot instances promises: a nonce is *)
(* handed to one instance at a time, and never after it has been used on     *)
(* chain.                                                                    *)
CONSTANTS Instances, Nonces

VARIABLES
    held,  \* held[i]: the nonces instance i may sign with, {} or a singleton
    used   \* the nonces of the transactions the network has accepted

vars == <<held, used>>

Init == held = [i \in Instances |-> {}] /\ used = {}

Allocate(i, n) ==
    /\ held[i] = {}
    /\ n \notin used
    /\ \A j \in Instances : n \notin held[j]
    /\ held' = [held EXCEPT ![i] = {n}]
    /\ UNCHANGED used

Use(i, n) ==
    /\ n \in held[i]
    /\ held' = [held EXCEPT ![i] = {}]
    /\ used' = used \cup {n}

Drop(i) ==
    /\ held' = [held EXCEPT ![i] = {}]
    /\ UNCHANGED used

Next == \E i \in Instances :
    \/ \E n \in Nonces : Allocate(i, n) \/ Use(i, n)
    \/ Drop(i)

Spec == Init /\ [][Next]_vars
=============================================================================
