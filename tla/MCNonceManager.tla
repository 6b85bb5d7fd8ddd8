--------------------------- MODULE MCNonceManager ---------------------------
(* Up to two bots on Redis, and up to three callers of one process.  Faults  *)
(* only add behaviours, so of each kind of use the largest sets of faults    *)
(* that are still sound are enough, and a rougher one.                       *)
EXTENDS NonceManager, TLC

CONSTANTS c1, c2, c3

MCCallers == {c1, c2, c3}

OfUse(mode, callers, documented, legs, synced, faults) ==
    [mode |-> mode, callers |-> callers, synced |-> synced,
     documented |-> documented, legs |-> legs, faults |-> faults]

Quiet == {"unanswered", "stopped"}

MCRedis ==
    {OfUse("redis", {c1, c2}, FALSE, FALSE, FALSE, Quiet),
     OfUse("redis", {c1}, TRUE, FALSE, FALSE, {"refused", "unanswered", "stopped"})}

MCRough == {OfUse("redis", {c1}, TRUE, TRUE, FALSE, Faults)}

MCMemory ==
    {u \in UsageType :
        /\ u.mode = "memory"
        /\ u.callers \in {{c1}, {c1, c2}}
        /\ u.faults \in {Quiet, {"refused", "unanswered"}, {"refused", "stopped", "lost"}, Faults}}
    \cup {OfUse("memory", MCCallers, FALSE, legs, TRUE, {"refused", "unanswered"}) : legs \in BOOLEAN}

MCUsages == MCRedis \cup MCRough \cup MCMemory

(* The executor's use in Redis mode, one transaction at a time. *)
MCLost == {OfUse("redis", {c1, c2}, FALSE, FALSE, FALSE, {"refused"})}
MCSymmetry == Permutations({c1, c2})
=============================================================================
