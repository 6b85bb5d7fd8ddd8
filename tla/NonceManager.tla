----------------------------- MODULE NonceManager -----------------------------
(* The nonce manager (backend/src/nonceManager.ts) in both its modes, with   *)
(* the executor's use of the nonce it gets (executor.ts:291-293, 330-337).   *)
(* In "redis" mode the callers are bot instances that share one wallet; in   *)
(* "memory" mode they are concurrent users of one process.                   *)
(*                                                                           *)
(* Every Redis command is atomic at the server; between two of them the      *)
(* caller awaits, and time passes.  The lock is a key with a time to live    *)
(* and no owner: DEL removes whoever's lock is there.  Time is discrete.     *)
(* pendingNonces is written and never read, and is left out.                 *)
EXTENDS Integers

CONSTANTS
    Callers,      \* bot instances, or users of one process
    LockTTL,      \* life of the lock, in ticks (LOCK_TTL_MS)
    ReserveTTL,   \* life of a reservation, in ticks (60 s in the code)
    MaxHold,      \* ticks an instance may spend between SET NX and DEL
    MaxSend,      \* ticks it may spend between getting a nonce and sending
    Usages,       \* ways the manager may be used
    MaxNonce      \* bound: the largest nonce

(* What may happen to a nonce: the node refuses its transaction, or takes it *)
(* and the answer is lost; the process stops between two nonces, or the      *)
(* nonce is lost (the process stops with it, or its reservation outlives it).*)
Faults == {"refused", "unanswered", "stopped", "lost"}

(* synced: sync() runs at start-up.  documented: confirmNonce() and          *)
(* releaseNonce() are called as nonceManager.ts:10-14 asks; the executor     *)
(* calls neither.  legs: trades are sequential, with nonce and nonce + 1.    *)
UsageType == [mode : {"redis", "memory"}, callers : SUBSET Callers, synced : BOOLEAN,
              documented : BOOLEAN, legs : BOOLEAN, faults : SUBSET Faults]

ASSUME NonceAssumption ==
    /\ LockTTL \in Nat \ {0}
    /\ ReserveTTL \in Nat \ {0}
    /\ MaxHold \in Nat
    /\ MaxSend \in Nat
    /\ Usages \subseteq UsageType
    /\ MaxNonce \in Nat

VARIABLES
    usage,       \* fixed in a behaviour
    localNonce,  \* the counter in memory, Unset before the first use
    lockLeft,    \* remaining life of the lock key, 0 when there is none
    lockBy,      \* history: the instance whose SET created the key, {} or a singleton
    reserved,    \* reserved[n]: remaining life of the reservation of n, 0 when none
    used,        \* nonces of the transactions the network has accepted
    pc,          \* pc[i]: where caller i is
    nonce,       \* nonce[i]: its candidate, then its nonce
    age          \* age[i]: ticks since it acquired the lock, then since it got the nonce

lockVars == <<lockLeft, lockBy>>
vars == <<usage, localNonce, lockVars, reserved, used, pc, nonce, age>>

Unset == -1
Nonces == 0..MaxNonce
Critical == {"counting", "probing", "reserving", "releasing", "failing"}
Sending == {"holding", "second"}
InHand == {"releasing", "holding", "failed"}
Pcs == {"idle", "locking", "counted", "confirming", "failed"} \cup Critical \cup Sending

Redis == usage.mode = "redis"
Memory == usage.mode = "memory"

(* eth_getTransactionCount(address, 'pending'): the nonces accepted without  *)
(* a gap.                                                                    *)
PendingCounts == {k \in Nonces : k \notin used /\ \A n \in Nonces : n < k => n \in used}

Init ==
    /\ usage \in Usages
    /\ localNonce = IF Memory /\ usage.synced THEN 0 ELSE Unset
    /\ lockLeft = 0
    /\ lockBy = {}
    /\ reserved = [n \in Nonces |-> 0]
    /\ used = {}
    /\ pc = [i \in Callers |-> "idle"]
    /\ nonce = [i \in Callers |-> 0]
    /\ age = [i \in Callers |-> 0]

Goto(i, label) == pc' = [pc EXCEPT ![i] = label]

-----------------------------------------------------------------------------
(* nextNonceLocal() *)

(* Mutant: the counter is read and not stepped. *)
TakeStays(i, n) ==
    /\ nonce' = [nonce EXCEPT ![i] = n]
    /\ localNonce' = n
    /\ Goto(i, "holding")
    /\ UNCHANGED <<usage, lockVars, reserved, used, age>>

(* Read the counter and step it, without an await in between.                *)
Take(i, n) ==
    /\ nonce' = [nonce EXCEPT ![i] = n]
    /\ localNonce' = n + 1
    /\ Goto(i, "holding")
    /\ UNCHANGED <<usage, lockVars, reserved, used, age>>

NextNonceLocal(i) ==
    /\ Memory /\ pc[i] = "idle"
    /\ localNonce \in Nonces
    /\ Take(i, localNonce)

ReadCount(i) ==
    /\ Memory /\ pc[i] = "idle"
    /\ localNonce = Unset
    /\ Goto(i, "counting")
    /\ UNCHANGED <<usage, localNonce, lockVars, reserved, used, nonce, age>>

(* The count arrives and overwrites the counter, set meanwhile or not.       *)
CountArrives(i) ==
    /\ pc[i] = "counted"
    /\ Take(i, nonce[i])

-----------------------------------------------------------------------------
(* nextNonceRedis() *)

NextNonceRedis(i) ==
    /\ Redis /\ pc[i] = "idle"
    /\ Goto(i, "locking")
    /\ UNCHANGED <<usage, localNonce, lockVars, reserved, used, nonce, age>>

(* Mutant: the lock is taken without NX. *)
AcquireAnyway(i) ==
    /\ pc[i] = "locking"
    /\ lockLeft' = LockTTL
    /\ lockBy' = {i}
    /\ age' = [age EXCEPT ![i] = 0]
    /\ Goto(i, "counting")
    /\ UNCHANGED <<usage, localNonce, reserved, used, nonce>>

(* SET key '1' PX ttl NX.  While the key exists the command fails, and after *)
(* 50 ms nextNonceRedis() calls itself: the state does not change.           *)
Acquire(i) ==
    /\ pc[i] = "locking"
    /\ lockLeft = 0
    /\ lockLeft' = LockTTL
    /\ lockBy' = {i}
    /\ age' = [age EXCEPT ![i] = 0]
    /\ Goto(i, "counting")
    /\ UNCHANGED <<usage, localNonce, reserved, used, nonce>>

(* The SET stands before the try block: its error leaves no lock behind, or, *)
(* when only the answer is lost, a lock that lives out its time.             *)
AcquireFails(i) ==
    /\ pc[i] = "locking"
    /\ \/ UNCHANGED lockVars
       \/ lockLeft = 0 /\ lockLeft' = LockTTL /\ lockBy' = {i}
    /\ Goto(i, "idle")
    /\ UNCHANGED <<usage, localNonce, reserved, used, nonce, age>>

Count(i) ==
    /\ pc[i] = "counting"
    /\ \E k \in PendingCounts : nonce' = [nonce EXCEPT ![i] = k]
    /\ Goto(i, IF Redis THEN "probing" ELSE "counted")
    /\ UNCHANGED <<usage, localNonce, lockVars, reserved, used, age>>

(* EXISTS: the first nonce that is not reserved. *)
ProbeTaken(i) ==
    /\ pc[i] = "probing"
    /\ reserved[nonce[i]] > 0
    /\ nonce[i] < MaxNonce
    /\ nonce' = [nonce EXCEPT ![i] = nonce[i] + 1]
    /\ UNCHANGED <<usage, localNonce, lockVars, reserved, used, pc, age>>

ProbeFree(i) ==
    /\ pc[i] = "probing"
    /\ reserved[nonce[i]] = 0
    /\ Goto(i, "reserving")
    /\ UNCHANGED <<usage, localNonce, lockVars, reserved, used, nonce, age>>

(* Mutant: the nonce is returned without a reservation. *)
ReserveNothing(i) ==
    /\ pc[i] = "reserving"
    /\ Goto(i, "releasing")
    /\ UNCHANGED <<usage, localNonce, lockVars, reserved, used, nonce, age>>

Reserve(i) ==
    /\ pc[i] = "reserving"
    /\ reserved' = [reserved EXCEPT ![nonce[i]] = ReserveTTL]
    /\ Goto(i, "releasing")
    /\ UNCHANGED <<usage, localNonce, lockVars, used, nonce, age>>

(* The provider or Redis answers with an error, and nextNonce() throws: in   *)
(* Redis mode after its finally block.  A SET whose answer is lost leaves a  *)
(* reservation that nobody uses.                                             *)
CommandFails(i) ==
    /\ pc[i] \in {"counting", "probing", "reserving"}
    /\ \/ UNCHANGED reserved
       \/ /\ pc[i] = "reserving" /\ "lost" \in usage.faults
          /\ reserved' = [reserved EXCEPT ![nonce[i]] = ReserveTTL]
    /\ Goto(i, IF Redis THEN "failing" ELSE "idle")
    /\ UNCHANGED <<usage, localNonce, lockVars, used, nonce, age>>

AfterRelease(i) ==
    /\ Goto(i, IF pc[i] = "releasing" THEN "holding" ELSE "idle")
    /\ age' = [age EXCEPT ![i] = 0]
    /\ UNCHANGED <<usage, localNonce, reserved, used, nonce>>

(* DEL: the key goes, whoever set it. *)
Release(i) ==
    /\ pc[i] \in {"releasing", "failing"}
    /\ lockLeft' = 0
    /\ lockBy' = {}
    /\ AfterRelease(i)

(* A DEL that fails is swallowed, and the key lives out its time. *)
ReleaseFails(i) ==
    /\ pc[i] \in {"releasing", "failing"}
    /\ UNCHANGED lockVars
    /\ AfterRelease(i)

-----------------------------------------------------------------------------
(* The users of the nonce. *)

Send(i) ==
    /\ pc[i] = "holding"
    /\ nonce[i] \notin used
    /\ used' = used \cup {nonce[i]}
    /\ Goto(i, IF usage.legs THEN "second"
               ELSE IF usage.documented THEN "confirming" ELSE "idle")
    /\ UNCHANGED <<usage, localNonce, lockVars, reserved, nonce, age>>

SendSecond(i) ==
    /\ pc[i] = "second"
    /\ nonce[i] < MaxNonce
    /\ nonce[i] + 1 \notin used
    /\ used' = used \cup {nonce[i] + 1}
    /\ Goto(i, IF usage.documented THEN "confirming" ELSE "idle")
    /\ UNCHANGED <<usage, localNonce, lockVars, reserved, nonce, age>>

SendFailed(i) == Goto(i, IF usage.documented THEN "failed" ELSE "idle")

(* The node refuses a nonce that is used, and may refuse for other reasons;  *)
(* the nonce of leg 2 is not the manager's to release.                       *)
SendRefused(i) ==
    /\ \/ /\ pc[i] = "holding" /\ ("refused" \in usage.faults \/ nonce[i] \in used)
          /\ SendFailed(i)
       \/ pc[i] = "second" /\ Goto(i, "idle")
    /\ UNCHANGED <<usage, localNonce, lockVars, reserved, used, nonce, age>>

(* The node has taken the transaction, and its caller sees an error.         *)
SendUnanswered(i) ==
    /\ pc[i] = "holding" /\ "unanswered" \in usage.faults
    /\ nonce[i] \notin used
    /\ used' = used \cup {nonce[i]}
    /\ SendFailed(i)
    /\ UNCHANGED <<usage, localNonce, lockVars, reserved, nonce, age>>

(* DEL of the reservation; in memory mode there is none. *)
Forget(i) == reserved' = [reserved EXCEPT ![nonce[i]] = 0]

(* confirmNonce() once the transaction is mined; its DEL may fail.           *)
ConfirmNonce(i) ==
    /\ pc[i] = "confirming"
    /\ \A n \in Nonces : n < nonce[i] => n \in used
    /\ Forget(i) \/ UNCHANGED reserved
    /\ Goto(i, "idle")
    /\ UNCHANGED <<usage, localNonce, lockVars, used, nonce, age>>

(* The transaction was not mined in time, and nobody confirms it.            *)
GiveUp(i) ==
    /\ pc[i] = "confirming"
    /\ Goto(i, "idle")
    /\ UNCHANGED <<usage, localNonce, lockVars, reserved, used, nonce, age>>

(* releaseNonce(): the counter goes back to the released nonce.              *)
ReleaseNonce(i) ==
    /\ pc[i] = "failed"
    /\ localNonce' = IF localNonce # Unset /\ nonce[i] <= localNonce
                     THEN nonce[i] ELSE localNonce
    /\ Forget(i) \/ ("lost" \in usage.faults /\ UNCHANGED reserved)
    /\ Goto(i, "idle")
    /\ UNCHANGED <<usage, lockVars, used, nonce, age>>

-----------------------------------------------------------------------------
MayStop(i) ==
    \/ "stopped" \in usage.faults /\ pc[i] \notin InHand
    \/ "lost" \in usage.faults

(* The instance stops and is started again; Redis keeps the keys.            *)
CrashInstance(i) ==
    /\ Redis /\ pc[i] # "idle" /\ MayStop(i)
    /\ Goto(i, "idle")
    /\ UNCHANGED <<usage, localNonce, lockVars, reserved, used, nonce, age>>

(* The process stops with all its callers, and forgets its counter, which    *)
(* sync() then reads from the chain.                                         *)
CrashProcess ==
    /\ Memory /\ \A i \in usage.callers : MayStop(i)
    /\ pc' = [i \in Callers |-> "idle"]
    /\ IF usage.synced THEN localNonce' \in PendingCounts ELSE localNonce' = Unset
    /\ UNCHANGED <<usage, lockVars, reserved, used, nonce, age>>

(* Mutant: the life of a key runs below zero. *)
ExpireBelowZero(left) == left - 1

(* Mutant: keys are set without a time to live. *)
ExpireNever(left) == left

Expire(left) == IF left = 0 THEN 0 ELSE left - 1

(* Time passes, unless an instance is at the end of what it may take.        *)
Tick ==
    /\ Redis
    /\ \A i \in Callers :
          /\ pc[i] \in Critical => age[i] < MaxHold
          /\ pc[i] \in Sending => age[i] < MaxSend
    /\ lockLeft' = Expire(lockLeft)
    /\ lockBy' = IF lockLeft <= 1 THEN {} ELSE lockBy
    /\ reserved' = [n \in Nonces |-> Expire(reserved[n])]
    /\ age' = [i \in Callers |->
                  IF pc[i] \in Critical \cup Sending THEN age[i] + 1 ELSE age[i]]
    /\ UNCHANGED <<usage, localNonce, used, pc, nonce>>

Step(i) ==
    \/ CountArrives(i)
    \/ Acquire(i)
    \/ AcquireFails(i)
    \/ Count(i)
    \/ ProbeTaken(i)
    \/ ProbeFree(i)
    \/ Reserve(i)
    \/ CommandFails(i)
    \/ Release(i)
    \/ ReleaseFails(i)
    \/ Send(i)
    \/ SendSecond(i)
    \/ SendRefused(i)
    \/ SendUnanswered(i)
    \/ ConfirmNonce(i)
    \/ GiveUp(i)
    \/ ReleaseNonce(i)

Next ==
    \/ \E i \in usage.callers :
          NextNonceLocal(i) \/ ReadCount(i) \/ NextNonceRedis(i) \/ Step(i) \/ CrashInstance(i)
    \/ CrashProcess
    \/ Tick

Spec == Init /\ [][Next]_vars

(* Every command is answered in the end, and time passes.                    *)
FairSpec == Spec /\ WF_vars(Tick) /\ \A i \in Callers : WF_vars(Step(i))

-----------------------------------------------------------------------------
(* The types of the variables; the lock's creator is known while it lives.   *)
TypeOK ==
    /\ usage \in Usages
    /\ localNonce \in Nonces \cup {Unset, MaxNonce + 1}
    /\ lockLeft \in 0..LockTTL
    /\ \/ lockLeft = 0 /\ lockBy = {}
       \/ lockLeft > 0 /\ \E i \in Callers : lockBy = {i}
    /\ reserved \in [Nonces -> 0..ReserveTTL]
    /\ used \subseteq Nonces
    /\ pc \in [Callers -> Pcs]
    /\ nonce \in [Callers -> Nonces]
    /\ age \in [Callers -> Nat]

(* The purpose of the lock: one instance at a time between SET NX and DEL.   *)
(* It holds while no instance stays there for the life of the lock.          *)
MutualExclusion ==
    Redis => \A i, j \in Callers : pc[i] \in Critical /\ pc[j] \in Critical => i = j

Holding(i) == pc[i] = "holding"
Alone == \A i, j \in usage.callers : i = j

NonceUnique(i) ==
    /\ nonce[i] \notin used
    /\ \A j \in Callers \ {i} : Holding(j) => nonce[i] # nonce[j]

(* The uses in which a nonce is safe to sign with.  The executor's own, with *)
(* single transactions, is safe until the network refuses one: in Redis mode *)
(* at once, since the gap hides what is accepted behind it, in memory mode   *)
(* from the next restart on.  The documented use is safe for a single caller *)
(* only, which in memory mode must not release what the node has taken: with *)
(* two bots, confirmNonce() removes the reservation of a nonce that the other*)
(* bot has not counted yet.                                                  *)
Sound ==
    /\ ~usage.legs
    /\ \/ Redis /\ ~usage.documented /\ usage.faults \subseteq {"unanswered", "stopped"}
       \/ Redis /\ Alone /\ usage.documented /\ "lost" \notin usage.faults
       \/ /\ Memory /\ ~usage.documented /\ (Alone \/ usage.synced)
          /\ \/ usage.faults \subseteq {"refused", "unanswered"}
             \/ usage.faults \subseteq {"unanswered", "stopped"}
       \/ Memory /\ Alone /\ usage.documented /\ "unanswered" \notin usage.faults

(* No nonce is reused (nonceManager.ts:5): in a sound use, a caller about to *)
(* sign has a nonce that nobody else has and that the network has not taken. *)
NoReuse == Sound => \A i \in Callers : Holding(i) => NonceUnique(i)

(* In a sound use the manager hands nonces out as the allocator does.        *)
Allocator == INSTANCE NonceAllocator WITH
    Instances <- Callers,
    held <- [i \in Callers |-> IF Sound /\ Holding(i) THEN {nonce[i]} ELSE {}],
    used <- IF Sound THEN used ELSE {}

ImplementsAllocator == Allocator!Spec

(* A sequential trade signs leg 2 with a nonce the counter has not handed    *)
(* out.  However many such trades follow one another, the network takes no   *)
(* nonce beyond the one the counter stands at.                               *)
AheadByAtMostOne ==
    /\ Memory /\ (Alone \/ (usage.synced /\ ~usage.documented))
    /\ usage.faults \subseteq {"refused", "unanswered"}
    /\ localNonce # Unset
    => \A n \in used : n <= localNonce

(* A crashed or silent holder cannot keep the others out for ever.           *)
LockIsFreed == [](lockLeft > 0 => <>(lockLeft = 0))

-----------------------------------------------------------------------------
(* What the comments say and the code does not do. *)

(* nonceManager.ts:5: nonces are not reused, whatever becomes of them.       *)
NeverReused == \A i \in Callers : Holding(i) => NonceUnique(i)
=============================================================================
