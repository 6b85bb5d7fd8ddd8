----------------------------- MODULE NonceProofs -----------------------------
(* Theorems about the nonce manager, for any number of bots and callers, any *)
(* times to live and any number of nonces: its types, the mutual exclusion   *)
(* of its lock, and, in a sound use, that no nonce is handed out twice, that *)
(* the manager implements NonceAllocator, and that the second legs of trades *)
(* stay within one nonce of the counter.                                     *)
EXTENDS NonceManager, TLAPS

(* An instance between SET NX and DEL owns the key that is there, and what   *)
(* the key has left and what the instance has spent make up its life.        *)
Owns(i) ==
    /\ lockBy = {i}
    /\ lockLeft + age[i] = LockTTL
    /\ age[i] <= MaxHold

LockInv == TypeOK /\ (Redis => \A i \in Callers : pc[i] \in Critical => Owns(i))

-----------------------------------------------------------------------------

LEMMA CallersOfUsage == ASSUME TypeOK PROVE usage.callers \subseteq Callers
  BY NonceAssumption DEF TypeOK, UsageType

LEMMA InitTypes == Init => TypeOK
  BY NonceAssumption DEF Init, TypeOK, Nonces, Pcs, Unset

(* What one caller does keeps the types. *)
LEMMA LocalTypes ==
  ASSUME TypeOK, NEW i \in Callers,
         NextNonceLocal(i) \/ ReadCount(i) \/ CountArrives(i) \/ NextNonceRedis(i)
  PROVE  TypeOK'
<1>1. CASE NextNonceLocal(i)
  BY <1>1, NonceAssumption DEF NextNonceLocal, Take, Goto, lockVars, TypeOK, Nonces, Pcs, Critical, Sending
<1>2. CASE ReadCount(i)
  BY <1>2, NonceAssumption DEF ReadCount, Goto, lockVars, TypeOK, Pcs, Critical
<1>3. CASE CountArrives(i)
  <2>1. nonce[i] \in Nonces /\ nonce[i] + 1 \in Nonces \cup {MaxNonce + 1}
    BY NonceAssumption DEF TypeOK, Nonces
  <2>2. nonce' \in [Callers -> Nonces] /\ pc' \in [Callers -> Pcs]
    BY <1>3, <2>1 DEF CountArrives, Take, Goto, TypeOK, Pcs, Sending
  <2> QED BY <1>3, <2>1, <2>2 DEF CountArrives, Take, lockVars, TypeOK
<1>4. CASE NextNonceRedis(i)
  BY <1>4, NonceAssumption DEF NextNonceRedis, Goto, lockVars, TypeOK, Pcs
<1> QED BY <1>1, <1>2, <1>3, <1>4

LEMMA LockTypes ==
  ASSUME TypeOK, NEW i \in Callers,
         Acquire(i) \/ AcquireFails(i) \/ Release(i) \/ ReleaseFails(i)
  PROVE  TypeOK'
<1>1. CASE Acquire(i)
  BY <1>1, NonceAssumption DEF Acquire, Goto, TypeOK, Pcs, Critical
<1>2. CASE AcquireFails(i)
  BY <1>2, NonceAssumption DEF AcquireFails, Goto, lockVars, TypeOK, Pcs
<1>3. CASE Release(i)
  BY <1>3, NonceAssumption DEF Release, AfterRelease, Goto, TypeOK, Pcs, Sending
<1>4. CASE ReleaseFails(i)
  BY <1>4, NonceAssumption DEF ReleaseFails, AfterRelease, Goto, lockVars, TypeOK, Pcs, Sending
<1> QED BY <1>1, <1>2, <1>3, <1>4

LEMMA SectionTypes ==
  ASSUME TypeOK, NEW i \in Callers,
         Count(i) \/ ProbeTaken(i) \/ ProbeFree(i) \/ Reserve(i) \/ CommandFails(i)
  PROVE  TypeOK'
<1>1. CASE Count(i)
  BY <1>1, NonceAssumption DEF Count, PendingCounts, Goto, lockVars, TypeOK, Nonces, Pcs, Critical
<1>2. CASE ProbeTaken(i)
  <2>1. nonce[i] + 1 \in Nonces
    BY <1>2, NonceAssumption DEF ProbeTaken, TypeOK, Nonces
  <2> QED BY <1>2, <2>1 DEF ProbeTaken, lockVars, TypeOK
<1>3. CASE ProbeFree(i)
  BY <1>3, NonceAssumption DEF ProbeFree, Goto, lockVars, TypeOK, Pcs, Critical
<1>4. CASE Reserve(i)
  BY <1>4, NonceAssumption DEF Reserve, Goto, lockVars, TypeOK, Pcs, Critical
<1>5. CASE CommandFails(i)
  BY <1>5, NonceAssumption DEF CommandFails, Goto, lockVars, TypeOK, Pcs, Critical
<1> QED BY <1>1, <1>2, <1>3, <1>4, <1>5

LEMMA SendTypes ==
  ASSUME TypeOK, NEW i \in Callers,
         Send(i) \/ SendSecond(i) \/ SendRefused(i) \/ SendUnanswered(i)
  PROVE  TypeOK'
<1>1. CASE Send(i)
  BY <1>1, NonceAssumption DEF Send, Goto, lockVars, TypeOK, Pcs, Sending
<1>2. CASE SendSecond(i)
  <2>1. nonce[i] + 1 \in Nonces
    BY <1>2, NonceAssumption DEF SendSecond, TypeOK, Nonces
  <2> QED BY <1>2, <2>1 DEF SendSecond, Goto, lockVars, TypeOK, Pcs
<1>3. CASE SendRefused(i)
  BY <1>3, NonceAssumption DEF SendRefused, SendFailed, Goto, lockVars, TypeOK, Pcs
<1>4. CASE SendUnanswered(i)
  BY <1>4, NonceAssumption DEF SendUnanswered, SendFailed, Goto, lockVars, TypeOK, Pcs
<1> QED BY <1>1, <1>2, <1>3, <1>4

LEMMA AfterwardsTypes ==
  ASSUME TypeOK, NEW i \in Callers,
         ConfirmNonce(i) \/ GiveUp(i) \/ ReleaseNonce(i) \/ CrashInstance(i)
  PROVE  TypeOK'
<1>1. CASE ConfirmNonce(i)
  BY <1>1, NonceAssumption DEF ConfirmNonce, Forget, Goto, lockVars, TypeOK, Pcs
<1>2. CASE GiveUp(i)
  BY <1>2, NonceAssumption DEF GiveUp, Goto, lockVars, TypeOK, Pcs
<1>3. CASE ReleaseNonce(i)
  BY <1>3, NonceAssumption DEF ReleaseNonce, Forget, Goto, lockVars, TypeOK, Pcs
<1>4. CASE CrashInstance(i)
  BY <1>4, NonceAssumption DEF CrashInstance, Goto, lockVars, TypeOK, Pcs
<1> QED BY <1>1, <1>2, <1>3, <1>4

LEMMA CrashTypes == TypeOK /\ CrashProcess => TypeOK'
  BY NonceAssumption DEF CrashProcess, PendingCounts, lockVars, TypeOK, Pcs

LEMMA TickTypes == TypeOK /\ Tick => TypeOK'
<1> SUFFICES ASSUME TypeOK, Tick PROVE TypeOK'
  OBVIOUS
<1>1. lockLeft' \in 0..LockTTL
  BY NonceAssumption DEF Tick, Expire, TypeOK
<1>2. \/ lockLeft' = 0 /\ lockBy' = {}
      \/ lockLeft' > 0 /\ \E i \in Callers : lockBy' = {i}
  BY NonceAssumption DEF Tick, Expire, TypeOK
<1>3. reserved' \in [Nonces -> 0..ReserveTTL]
  BY NonceAssumption DEF Tick, Expire, TypeOK
<1>4. age' \in [Callers -> Nat]
  BY DEF Tick, TypeOK
<1> QED BY <1>1, <1>2, <1>3, <1>4 DEF Tick, TypeOK

LEMMA NextTypes == TypeOK /\ [Next]_vars => TypeOK'
<1> SUFFICES ASSUME TypeOK, [Next]_vars PROVE TypeOK'
  OBVIOUS
<1>1. CASE UNCHANGED vars
  BY <1>1 DEF vars, lockVars, TypeOK
<1>2. ASSUME NEW i \in usage.callers,
             NextNonceLocal(i) \/ ReadCount(i) \/ NextNonceRedis(i) \/ Step(i) \/ CrashInstance(i)
      PROVE  TypeOK'
  BY <1>2, CallersOfUsage, LocalTypes, LockTypes, SectionTypes, SendTypes, AfterwardsTypes DEF Step
<1>3. CASE CrashProcess
  BY <1>3, CrashTypes
<1>4. CASE Tick
  BY <1>4, TickTypes
<1> QED BY <1>1, <1>2, <1>3, <1>4 DEF Next

(* The variables have their types, in every use and for any times to live.   *)
THEOREM TypeCorrect == Spec => []TypeOK
  BY InitTypes, NextTypes, PTL DEF Spec

(* The lock: nobody but its owner is in the section, as long as the key      *)
(* cannot expire under it.                                                   *)

LEMMA InitLock == Init => LockInv
  BY InitTypes DEF Init, LockInv, Critical

(* A step that stays out of the section and leaves the lock alone.           *)
LEMMA OutsideKept ==
  ASSUME LockInv, TypeOK', usage' = usage, UNCHANGED <<lockLeft, lockBy, age>>,
         \A j \in Callers : pc'[j] \in Critical => pc[j] \in Critical
  PROVE  LockInv'
  BY DEF LockInv, Owns, Redis

(* The key of whoever is inside has not expired. *)
LEMMA FreeMeansEmpty ==
  ASSUME LockInv, Redis, lockLeft = 0, NEW k \in Callers
  PROVE  pc[k] \notin Critical
<1> SUFFICES ASSUME pc[k] \in Critical PROVE FALSE
  OBVIOUS
<1>1. lockBy = {k}
  BY DEF LockInv, Owns
<1>2. lockBy = {}
  BY DEF LockInv, TypeOK
<1> QED BY <1>1, <1>2

(* Acquire is the only way in, and it needs the key to be gone. *)
LEMMA AcquireKept == ASSUME LockInv, TypeOK', NEW i \in Callers, Acquire(i) PROVE LockInv'
<1> SUFFICES ASSUME Redis', NEW j \in Callers, pc'[j] \in Critical PROVE Owns(j)'
  BY DEF LockInv
<1>1. \A k \in Callers : pc[k] \notin Critical
  BY FreeMeansEmpty DEF Acquire, Redis
<1>2. j = i
  BY <1>1 DEF Acquire, Goto, LockInv, TypeOK
<1>3. lockLeft' = LockTTL /\ lockBy' = {i} /\ age'[i] = 0
  BY DEF Acquire, LockInv, TypeOK
<1> QED BY <1>2, <1>3, NonceAssumption DEF Owns

LEMMA AcquireFailsKept ==
  ASSUME LockInv, TypeOK', NEW i \in Callers, AcquireFails(i) PROVE LockInv'
<1>1. usage' = usage /\ age' = age /\ \A j \in Callers : pc'[j] \in Critical => pc[j] \in Critical
  BY DEF AcquireFails, Goto, LockInv, TypeOK, Critical
<1>2. CASE UNCHANGED lockVars
  BY <1>1, <1>2, OutsideKept DEF lockVars
<1>3. CASE lockLeft = 0
  BY <1>1, <1>3, FreeMeansEmpty DEF LockInv, Redis
<1> QED BY <1>2, <1>3 DEF AcquireFails

(* The releaser was the only one inside. *)
LEMMA ReleaseKept ==
  ASSUME LockInv, TypeOK', NEW i \in Callers, Release(i) \/ ReleaseFails(i) PROVE LockInv'
<1> SUFFICES ASSUME Redis', NEW j \in Callers, pc'[j] \in Critical PROVE FALSE
  BY DEF LockInv
<1>1. Redis /\ pc[i] \in Critical /\ pc'[i] \notin Critical
  BY DEF Release, ReleaseFails, AfterRelease, Goto, Redis, Critical, LockInv, TypeOK
<1>2. j # i /\ pc[j] \in Critical
  BY <1>1 DEF Release, ReleaseFails, AfterRelease, Goto, LockInv, TypeOK
<1> QED BY <1>1, <1>2 DEF LockInv, Owns

LEMMA InsideKept ==
  ASSUME LockInv, TypeOK', NEW i \in Callers,
         Count(i) \/ ProbeTaken(i) \/ ProbeFree(i) \/ Reserve(i) \/ CommandFails(i)
  PROVE  LockInv'
<1>1. usage' = usage /\ UNCHANGED <<lockLeft, lockBy, age>>
  BY DEF Count, ProbeTaken, ProbeFree, Reserve, CommandFails, lockVars
<1>2. ASSUME NEW j \in Callers, pc'[j] \in Critical PROVE pc[j] \in Critical
  BY <1>2 DEF Count, ProbeTaken, ProbeFree, Reserve, CommandFails, Goto, LockInv, TypeOK, Critical
<1> QED BY <1>1, <1>2, OutsideKept

(* The users of nonces are outside, and stay there. *)
LEMMA UserKept ==
  ASSUME LockInv, TypeOK', NEW i \in Callers,
         \/ NextNonceRedis(i)
         \/ Send(i) \/ SendSecond(i) \/ SendRefused(i) \/ SendUnanswered(i)
         \/ ConfirmNonce(i) \/ GiveUp(i) \/ ReleaseNonce(i) \/ CrashInstance(i)
  PROVE  LockInv'
<1>1. usage' = usage /\ UNCHANGED <<lockLeft, lockBy, age>>
  BY DEF NextNonceRedis, Send, SendSecond, SendRefused, SendUnanswered, ConfirmNonce, GiveUp,
         ReleaseNonce, CrashInstance, lockVars
<1>2. pc' = [pc EXCEPT ![i] = pc'[i]]
  BY DEF NextNonceRedis, Send, SendSecond, SendRefused, SendFailed, SendUnanswered, ConfirmNonce,
         GiveUp, ReleaseNonce, CrashInstance, Goto, LockInv, TypeOK
<1>3. pc'[i] \in {"idle", "locking", "second", "confirming", "failed"}
  BY DEF NextNonceRedis, Send, SendSecond, SendRefused, SendFailed, SendUnanswered, ConfirmNonce,
         GiveUp, ReleaseNonce, CrashInstance, Goto, LockInv, TypeOK
<1>4. ASSUME NEW j \in Callers, pc'[j] \in Critical PROVE pc[j] \in Critical
  BY <1>2, <1>3, <1>4 DEF LockInv, TypeOK, Critical
<1> QED BY <1>1, <1>4, OutsideKept

(* The steps of memory mode, where there is no lock. *)
LEMMA MemoryKept ==
  ASSUME LockInv, TypeOK',
         \/ \E i \in Callers : NextNonceLocal(i) \/ ReadCount(i)
         \/ CrashProcess
  PROVE  LockInv'
  BY DEF LockInv, Redis, Memory, NextNonceLocal, Take, ReadCount, CrashProcess

LEMMA CountArrivesKept == ASSUME LockInv, TypeOK', NEW i \in Callers, CountArrives(i) PROVE LockInv'
<1>1. usage' = usage /\ UNCHANGED <<lockLeft, lockBy, age>>
  BY DEF CountArrives, Take, lockVars
<1>2. ASSUME NEW j \in Callers, pc'[j] \in Critical PROVE pc[j] \in Critical
  BY <1>2 DEF CountArrives, Take, Goto, LockInv, TypeOK, Critical
<1> QED BY <1>1, <1>2, OutsideKept

(* While somebody is inside, a tick takes as much from the key as it adds to *)
(* the owner's age, and never the last of it.                                *)
LEMMA TickKept == ASSUME MaxHold < LockTTL, LockInv, TypeOK', Tick PROVE LockInv'
<1> SUFFICES ASSUME Redis', NEW i \in Callers, pc'[i] \in Critical PROVE Owns(i)'
  BY DEF LockInv
<1>1. Owns(i) /\ pc[i] \in Critical /\ age[i] < MaxHold
  BY DEF Tick, LockInv, Redis
<1>2. lockLeft \in Nat /\ age[i] \in Nat /\ LockTTL \in Nat /\ MaxHold \in Nat
  BY NonceAssumption DEF LockInv, TypeOK
<1>3. lockLeft > 1
  BY <1>1, <1>2 DEF Owns
<1>4. lockLeft' = lockLeft - 1 /\ lockBy' = lockBy /\ age'[i] = age[i] + 1
  BY <1>1, <1>2, <1>3 DEF Tick, Expire
<1> QED BY <1>1, <1>2, <1>4 DEF Owns

LEMMA NextLock == ASSUME MaxHold < LockTTL, LockInv, [Next]_vars PROVE LockInv'
<1>1. TypeOK'
  BY NextTypes DEF LockInv
<1>2. CASE UNCHANGED vars
  BY <1>1, <1>2, OutsideKept DEF vars, lockVars
<1>3. ASSUME NEW i \in usage.callers,
             NextNonceLocal(i) \/ ReadCount(i) \/ NextNonceRedis(i) \/ Step(i) \/ CrashInstance(i)
      PROVE  LockInv'
  <2>1. i \in Callers
    BY CallersOfUsage DEF LockInv
  <2> QED BY <1>1, <1>3, <2>1, MemoryKept, CountArrivesKept, AcquireKept, AcquireFailsKept,
             ReleaseKept, InsideKept, UserKept DEF Step
<1>4. CASE CrashProcess
  BY <1>1, <1>4, MemoryKept
<1>5. CASE Tick
  BY <1>1, <1>5, TickKept
<1> QED BY <1>2, <1>3, <1>4, <1>5 DEF Next

LEMMA OwnersAreOne == LockInv => MutualExclusion
  BY DEF LockInv, Owns, MutualExclusion

(* One instance at a time between SET NX and DEL, whatever fails in between, *)
(* if no instance may stay there for the life of the lock.                   *)
THEOREM MutualExclusionTheorem == ASSUME MaxHold < LockTTL PROVE Spec => []MutualExclusion
<1>1. Init => LockInv
  BY InitLock
<1>2. LockInv /\ [Next]_vars => LockInv'
  BY NextLock
<1>3. LockInv => MutualExclusion
  BY OwnersAreOne
<1> QED BY <1>1, <1>2, <1>3, PTL DEF Spec

-----------------------------------------------------------------------------
(* Nonces.  Everything from here on is about sound uses. *)

(* The four kinds of sound use. *)
Shared == /\ Redis /\ ~usage.legs /\ ~usage.documented
          /\ usage.faults \subseteq {"unanswered", "stopped"}
Single == Redis /\ ~usage.legs /\ usage.documented /\ Alone /\ "lost" \notin usage.faults
Counter == /\ Memory /\ ~usage.legs /\ ~usage.documented /\ (Alone \/ usage.synced)
           /\ \/ usage.faults \subseteq {"refused", "unanswered"}
              \/ usage.faults \subseteq {"unanswered", "stopped"}
Released == Memory /\ ~usage.legs /\ usage.documented /\ Alone /\ "unanswered" \notin usage.faults

(* Only the callers of the use do anything. *)
Bystanders ==
    /\ \A i \in Callers : pc[i] # "idle" => i \in usage.callers
    /\ usage.callers = {} => used = {}

(* The used nonces are those below k, or below some nonce. *)
UsedBelow(k) == k \in Nat /\ \A n \in Nonces : n \in used <=> n < k
NoGap == \A n \in used, m \in Nonces : m < n => m \in used

-----------------------------------------------------------------------------
(* One caller in memory that releases what is refused: used nonces have no   *)
(* gap, and the counter or the nonce in hand is the next one.                *)
ReleasedInv ==
    \A i \in usage.callers :
        /\ pc[i] \in {"idle", "counting", "counted", "holding", "confirming", "failed"}
        /\ pc[i] = "counting" => localNonce = Unset /\ NoGap
        /\ pc[i] = "counted" => localNonce = Unset /\ UsedBelow(nonce[i])
        /\ pc[i] \in {"holding", "failed"} => localNonce = nonce[i] + 1 /\ UsedBelow(nonce[i])
        /\ pc[i] \in {"idle", "confirming"} =>
              (localNonce = Unset /\ NoGap) \/ (localNonce # Unset /\ UsedBelow(localNonce))

LEMMA BelowHasNoGap == ASSUME TypeOK, NEW k, UsedBelow(k) PROVE NoGap
  BY NonceAssumption DEF TypeOK, UsedBelow, NoGap, Nonces

LEMMA PendingIsBelow == ASSUME TypeOK, NoGap, NEW k \in PendingCounts PROVE UsedBelow(k)
  BY NonceAssumption DEF TypeOK, UsedBelow, NoGap, Nonces, PendingCounts

LEMMA ReleasedStep ==
  ASSUME TypeOK, TypeOK', Released, ReleasedInv, NEW i \in usage.callers,
         \/ NextNonceLocal(i) \/ ReadCount(i) \/ CountArrives(i) \/ Count(i)
         \/ CommandFails(i) \/ Send(i) \/ SendRefused(i)
         \/ ConfirmNonce(i) \/ GiveUp(i) \/ ReleaseNonce(i)
  PROVE  ReleasedInv'
<1>1. i \in Callers /\ usage.callers = {i} /\ usage' = usage
  BY CallersOfUsage DEF Released, Alone, NextNonceLocal, ReadCount, CountArrives, Count, CommandFails,
     Send, SendRefused, ConfirmNonce, GiveUp, ReleaseNonce, Take
<1>2. /\ nonce[i] \in Nonces /\ nonce[i] \in Int /\ MaxNonce \in Nat /\ pc[i] \in Pcs
      /\ used \subseteq Nonces /\ localNonce \in Int
  BY <1>1, NonceAssumption DEF TypeOK, Nonces, Unset
<1> USE DEF Released, ReleasedInv, Goto
<1>3. CASE NextNonceLocal(i)
  <2>1. localNonce # Unset /\ UsedBelow(localNonce)
    BY <1>1, <1>2, <1>3 DEF NextNonceLocal, Nonces, Unset
  <2>2. /\ pc' = [pc EXCEPT ![i] = "holding"] /\ nonce' = [nonce EXCEPT ![i] = localNonce]
        /\ localNonce' = localNonce + 1 /\ used' = used
    BY <1>3 DEF NextNonceLocal, Take
  <2> QED BY <1>1, <2>1, <2>2 DEF TypeOK, UsedBelow
<1>4. CASE ReadCount(i)
  <2>1. localNonce = Unset /\ NoGap
    BY <1>1, <1>4 DEF ReadCount, UsedBelow, Unset
  <2>2. pc' = [pc EXCEPT ![i] = "counting"] /\ localNonce' = localNonce /\ used' = used
    BY <1>4 DEF ReadCount
  <2> QED BY <1>1, <2>1, <2>2 DEF TypeOK, NoGap
<1>5. CASE CountArrives(i)
  <2>1. UsedBelow(nonce[i])
    BY <1>1, <1>5 DEF CountArrives
  <2>2. /\ pc' = [pc EXCEPT ![i] = "holding"] /\ nonce' = [nonce EXCEPT ![i] = nonce[i]]
        /\ localNonce' = nonce[i] + 1 /\ used' = used
    BY <1>5 DEF CountArrives, Take
  <2> QED BY <1>1, <2>1, <2>2 DEF TypeOK, UsedBelow
<1>6. CASE Count(i)
  <2>1. localNonce = Unset /\ NoGap
    BY <1>1, <1>6 DEF Count
  <2>2. PICK k \in PendingCounts : nonce' = [nonce EXCEPT ![i] = k]
    BY <1>6 DEF Count
  <2>3. pc' = [pc EXCEPT ![i] = "counted"] /\ localNonce' = localNonce /\ used' = used
    BY <1>6 DEF Count, Memory, Redis
  <2>4. UsedBelow(k)
    BY <2>1, <2>2, PendingIsBelow
  <2> QED BY <1>1, <2>1, <2>2, <2>3, <2>4 DEF TypeOK, UsedBelow
<1>7. CASE CommandFails(i)
  <2>1. localNonce = Unset /\ NoGap
    BY <1>1, <1>7 DEF CommandFails
  <2>2. pc' = [pc EXCEPT ![i] = "idle"] /\ localNonce' = localNonce /\ used' = used
    BY <1>7 DEF CommandFails, Memory, Redis
  <2> QED BY <1>1, <2>1, <2>2 DEF TypeOK, NoGap
<1>8. CASE Send(i)
  <2>1. localNonce = nonce[i] + 1 /\ UsedBelow(nonce[i])
    BY <1>1, <1>8 DEF Send
  <2>2. /\ pc' = [pc EXCEPT ![i] = "confirming"] /\ localNonce' = localNonce
        /\ used' = used \cup {nonce[i]}
    BY <1>8 DEF Send
  <2>3. UsedBelow(localNonce)' /\ localNonce' # Unset
    BY <1>2, <2>1, <2>2 DEF UsedBelow, Nonces, Unset
  <2> QED BY <1>1, <2>2, <2>3 DEF TypeOK
<1>9. CASE SendRefused(i)
  <2>1. localNonce = nonce[i] + 1 /\ UsedBelow(nonce[i])
    BY <1>1, <1>9 DEF SendRefused
  <2>2. pc' = [pc EXCEPT ![i] = "failed"] /\ UNCHANGED <<localNonce, used, nonce>>
    BY <1>1, <1>9 DEF SendRefused, SendFailed
  <2> QED BY <1>1, <2>1, <2>2 DEF TypeOK, UsedBelow
<1>10. CASE ConfirmNonce(i) \/ GiveUp(i)
  <2>1. (localNonce = Unset /\ NoGap) \/ (localNonce # Unset /\ UsedBelow(localNonce))
    BY <1>1, <1>10 DEF ConfirmNonce, GiveUp
  <2>2. pc' = [pc EXCEPT ![i] = "idle"] /\ localNonce' = localNonce /\ used' = used
    BY <1>10 DEF ConfirmNonce, GiveUp
  <2> QED BY <1>1, <2>1, <2>2 DEF TypeOK, UsedBelow, NoGap
<1>11. CASE ReleaseNonce(i)
  <2>1. localNonce = nonce[i] + 1 /\ UsedBelow(nonce[i])
    BY <1>1, <1>11 DEF ReleaseNonce
  <2>2. pc' = [pc EXCEPT ![i] = "idle"] /\ localNonce' = nonce[i] /\ used' = used
    BY <1>2, <1>11, <2>1 DEF ReleaseNonce, Unset, Nonces
  <2> QED BY <1>1, <1>2, <2>1, <2>2 DEF TypeOK, UsedBelow, Unset, Nonces
<1> QED BY <1>3, <1>4, <1>5, <1>6, <1>7, <1>8, <1>9, <1>10, <1>11

LEMMA ReleasedCrash ==
  ASSUME TypeOK, Released, ReleasedInv, Bystanders, CrashProcess PROVE ReleasedInv'
<1> SUFFICES ASSUME NEW i \in usage.callers
             PROVE  /\ pc'[i] = "idle"
                    /\ \/ localNonce' = Unset /\ NoGap'
                       \/ localNonce' # Unset /\ UsedBelow(localNonce)'
  BY DEF ReleasedInv, CrashProcess
<1>1. i \in Callers
  BY CallersOfUsage
<1>2. NoGap
  BY <1>1, BelowHasNoGap DEF ReleasedInv
<1>3. pc'[i] = "idle" /\ used' = used /\ (localNonce' = Unset \/ localNonce' \in PendingCounts)
  BY <1>1 DEF CrashProcess
<1>4. CASE localNonce' \in PendingCounts
  <2>1. UsedBelow(localNonce')
    BY <1>2, <1>4, PendingIsBelow
  <2> QED BY <1>3, <2>1 DEF UsedBelow, Unset
<1> QED BY <1>2, <1>3, <1>4 DEF NoGap

-----------------------------------------------------------------------------
(* Callers in memory that release nothing: the counter is above every nonce  *)
(* used or in hand, and if the node refuses nothing there is no gap below it,*)
(* so that a process that stops between two nonces counts the same again.    *)
InHands(n) == \E i \in Callers : Holding(i) /\ nonce[i] = n

CounterInv ==
    /\ \A i \in Callers :
          /\ pc[i] \in {"idle", "counting", "counted", "holding"}
          /\ pc[i] \in {"counting", "counted"} => localNonce = Unset
          /\ pc[i] = "counted" => UsedBelow(nonce[i])
          /\ Holding(i) => localNonce # Unset /\ nonce[i] < localNonce /\ NonceUnique(i)
    /\ localNonce = Unset => Alone /\ NoGap
    /\ localNonce # Unset => \A n \in used : n < localNonce
    /\ localNonce # Unset /\ "refused" \notin usage.faults =>
          \A n \in Nonces : n < localNonce => n \in used \/ InHands(n)

(* The step that puts a nonce into the hands of caller i. *)
LEMMA TakeCounter ==
  ASSUME TypeOK, CounterInv, NEW i \in Callers, NEW n \in Nonces, Take(i, n), TypeOK',
         \A j \in Callers \ {i} : pc[j] \notin {"counting", "counted"},
         \A j \in Callers : Holding(j) => j # i /\ nonce[j] < n,
         \A m \in used : m < n,
         "refused" \notin usage.faults => \A m \in Nonces : m < n => m \in used \/ InHands(m)
  PROVE  CounterInv'
<1>1. /\ pc' = [pc EXCEPT ![i] = "holding"] /\ nonce' = [nonce EXCEPT ![i] = n]
      /\ localNonce' = n + 1 /\ used' = used /\ usage' = usage
  BY DEF Take, Goto
<1>2. n \in Int /\ n >= 0 /\ \A m \in Nonces : m \in Int
  BY NonceAssumption DEF Nonces
<1>3. localNonce' # Unset /\ pc'[i] = "holding" /\ nonce'[i] = n
  BY <1>1, <1>2 DEF Unset, TypeOK
<1>4. \A j \in Callers \ {i} : pc'[j] = pc[j] /\ nonce'[j] = nonce[j] /\ nonce[j] \in Nonces
  BY <1>1 DEF TypeOK
<1>5. \A j \in Callers : Holding(j)' => nonce'[j] < localNonce' /\ NonceUnique(j)'
  <2> SUFFICES ASSUME NEW j \in Callers, Holding(j)' PROVE nonce'[j] < localNonce' /\ NonceUnique(j)'
    OBVIOUS
  <2>1. CASE j = i
    <3>1. n \notin used
      BY <1>2
    <3>2. \A k \in Callers \ {i} : Holding(k)' => nonce'[k] # n
      BY <1>2, <1>4 DEF Holding
    <3> QED BY <1>1, <1>2, <1>3, <2>1, <3>1, <3>2 DEF NonceUnique
  <2>2. CASE j # i
    <3>1. Holding(j) /\ nonce[j] < n /\ NonceUnique(j) /\ nonce'[j] = nonce[j]
      BY <1>4, <2>2 DEF Holding, CounterInv
    <3>2. \A k \in Callers \ {j} : Holding(k)' => nonce'[k] # nonce'[j]
      BY <1>2, <1>3, <1>4, <2>2, <3>1 DEF Holding, NonceUnique
    <3> QED BY <1>1, <1>2, <1>4, <2>2, <3>1, <3>2 DEF NonceUnique
  <2> QED BY <2>1, <2>2
<1>6. \A j \in Callers :
         /\ pc'[j] \in {"idle", "counting", "counted", "holding"}
         /\ pc'[j] \notin {"counting", "counted"}
  BY <1>3, <1>4 DEF CounterInv
<1>7. ASSUME NEW m \in used' PROVE m < localNonce'
  <2>1. m \in used /\ m \in Int /\ m < n
    BY <1>1, <1>2 DEF TypeOK
  <2> QED BY <1>1, <1>2, <2>1
<1>8. "refused" \notin usage.faults' => \A m \in Nonces : m < localNonce' => m \in used' \/ InHands(m)'
  <2> SUFFICES ASSUME "refused" \notin usage.faults, NEW m \in Nonces, m < n + 1
               PROVE  m \in used \/ InHands(m)'
    BY <1>1
  <2>1. CASE m = n
    BY <1>3, <2>1 DEF InHands, Holding
  <2>2. CASE m # n
    <3>1. m \in used \/ InHands(m)
      BY <1>2, <2>2
    <3>2. ASSUME NEW j \in Callers, Holding(j), nonce[j] = m PROVE InHands(m)'
      BY <1>4, <3>2 DEF InHands, Holding
    <3> QED BY <3>1, <3>2 DEF InHands
  <2> QED BY <2>1, <2>2
<1> QED BY <1>3, <1>5, <1>6, <1>7, <1>8 DEF CounterInv

(* A step with which no caller gets a nonce, and the counter stays. *)
LEMMA QuietCounter ==
  ASSUME TypeOK, TypeOK', CounterInv, NEW i \in Callers,
         UNCHANGED <<usage, localNonce>>, NEW s \in {"idle", "counting", "counted"},
         pc' = [pc EXCEPT ![i] = s], \A j \in Callers \ {i} : nonce'[j] = nonce[j],
         s \in {"counting", "counted"} => localNonce = Unset,
         s = "counted" => UsedBelow(nonce'[i]),
         \/ used' = used /\ (Holding(i) => "refused" \in usage.faults)
         \/ Holding(i) /\ used' = used \cup {nonce[i]}
  PROVE  CounterInv'
<1>1. pc'[i] = s /\ \A j \in Callers \ {i} : pc'[j] = pc[j] /\ nonce'[j] = nonce[j]
  BY DEF TypeOK
<1>2. \A j \in Callers : Holding(j)' => j # i /\ Holding(j)
  BY <1>1 DEF Holding
<1>3. localNonce = Unset => used' = used
  BY DEF CounterInv
<1>4. \A j \in Callers :
         /\ pc'[j] \in {"idle", "counting", "counted", "holding"}
         /\ pc'[j] \in {"counting", "counted"} => localNonce' = Unset
         /\ pc'[j] = "counted" => UsedBelow(nonce[j])'
  BY <1>1, <1>3 DEF CounterInv, UsedBelow
<1>5. ASSUME NEW j \in Callers, Holding(j)'
      PROVE  localNonce' # Unset /\ nonce'[j] < localNonce' /\ NonceUnique(j)'
  <2>1. j # i /\ Holding(j) /\ NonceUnique(j) /\ nonce[j] < localNonce /\ localNonce # Unset
    BY <1>2, <1>5 DEF CounterInv
  <2>2. Holding(i) => nonce[j] # nonce[i]
    BY <2>1 DEF NonceUnique
  <2>3. nonce'[j] \notin used'
    BY <1>1, <2>1, <2>2 DEF NonceUnique
  <2>4. \A k \in Callers \ {j} : Holding(k)' => nonce'[k] # nonce'[j]
    BY <1>1, <1>2, <2>1 DEF NonceUnique
  <2> QED BY <1>1, <2>1, <2>3, <2>4 DEF NonceUnique
<1>6. localNonce' = Unset => Alone' /\ NoGap'
  BY <1>3 DEF CounterInv, Alone, NoGap
<1>7. localNonce' # Unset => \A n \in used' : n < localNonce'
  BY DEF CounterInv
<1>8. ASSUME localNonce' # Unset, "refused" \notin usage.faults', NEW n \in Nonces, n < localNonce'
      PROVE  n \in used' \/ InHands(n)'
  <2>1. n \in used \/ InHands(n)
    BY <1>8 DEF CounterInv
  <2>2. ASSUME NEW j \in Callers, Holding(j), nonce[j] = n PROVE n \in used' \/ InHands(n)'
    <3>1. CASE j = i
      BY <1>8, <2>2, <3>1
    <3>2. CASE j # i
      BY <1>1, <2>2, <3>2 DEF InHands, Holding
    <3> QED BY <3>1, <3>2
  <2> QED BY <2>1, <2>2 DEF InHands
<1> QED BY <1>4, <1>5, <1>6, <1>7, <1>8 DEF CounterInv

LEMMA CounterStep ==
  ASSUME TypeOK, TypeOK', Counter, CounterInv, Bystanders, NEW i \in usage.callers,
         \/ NextNonceLocal(i) \/ ReadCount(i) \/ CountArrives(i) \/ Count(i)
         \/ CommandFails(i) \/ Send(i) \/ SendRefused(i) \/ SendUnanswered(i)
  PROVE  CounterInv'
<1>1. i \in Callers /\ ~Redis
  BY CallersOfUsage DEF Counter, Memory, Redis
<1>2. /\ \A n \in Nonces : n \in Int
      /\ \A j \in Callers : nonce[j] \in Nonces
  BY NonceAssumption DEF TypeOK, Nonces
<1>3. Alone => \A j \in Callers \ {i} : pc[j] = "idle"
  BY DEF Alone, Bystanders
<1> USE DEF Counter
<1>4. CASE NextNonceLocal(i)
  <2>1. Take(i, localNonce) /\ localNonce \in Nonces /\ localNonce # Unset /\ pc[i] = "idle"
    BY <1>4, <1>2 DEF NextNonceLocal, Unset, Nonces
  <2>2. \A j \in Callers \ {i} : pc[j] \notin {"counting", "counted"}
    BY <2>1 DEF CounterInv
  <2>3. \A j \in Callers : Holding(j) => j # i /\ nonce[j] < localNonce
    BY <2>1 DEF CounterInv, Holding
  <2>4. \A m \in used : m < localNonce
    BY <2>1 DEF CounterInv
  <2>5. "refused" \notin usage.faults =>
           \A m \in Nonces : m < localNonce => m \in used \/ InHands(m)
    BY <2>1 DEF CounterInv
  <2> QED BY <1>1, <2>1, <2>2, <2>3, <2>4, <2>5, TakeCounter
<1>5. CASE CountArrives(i)
  <2>1. /\ Take(i, nonce[i]) /\ pc[i] = "counted" /\ localNonce = Unset
        /\ UsedBelow(nonce[i]) /\ Alone /\ nonce[i] \in Nonces
    BY <1>1, <1>2, <1>5 DEF CountArrives, CounterInv
  <2>2. \A j \in Callers \ {i} : pc[j] \notin {"counting", "counted"}
    BY <1>3, <2>1
  <2>3. \A j \in Callers : Holding(j) => j # i /\ nonce[j] < nonce[i]
    BY <2>1 DEF CounterInv
  <2>4. \A m \in used : m < nonce[i]
    BY <2>1 DEF UsedBelow, TypeOK
  <2>5. \A m \in Nonces : m < nonce[i] => m \in used \/ InHands(m)
    BY <2>1 DEF UsedBelow
  <2> QED BY <1>1, <2>1, <2>2, <2>3, <2>4, <2>5, TakeCounter
<1>6. CASE ReadCount(i)
  <2>1. /\ pc' = [pc EXCEPT ![i] = "counting"] /\ UNCHANGED <<usage, localNonce, used, nonce>>
        /\ localNonce = Unset /\ ~Holding(i)
    BY <1>6 DEF ReadCount, Goto, Holding
  <2> QED BY <1>1, <2>1, QuietCounter
<1>7. CASE Count(i)
  <2>1. PICK k \in PendingCounts : nonce' = [nonce EXCEPT ![i] = k]
    BY <1>7 DEF Count
  <2>2. /\ pc' = [pc EXCEPT ![i] = "counted"] /\ UNCHANGED <<usage, localNonce, used>>
        /\ pc[i] = "counting" /\ ~Holding(i)
    BY <1>1, <1>7 DEF Count, Goto, Holding
  <2>3. localNonce = Unset /\ NoGap
    BY <1>1, <2>2 DEF CounterInv
  <2>4. UsedBelow(nonce'[i])
    BY <1>1, <2>1, <2>3, PendingIsBelow DEF TypeOK
  <2>5. \A j \in Callers \ {i} : nonce'[j] = nonce[j]
    BY <2>1 DEF TypeOK
  <2> QED BY <1>1, <2>2, <2>3, <2>4, <2>5, QuietCounter
<1>8. CASE CommandFails(i)
  <2>1. /\ pc' = [pc EXCEPT ![i] = "idle"] /\ UNCHANGED <<usage, localNonce, used, nonce>>
        /\ ~Holding(i)
    BY <1>1, <1>8 DEF CommandFails, Goto, Holding
  <2> QED BY <1>1, <2>1, QuietCounter
<1>9. CASE Send(i) \/ SendUnanswered(i)
  <2>1. /\ pc' = [pc EXCEPT ![i] = "idle"] /\ UNCHANGED <<usage, localNonce, nonce>>
        /\ Holding(i) /\ used' = used \cup {nonce[i]}
    BY <1>9 DEF Send, SendUnanswered, SendFailed, Goto, Holding
  <2> QED BY <1>1, <2>1, QuietCounter
<1>10. CASE SendRefused(i)
  <2>1. Holding(i) /\ nonce[i] \notin used
    BY <1>1, <1>10 DEF SendRefused, CounterInv, Holding, NonceUnique
  <2>2. /\ pc' = [pc EXCEPT ![i] = "idle"] /\ UNCHANGED <<usage, localNonce, used, nonce>>
        /\ "refused" \in usage.faults
    BY <1>10, <2>1 DEF SendRefused, SendFailed, Goto, Holding
  <2> QED BY <1>1, <2>1, <2>2, QuietCounter
<1> QED BY <1>4, <1>5, <1>6, <1>7, <1>8, <1>9, <1>10

LEMMA CounterCrash ==
  ASSUME TypeOK, TypeOK', Counter, CounterInv, Bystanders, CrashProcess PROVE CounterInv'
<1>1. \A i \in Callers : ~Holding(i) /\ pc'[i] = "idle"
  <2> SUFFICES ASSUME NEW i \in Callers, Holding(i) PROVE FALSE
    BY DEF CrashProcess
  <2>1. i \in usage.callers /\ MayStop(i)
    BY DEF Bystanders, CrashProcess, Holding
  <2> QED BY <2>1 DEF MayStop, Holding, InHand, Counter
<1>2. usage' = usage /\ used' = used
  BY DEF CrashProcess
<1>3. usage.callers = {} \/ "refused" \notin usage.faults
  BY DEF CrashProcess, MayStop, Counter
<1>4. NoGap
  <2>1. CASE usage.callers = {}
    BY <2>1 DEF Bystanders, NoGap
  <2>2. CASE localNonce = Unset
    BY <2>2 DEF CounterInv
  <2>3. CASE "refused" \notin usage.faults /\ localNonce # Unset
    <3> SUFFICES ASSUME NEW n \in used, NEW m \in Nonces, m < n PROVE m \in used
      BY DEF NoGap
    <3>1. n < localNonce
      BY <2>3 DEF CounterInv
    <3>2. m < localNonce
      BY <3>1, NonceAssumption DEF TypeOK, Nonces, Unset
    <3> QED BY <1>1, <2>3, <3>2 DEF CounterInv, InHands
  <2> QED BY <1>3, <2>1, <2>2, <2>3
<1>5. CASE ~usage.synced
  <2>1. localNonce' = Unset /\ Alone'
    BY <1>2, <1>5 DEF CrashProcess, Counter, Alone
  <2>2. NoGap'
    BY <1>2, <1>4 DEF NoGap
  <2> QED BY <1>1, <2>1, <2>2 DEF CounterInv, Holding
<1>6. CASE usage.synced
  <2>1. localNonce' \in PendingCounts
    BY <1>6 DEF CrashProcess
  <2>2. UsedBelow(localNonce')
    BY <1>4, <2>1, PendingIsBelow
  <2>3. localNonce' # Unset /\ \A n \in Nonces : n \in used' <=> n < localNonce'
    BY <1>2, <2>2 DEF UsedBelow, Unset
  <2>4. \A n \in used' : n < localNonce'
    BY <2>3 DEF TypeOK
  <2> QED BY <1>1, <2>3, <2>4 DEF CounterInv, Holding
<1> QED BY <1>5, <1>6

-----------------------------------------------------------------------------
(* One bot on Redis that confirms and releases as documented: what is        *)
(* reserved is used or in its hands, and used nonces have no gap.            *)
SingleInv ==
    \A i \in usage.callers :
        /\ pc[i] \notin {"counted", "second"}
        /\ NoGap
        /\ pc[i] \in {"probing", "reserving", "releasing", "holding"} => UsedBelow(nonce[i])
        /\ \A n \in Nonces : reserved[n] > 0 =>
              \/ n \in used
              \/ n = nonce[i] /\ pc[i] \in {"releasing", "holding", "failed"}

LEMMA SingleStep ==
  ASSUME TypeOK, TypeOK', Single, SingleInv, NEW i \in usage.callers,
         \/ NextNonceRedis(i) \/ Acquire(i) \/ AcquireFails(i) \/ Count(i)
         \/ ProbeTaken(i) \/ ProbeFree(i) \/ Reserve(i) \/ CommandFails(i)
         \/ Release(i) \/ ReleaseFails(i) \/ Send(i) \/ SendRefused(i) \/ SendUnanswered(i)
         \/ ConfirmNonce(i) \/ GiveUp(i) \/ ReleaseNonce(i) \/ CrashInstance(i)
  PROVE  SingleInv'
<1>1. i \in Callers /\ usage.callers = {i} /\ usage' = usage
  BY CallersOfUsage DEF Single, Alone, NextNonceRedis, Acquire, AcquireFails, Count, ProbeTaken,
     ProbeFree, Reserve, CommandFails, Release, ReleaseFails, AfterRelease, Send, SendRefused,
     SendUnanswered, ConfirmNonce, GiveUp, ReleaseNonce, CrashInstance
<1>2. /\ nonce[i] \in Nonces /\ \A n \in Nonces : n \in Int /\ n >= 0
      /\ used \subseteq Nonces
      /\ \A n \in Nonces : reserved[n] \in Int
  BY <1>1, NonceAssumption DEF TypeOK, Nonces
<1> USE DEF Single, SingleInv, Goto
<1>3. CASE NextNonceRedis(i) \/ Acquire(i) \/ AcquireFails(i) \/ ProbeFree(i)
           \/ Release(i) \/ ReleaseFails(i) \/ GiveUp(i)
  <2>1. /\ UNCHANGED <<used, nonce, reserved>>
        /\ pc'[i] \in {"probing", "reserving", "releasing", "holding"} => pc[i] \in {"probing", "releasing"}
        /\ pc[i] \in {"releasing", "holding", "failed"} => pc'[i] \in {"releasing", "holding", "failed"}
        /\ pc'[i] \notin {"counted", "second"}
    BY <1>1, <1>3 DEF NextNonceRedis, Acquire, AcquireFails, ProbeFree, Release, ReleaseFails,
       AfterRelease, GiveUp, TypeOK
  <2> QED BY <1>1, <2>1 DEF UsedBelow, NoGap
<1>4. CASE Count(i)
  <2>1. PICK k \in PendingCounts : nonce' = [nonce EXCEPT ![i] = k]
    BY <1>4 DEF Count
  <2>2. /\ UNCHANGED <<used, reserved>> /\ pc' = [pc EXCEPT ![i] = "probing"] /\ pc[i] = "counting"
    BY <1>4 DEF Count
  <2>3. UsedBelow(k) /\ nonce'[i] = k
    BY <1>1, <2>1, PendingIsBelow DEF TypeOK
  <2> QED BY <1>1, <2>2, <2>3 DEF TypeOK, UsedBelow, NoGap
<1>5. ~ProbeTaken(i)
  BY <1>1, <1>2 DEF ProbeTaken, UsedBelow
<1>6. CASE Reserve(i)
  <2>1. /\ UNCHANGED <<used, nonce>> /\ pc' = [pc EXCEPT ![i] = "releasing"] /\ pc[i] = "reserving"
        /\ reserved' = [reserved EXCEPT ![nonce[i]] = ReserveTTL]
    BY <1>6 DEF Reserve
  <2> QED BY <1>1, <1>2, <2>1 DEF TypeOK, UsedBelow, NoGap
<1>7. CASE CommandFails(i) \/ CrashInstance(i)
  <2>1. /\ UNCHANGED <<used, nonce, reserved>> /\ pc'[i] \in {"failing", "idle"}
        /\ pc[i] \notin {"releasing", "holding", "failed"}
    BY <1>1, <1>7 DEF CommandFails, CrashInstance, MayStop, InHand, TypeOK
  <2> QED BY <1>1, <2>1 DEF NoGap
<1>8. CASE Send(i) \/ SendUnanswered(i)
  <2>1. /\ UNCHANGED <<nonce, reserved>> /\ pc'[i] \in {"confirming", "failed"} /\ pc[i] = "holding"
        /\ used' = used \cup {nonce[i]}
    BY <1>1, <1>8 DEF Send, SendUnanswered, SendFailed, TypeOK
  <2>2. UsedBelow(nonce[i])
    BY <1>1, <2>1
  <2>3. NoGap'
    BY <1>2, <2>1, <2>2 DEF UsedBelow, NoGap
  <2> QED BY <1>1, <2>1, <2>3
<1>9. CASE SendRefused(i)
  <2>1. /\ UNCHANGED <<used, nonce, reserved>> /\ pc'[i] = "failed" /\ pc[i] = "holding"
    BY <1>1, <1>9 DEF SendRefused, SendFailed, TypeOK
  <2> QED BY <1>1, <2>1 DEF NoGap
<1>10. CASE ConfirmNonce(i)
  <2>1. /\ UNCHANGED <<used, nonce>> /\ pc'[i] = "idle" /\ pc[i] = "confirming"
        /\ \A n \in Nonces : reserved'[n] > 0 => reserved[n] > 0
    BY <1>1, <1>2, <1>10 DEF ConfirmNonce, Forget, TypeOK
  <2> QED BY <1>1, <2>1 DEF NoGap
<1>11. CASE ReleaseNonce(i)
  <2>1. /\ UNCHANGED <<used, nonce>> /\ pc'[i] = "idle"
        /\ \A n \in Nonces : reserved'[n] > 0 => reserved[n] > 0 /\ n # nonce[i]
    BY <1>1, <1>2, <1>11 DEF ReleaseNonce, Forget, TypeOK
  <2> QED BY <1>1, <2>1 DEF NoGap
<1> QED BY <1>3, <1>4, <1>5, <1>6, <1>7, <1>8, <1>9, <1>10, <1>11

LEMMA SingleTick == ASSUME TypeOK, SingleInv, Tick PROVE SingleInv'
<1>1. UNCHANGED <<usage, used, nonce, pc>>
  BY DEF Tick
<1>2. \A n \in Nonces : reserved'[n] > 0 => reserved[n] > 0
  BY DEF Tick, Expire, TypeOK
<1> QED BY <1>1, <1>2 DEF SingleInv, NoGap, UsedBelow
-----------------------------------------------------------------------------
(* Bots that share Redis and use it as the executor does.  The nonces taken, *)
(* used or in hand, have no gap; reservations of what is taken later live    *)
(* longer; and one that lives while its nonce may be counted again outlives  *)
(* the section that counts it.                                               *)
Got(i) == pc[i] \in {"releasing", "holding"}
Taken(n) == n \in used \/ \E i \in Callers : Got(i) /\ nonce[i] = n

OwnOnly(i) == Got(i) =>
    /\ nonce[i] \notin used
    /\ \A j \in Callers \ {i} : Got(j) => nonce[j] # nonce[i]

InTime(i) ==
    /\ pc[i] = "releasing" => reserved[nonce[i]] + age[i] >= ReserveTTL
    /\ Holding(i) => reserved[nonce[i]] + MaxHold + age[i] >= ReserveTTL /\ age[i] <= MaxSend

Later(i) == Got(i) =>
    \A n \in Nonces : Taken(n) /\ nonce[i] < n => reserved[nonce[i]] <= reserved[n]

Counted(i) == pc[i] \in {"probing", "reserving"} =>
    /\ \A n \in Nonces : n < nonce[i] => Taken(n)
    /\ \A n \in used : nonce[i] <= n => MaxHold < reserved[n] + age[i]
    /\ pc[i] = "reserving" => ~Taken(nonce[i])

SharedPcs == {"idle", "locking", "counting", "probing", "reserving", "releasing", "failing", "holding"}

SharedInv ==
    /\ \A i \in Callers : pc[i] \in SharedPcs /\ OwnOnly(i) /\ InTime(i) /\ Later(i) /\ Counted(i)
    /\ \A n, m \in Nonces : m < n /\ Taken(n) => Taken(m)
    /\ \A n \in Nonces : reserved[n] > 0 => Taken(n)

LEMMA SharedNumbers ==
  ASSUME TypeOK
  PROVE  /\ MaxNonce \in Nat /\ MaxHold \in Nat /\ MaxSend \in Nat /\ ReserveTTL \in Nat
         /\ \A n \in Nonces : n \in Int /\ 0 <= n /\ n <= MaxNonce
         /\ \A n \in Nonces : reserved[n] \in Nat /\ reserved[n] <= ReserveTTL
         /\ \A i \in Callers : age[i] \in Nat /\ nonce[i] \in Nonces
         /\ used \subseteq Nonces
  BY NonceAssumption DEF TypeOK, Nonces

(* Whoever counts is alone in the section, so that the others hold theirs.   *)
LEMMA OthersHold ==
  ASSUME LockInv, Redis, NEW i \in Callers, pc[i] \in Critical, NEW j \in Callers, Got(j), i # j
  PROVE  Holding(j)
  BY OwnersAreOne DEF MutualExclusion, Got, Holding, Critical

(* A nonce in hand outside the section is reserved for longer than it takes  *)
(* to send it and then to count.                                             *)
LEMMA HeldIsReserved ==
  ASSUME ReserveTTL > 2 * MaxHold + MaxSend, TypeOK, SharedInv, NEW i \in Callers, Holding(i)
  PROVE  reserved[nonce[i]] > MaxHold
  BY SharedNumbers DEF SharedInv, InTime

(* A step of one caller with nothing in hand before or after, that neither   *)
(* moves its candidate nor brings it to one.                                 *)
LEMMA SharedQuiet ==
  ASSUME TypeOK, SharedInv, NEW i \in Callers, NEW s \in SharedPcs,
         UNCHANGED <<reserved, used, nonce>>, pc' = [pc EXCEPT ![i] = s],
         \A j \in Callers \ {i} : age'[j] = age[j],
         ~Got(i), s \notin {"releasing", "holding", "probing", "reserving"}
  PROVE  SharedInv'
<1>1. pc'[i] = s /\ \A j \in Callers \ {i} : pc'[j] = pc[j]
  BY DEF TypeOK
<1>2. ~Got(i)' /\ \A j \in Callers \ {i} : Got(j)' <=> Got(j)
  BY <1>1 DEF Got
<1>3. \A n : Taken(n)' <=> Taken(n)
  BY <1>2 DEF Taken
<1>4. ASSUME NEW j \in Callers
      PROVE  pc'[j] \in SharedPcs /\ OwnOnly(j)' /\ InTime(j)' /\ Later(j)' /\ Counted(j)'
  <2>1. CASE j = i
    BY <1>1, <1>2, <2>1 DEF OwnOnly, InTime, Holding, Later, Counted
  <2>2. CASE j # i
    <3>1. pc[j] \in SharedPcs /\ OwnOnly(j) /\ InTime(j) /\ Later(j) /\ Counted(j)
      BY DEF SharedInv
    <3> QED BY <1>1, <1>2, <1>3, <2>2, <3>1 DEF OwnOnly, InTime, Holding, Later, Counted
  <2> QED BY <2>1, <2>2
<1> QED BY <1>3, <1>4 DEF SharedInv

(* The caller's own candidate changes, and nothing that the others have.     *)
LEMMA SharedCandidate ==
  ASSUME TypeOK, TypeOK', SharedInv, NEW i \in Callers, NEW s \in {"probing", "reserving"},
         UNCHANGED <<reserved, used, age>>, pc' = [pc EXCEPT ![i] = s],
         \A j \in Callers \ {i} : nonce'[j] = nonce[j],
         ~Got(i), (\A n : Taken(n)' <=> Taken(n)) => Counted(i)'
  PROVE  SharedInv'
<1>1. pc'[i] = s /\ \A j \in Callers \ {i} : pc'[j] = pc[j]
  BY DEF TypeOK
<1>2. ~Got(i)' /\ \A j \in Callers \ {i} : Got(j)' <=> Got(j)
  BY <1>1 DEF Got
<1>3. \A n : Taken(n)' <=> Taken(n)
  BY <1>2 DEF Taken
<1>4. ASSUME NEW j \in Callers
      PROVE  pc'[j] \in SharedPcs /\ OwnOnly(j)' /\ InTime(j)' /\ Later(j)' /\ Counted(j)'
  <2>1. CASE j = i
    BY <1>1, <1>2, <1>3, <2>1 DEF OwnOnly, InTime, Holding, Later, SharedPcs
  <2>2. CASE j # i
    <3>1. pc[j] \in SharedPcs /\ OwnOnly(j) /\ InTime(j) /\ Later(j) /\ Counted(j)
      BY DEF SharedInv
    <3> QED BY <1>1, <1>2, <1>3, <2>2, <3>1 DEF OwnOnly, InTime, Holding, Later, Counted
  <2> QED BY <2>1, <2>2
<1> QED BY <1>3, <1>4 DEF SharedInv

(* What is counted is below a gap only if the nonce at the gap is in hand,   *)
(* reserved for long enough, and what is used above it for longer.           *)
LEMMA SharedCount ==
  ASSUME ReserveTTL > 2 * MaxHold + MaxSend, LockInv, TypeOK', Shared, SharedInv,
         NEW i \in Callers, Count(i)
  PROVE  SharedInv'
<1>0. TypeOK
  BY DEF LockInv
<1>1. PICK k \in PendingCounts : nonce' = [nonce EXCEPT ![i] = k]
  BY DEF Count
<1>2. /\ UNCHANGED <<reserved, used, age>> /\ pc' = [pc EXCEPT ![i] = "probing"]
      /\ pc[i] = "counting" /\ ~Got(i)
  BY DEF Count, Goto, Shared, Got
<1>3. /\ k \in Nonces /\ k \notin used /\ \A n \in Nonces : n < k => n \in used
      /\ nonce'[i] = k /\ \A j \in Callers \ {i} : nonce'[j] = nonce[j]
      /\ pc'[i] = "probing"
  BY <1>0, <1>1, <1>2 DEF PendingCounts, TypeOK
<1>4. ASSUME NEW n \in used, k <= n PROVE MaxHold < reserved[n]
  <2>1. n \in Nonces /\ k < n
    BY <1>0, <1>3, <1>4, SharedNumbers
  <2>2. Taken(k)
    BY <1>3, <2>1 DEF SharedInv, Taken
  <2>3. PICK j \in Callers : Got(j) /\ nonce[j] = k
    BY <1>3, <2>2 DEF Taken
  <2>4. Holding(j)
    BY <1>2, <2>3, OthersHold DEF Shared, Critical
  <2>5. reserved[k] > MaxHold
    BY <1>0, <2>3, <2>4, HeldIsReserved
  <2>6. reserved[k] <= reserved[n]
    BY <2>1, <2>3 DEF SharedInv, Later, Taken
  <2> QED BY <1>0, <1>3, <2>1, <2>5, <2>6, SharedNumbers
<1>5. ASSUME \A n : Taken(n)' <=> Taken(n) PROVE Counted(i)'
  <2>1. \A n \in Nonces : n < k => Taken(n)'
    BY <1>3, <1>5 DEF Taken
  <2>2. \A n \in used : k <= n => MaxHold < reserved[n] + age[i]
    BY <1>0, <1>4, SharedNumbers
  <2> QED BY <1>2, <1>3, <2>1, <2>2 DEF Counted
<1> QED BY <1>0, <1>2, <1>3, <1>5, SharedCandidate

LEMMA SharedProbe ==
  ASSUME ReserveTTL > 2 * MaxHold + MaxSend, LockInv, TypeOK', Shared, SharedInv,
         NEW i \in Callers, ProbeTaken(i) \/ ProbeFree(i)
  PROVE  SharedInv'
<1>0. TypeOK
  BY DEF LockInv
<1>1. /\ UNCHANGED <<reserved, used, age>> /\ pc[i] = "probing" /\ ~Got(i)
      /\ nonce[i] \in Nonces
  BY <1>0, SharedNumbers DEF ProbeTaken, ProbeFree, Got
<1>2. /\ \A n \in Nonces : n < nonce[i] => Taken(n)
      /\ \A n \in used : nonce[i] <= n => MaxHold < reserved[n] + age[i]
  BY <1>1 DEF SharedInv, Counted
<1>3. CASE ProbeTaken(i)
  <2>1. Taken(nonce[i])
    BY <1>1, <1>3 DEF ProbeTaken, SharedInv
  <2>2. /\ nonce'[i] = nonce[i] + 1 /\ \A j \in Callers \ {i} : nonce'[j] = nonce[j]
        /\ pc' = [pc EXCEPT ![i] = "probing"] /\ pc'[i] = "probing"
    BY <1>0, <1>3 DEF ProbeTaken, TypeOK
  <2>3. \A n \in Nonces : n < nonce'[i] => Taken(n)
    BY <1>0, <1>1, <1>2, <2>1, <2>2, SharedNumbers
  <2>4. \A n \in used : nonce'[i] <= n => MaxHold < reserved[n] + age[i]
    BY <1>0, <1>1, <1>2, <2>2, SharedNumbers
  <2>5. (\A n : Taken(n)' <=> Taken(n)) => Counted(i)'
    BY <1>1, <2>2, <2>3, <2>4 DEF Counted
  <2> QED BY <1>0, <1>1, <2>2, <2>5, SharedCandidate
<1>4. CASE ProbeFree(i)
  <2>1. /\ nonce' = nonce /\ pc' = [pc EXCEPT ![i] = "reserving"] /\ reserved[nonce[i]] = 0
    BY <1>4 DEF ProbeFree, Goto
  <2>2. nonce[i] \notin used
    <3>1. Owns(i)
      BY <1>1 DEF LockInv, Shared, Critical
    <3> QED BY <1>0, <1>1, <1>2, <2>1, <3>1, SharedNumbers DEF Owns
  <2>3. ASSUME NEW j \in Callers, Got(j), nonce[j] = nonce[i] PROVE FALSE
    <3>1. Holding(j)
      BY <1>1, <2>3, OthersHold DEF Shared, Critical
    <3> QED BY <1>0, <2>1, <2>3, <3>1, HeldIsReserved, SharedNumbers
  <2>4. ~Taken(nonce[i])
    BY <2>2, <2>3 DEF Taken
  <2>5. (\A n : Taken(n)' <=> Taken(n)) => Counted(i)'
    BY <1>1, <1>2, <2>1, <2>4 DEF Counted
  <2> QED BY <1>0, <1>1, <2>1, <2>5, SharedCandidate
<1> QED BY <1>3, <1>4

(* The nonce reserved is the first that is not taken, and its reservation is *)
(* the youngest.                                                             *)
LEMMA SharedReserve ==
  ASSUME LockInv, TypeOK', Shared, SharedInv, NEW i \in Callers, Reserve(i)
  PROVE  SharedInv'
<1> DEFINE c == nonce[i]
<1>0. TypeOK
  BY DEF LockInv
<1>1. /\ UNCHANGED <<used, age, nonce>> /\ pc[i] = "reserving" /\ ~Got(i)
      /\ pc'[i] = "releasing" /\ \A j \in Callers \ {i} : pc'[j] = pc[j]
      /\ reserved'[c] = ReserveTTL /\ \A n \in Nonces \ {c} : reserved'[n] = reserved[n]
      /\ c \in Nonces
  BY <1>0, SharedNumbers DEF Reserve, Goto, Got, TypeOK
<1>2. ~Taken(c) /\ \A n \in Nonces : n < c => Taken(n)
  BY <1>1 DEF SharedInv, Counted
<1>3. Got(i)' /\ \A j \in Callers \ {i} : Got(j)' <=> Got(j)
  BY <1>1 DEF Got
<1>4. \A n : Taken(n)' <=> Taken(n) \/ n = c
  BY <1>1, <1>3 DEF Taken
<1>5. \A n \in Nonces : Taken(n) => n < c
  BY <1>0, <1>1, <1>2, SharedNumbers DEF SharedInv
<1>6. \A j \in Callers \ {i} : Got(j) => Holding(j) /\ nonce[j] # c /\ nonce[j] \in Nonces
  BY <1>0, <1>1, <1>2, OthersHold, SharedNumbers DEF Shared, Critical, Taken
<1>7. \A j \in Callers \ {i} : pc[j] \notin {"probing", "reserving", "releasing"}
  BY <1>1, OwnersAreOne DEF MutualExclusion, Critical, Shared
<1>8. ASSUME NEW j \in Callers
      PROVE  pc'[j] \in SharedPcs /\ OwnOnly(j)' /\ InTime(j)' /\ Later(j)' /\ Counted(j)'
  <2>1. CASE j = i
    <3>1. OwnOnly(i)'
      BY <1>1, <1>2, <1>3, <1>6 DEF OwnOnly, Taken
    <3>2. InTime(i)'
      BY <1>0, <1>1, SharedNumbers DEF InTime, Holding
    <3>3. Later(i)'
      BY <1>0, <1>1, <1>4, <1>5, SharedNumbers DEF Later
    <3> QED BY <1>1, <2>1, <3>1, <3>2, <3>3 DEF Counted, SharedPcs
  <2>2. CASE j # i
    <3>1. pc[j] \in SharedPcs /\ OwnOnly(j) /\ InTime(j) /\ Later(j)
      BY DEF SharedInv
    <3>2. OwnOnly(j)'
      BY <1>1, <1>3, <1>6, <2>2, <3>1 DEF OwnOnly
    <3>3. InTime(j)'
      BY <1>1, <1>6, <1>7, <2>2, <3>1 DEF InTime, Holding, Got
    <3>4. Later(j)'
      <4> SUFFICES ASSUME Got(j), NEW n \in Nonces, Taken(n) \/ n = c, nonce[j] < n
                   PROVE  reserved'[nonce[j]] <= reserved'[n]
        BY <1>1, <1>3, <1>4, <2>2 DEF Later
      <4>1. reserved'[nonce[j]] = reserved[nonce[j]] /\ reserved[nonce[j]] <= ReserveTTL
        BY <1>0, <1>1, <1>6, <2>2, SharedNumbers
      <4> QED BY <1>1, <3>1, <4>1 DEF Later
    <3> QED BY <1>1, <1>7, <2>2, <3>1, <3>2, <3>3, <3>4 DEF Counted
  <2> QED BY <2>1, <2>2
<1>9. \A n, m \in Nonces : m < n /\ Taken(n)' => Taken(m)'
  BY <1>2, <1>4 DEF SharedInv
<1>10. \A n \in Nonces : reserved'[n] > 0 => Taken(n)'
  BY <1>1, <1>4 DEF SharedInv
<1> QED BY <1>8, <1>9, <1>10 DEF SharedInv

(* The nonce is out: it is as old as the section was long. *)
LEMMA SharedRelease ==
  ASSUME LockInv, TypeOK', Shared, SharedInv, NEW i \in Callers, pc[i] = "releasing",
         UNCHANGED <<reserved, used, nonce>>, pc' = [pc EXCEPT ![i] = "holding"],
         age' = [age EXCEPT ![i] = 0]
  PROVE  SharedInv'
<1>0. TypeOK
  BY DEF LockInv
<1>1. /\ pc'[i] = "holding" /\ age'[i] = 0
      /\ \A j \in Callers \ {i} : pc'[j] = pc[j] /\ age'[j] = age[j]
  BY <1>0 DEF TypeOK
<1>2. \A j \in Callers : Got(j)' <=> Got(j)
  BY <1>1 DEF Got
<1>3. \A n : Taken(n)' <=> Taken(n)
  BY <1>2 DEF Taken
<1>4. ASSUME NEW j \in Callers
      PROVE  pc'[j] \in SharedPcs /\ OwnOnly(j)' /\ InTime(j)' /\ Later(j)' /\ Counted(j)'
  <2>1. pc[j] \in SharedPcs /\ OwnOnly(j) /\ InTime(j) /\ Later(j) /\ Counted(j)
    BY DEF SharedInv
  <2>2. OwnOnly(j)' /\ Later(j)'
    BY <1>2, <1>3, <2>1 DEF OwnOnly, Later
  <2>3. CASE j = i
    <3>1. Owns(i)
      BY DEF LockInv, Shared, Critical
    <3>2. reserved[nonce[i]] + MaxHold >= ReserveTTL
      BY <1>0, <2>1, <2>3, <3>1, SharedNumbers DEF InTime, Owns
    <3> QED BY <1>0, <1>1, <2>2, <2>3, <3>2, SharedNumbers DEF InTime, Holding, Counted, SharedPcs
  <2>4. CASE j # i
    BY <1>1, <1>3, <2>1, <2>2, <2>4 DEF InTime, Holding, Counted
  <2> QED BY <2>3, <2>4
<1> QED BY <1>3, <1>4 DEF SharedInv

(* What is sent was taken already, and is reserved for as long as whoever is *)
(* counting may take.                                                        *)
LEMMA SharedSend ==
  ASSUME ReserveTTL > 2 * MaxHold + MaxSend, TypeOK, TypeOK', SharedInv,
         NEW i \in Callers, Holding(i),
         UNCHANGED <<reserved, nonce, age>>, pc' = [pc EXCEPT ![i] = "idle"],
         used' = used \cup {nonce[i]}
  PROVE  SharedInv'
<1>1. pc'[i] = "idle" /\ Got(i) /\ \A j \in Callers \ {i} : pc'[j] = pc[j]
  BY DEF TypeOK, Got, Holding
<1>2. ~Got(i)' /\ \A j \in Callers \ {i} : Got(j)' <=> Got(j)
  BY <1>1 DEF Got
<1>3. \A n : Taken(n)' <=> Taken(n)
  BY <1>1, <1>2 DEF Taken
<1>4. reserved[nonce[i]] > MaxHold
  BY HeldIsReserved
<1>5. ASSUME NEW j \in Callers
      PROVE  pc'[j] \in SharedPcs /\ OwnOnly(j)' /\ InTime(j)' /\ Later(j)' /\ Counted(j)'
  <2>1. pc[j] \in SharedPcs /\ OwnOnly(j) /\ InTime(j) /\ Later(j) /\ Counted(j)
    BY DEF SharedInv
  <2>2. CASE j = i
    BY <1>1, <1>2, <2>2 DEF OwnOnly, InTime, Holding, Later, Counted, SharedPcs
  <2>3. CASE j # i
    <3>1. OwnOnly(j)'
      BY <1>1, <1>2, <2>1, <2>3 DEF OwnOnly, SharedInv
    <3>2. InTime(j)' /\ Later(j)'
      BY <1>1, <1>2, <1>3, <2>1, <2>3 DEF InTime, Holding, Later
    <3>3. Counted(j)'
      BY <1>1, <1>3, <1>4, <2>1, <2>3, SharedNumbers DEF Counted
    <3> QED BY <1>1, <2>1, <2>3, <3>1, <3>2, <3>3
  <2> QED BY <2>2, <2>3
<1> QED BY <1>3, <1>5 DEF SharedInv

(* A tick takes from a reservation what it adds to the age of its holder and *)
(* of whoever counts, and keeps the order of the reservations.               *)
LEMMA SharedTick ==
  ASSUME LockInv, TypeOK', Shared, SharedInv, Tick
  PROVE  SharedInv'
<1>0. TypeOK
  BY DEF LockInv
<1>1. UNCHANGED <<used, pc, nonce>> /\ (\A n : Taken(n)' <=> Taken(n))
  BY DEF Tick, Taken, Got
<1>2. /\ \A n \in Nonces : reserved[n] = 0 => reserved'[n] = 0
      /\ \A n \in Nonces : reserved[n] # 0 => reserved'[n] = reserved[n] - 1
  BY DEF Tick, Expire
<1>3. \A i \in Callers :
         /\ pc[i] \in Critical => age[i] < MaxHold /\ age'[i] = age[i] + 1
         /\ Holding(i) => age[i] < MaxSend /\ age'[i] = age[i] + 1
  BY DEF Tick, Sending, Holding
<1>4. ASSUME NEW i \in Callers
      PROVE  pc'[i] \in SharedPcs /\ OwnOnly(i)' /\ InTime(i)' /\ Later(i)' /\ Counted(i)'
  <2>1. pc[i] \in SharedPcs /\ OwnOnly(i) /\ InTime(i) /\ Later(i) /\ Counted(i)
    BY DEF SharedInv
  <2>2. OwnOnly(i)'
    BY <1>1, <2>1 DEF OwnOnly, Got
  <2>3. InTime(i)'
    <3>1. CASE pc[i] = "releasing"
      <4>1. age'[i] = age[i] + 1
        BY <1>3, <3>1 DEF Critical
      <4> QED BY <1>0, <1>1, <1>2, <2>1, <3>1, <4>1, SharedNumbers DEF InTime, Holding
    <3>2. CASE Holding(i)
      <4>1. age'[i] = age[i] + 1 /\ age[i] < MaxSend
        BY <1>3, <3>2
      <4> QED BY <1>0, <1>1, <1>2, <2>1, <3>2, <4>1, SharedNumbers DEF InTime, Holding
    <3> QED BY <1>1, <3>1, <3>2 DEF InTime, Holding
  <2>4. Later(i)'
    BY <1>0, <1>1, <1>2, <2>1, SharedNumbers DEF Later, Got
  <2>5. Counted(i)'
    <3> SUFFICES ASSUME pc[i] \in {"probing", "reserving"}, NEW n \in used, nonce[i] <= n
                 PROVE  MaxHold < reserved'[n] + age'[i]
      BY <1>1, <2>1 DEF Counted
    <3>1. MaxHold < reserved[n] + age[i] /\ n \in Nonces
      BY <1>0, <2>1, SharedNumbers DEF Counted
    <3>2. age[i] < MaxHold /\ age'[i] = age[i] + 1
      BY <1>3 DEF Critical
    <3> QED BY <1>0, <1>2, <3>1, <3>2, SharedNumbers
  <2> QED BY <1>1, <2>1, <2>2, <2>3, <2>4, <2>5
<1>5. \A n \in Nonces : reserved'[n] > 0 => Taken(n)'
  BY <1>0, <1>1, <1>2, SharedNumbers DEF SharedInv
<1> QED BY <1>1, <1>4, <1>5 DEF SharedInv

LEMMA SharedStep ==
  ASSUME ReserveTTL > 2 * MaxHold + MaxSend, LockInv, TypeOK', Shared, SharedInv,
         NEW i \in Callers,
         NextNonceRedis(i) \/ Step(i) \/ CrashInstance(i)
  PROVE  SharedInv'
<1>0. TypeOK /\ pc[i] \in SharedPcs
  BY DEF LockInv, SharedInv
<1>1. CASE NextNonceRedis(i) \/ Acquire(i) \/ AcquireFails(i) \/ CommandFails(i) \/ CrashInstance(i)
  <2>1. UNCHANGED <<reserved, used, nonce>> /\ \A j \in Callers \ {i} : age'[j] = age[j]
    BY <1>0, <1>1 DEF NextNonceRedis, Acquire, AcquireFails, CommandFails, CrashInstance, Shared, TypeOK
  <2>2. ~Got(i)
    BY <1>1 DEF NextNonceRedis, Acquire, AcquireFails, CommandFails, CrashInstance, MayStop,
       InHand, Shared, Got
  <2>3. PICK s \in {"locking", "counting", "idle", "failing"} : pc' = [pc EXCEPT ![i] = s]
    BY <1>1 DEF NextNonceRedis, Acquire, AcquireFails, CommandFails, CrashInstance, Goto
  <2> QED BY <1>0, <2>1, <2>2, <2>3, SharedQuiet DEF SharedPcs
<1>2. CASE Release(i) \/ ReleaseFails(i)
  <2>1. UNCHANGED <<reserved, used, nonce>> /\ age' = [age EXCEPT ![i] = 0]
    BY <1>2 DEF Release, ReleaseFails, AfterRelease
  <2>2. CASE pc[i] = "releasing"
    BY <1>2, <2>1, <2>2, SharedRelease DEF Release, ReleaseFails, AfterRelease, Goto
  <2>3. CASE pc[i] = "failing"
    <3>1. pc' = [pc EXCEPT ![i] = "idle"] /\ ~Got(i)
      BY <1>2, <2>3 DEF Release, ReleaseFails, AfterRelease, Goto, Got
    <3>2. \A j \in Callers \ {i} : age'[j] = age[j]
      BY <1>0, <2>1 DEF TypeOK
    <3> QED BY <1>0, <2>1, <3>1, <3>2, SharedQuiet DEF SharedPcs
  <2> QED BY <1>2, <2>2, <2>3 DEF Release, ReleaseFails
<1>3. CASE Send(i) \/ SendUnanswered(i)
  BY <1>0, <1>3, SharedSend DEF Send, SendUnanswered, SendFailed, Goto, Shared, Holding
<1>4. ~SendRefused(i)
  BY <1>0 DEF SendRefused, Shared, SharedInv, OwnOnly, Got, SharedPcs
<1>5. ~CountArrives(i) /\ ~SendSecond(i) /\ ~ConfirmNonce(i) /\ ~GiveUp(i) /\ ~ReleaseNonce(i)
  BY <1>0 DEF CountArrives, SendSecond, ConfirmNonce, GiveUp, ReleaseNonce, SharedPcs
<1> QED BY <1>1, <1>2, <1>3, <1>4, <1>5, SharedCount, SharedProbe, SharedReserve DEF Step

-----------------------------------------------------------------------------
(* The four uses together. *)
ReuseInv ==
    /\ LockInv
    /\ Bystanders
    /\ Released => ReleasedInv
    /\ Counter => CounterInv
    /\ Single => SingleInv
    /\ Shared => SharedInv

LEMMA SoundKinds == Sound => Released \/ Counter \/ Single \/ Shared
  BY DEF Sound, Released, Counter, Single, Shared

LEMMA InitReuse == Init => ReuseInv
<1> SUFFICES ASSUME Init PROVE ReuseInv
  OBVIOUS
<1>1. /\ LockInv /\ TypeOK /\ used = {}
      /\ IF Memory /\ usage.synced THEN localNonce = 0 ELSE localNonce = Unset
      /\ \A i \in Callers : pc[i] = "idle"
      /\ \A n \in Nonces : reserved[n] = 0
  BY InitLock, InitTypes DEF Init
<1>2. UsedBelow(0) /\ NoGap /\ 0 # Unset /\ \A n \in Nonces : ~(n < 0)
  BY <1>1, SharedNumbers DEF UsedBelow, NoGap, Unset
<1>3. Bystanders
  BY <1>1 DEF Bystanders
<1>4. ReleasedInv
  BY <1>1, <1>2, CallersOfUsage DEF ReleasedInv
<1>5. Counter => CounterInv
  <2>1. \A i \in Callers : pc[i] \notin {"counting", "counted"} /\ ~Holding(i)
    BY <1>1 DEF Holding
  <2>2. Counter => (localNonce = Unset => Alone)
    BY <1>1, <1>2 DEF Counter
  <2> QED BY <1>1, <1>2, <2>1, <2>2 DEF CounterInv
<1>6. SingleInv
  <2> SUFFICES ASSUME NEW i \in usage.callers
               PROVE  pc[i] = "idle" /\ NoGap /\ \A n \in Nonces : ~(reserved[n] > 0)
    BY DEF SingleInv
  <2> QED BY <1>1, <1>2, CallersOfUsage
<1>7. SharedInv
  BY <1>1 DEF SharedInv, OwnOnly, InTime, Later, Counted, SharedPcs, Got, Holding, Taken
<1> QED BY <1>1, <1>3, <1>4, <1>5, <1>6, <1>7 DEF ReuseInv

(* What a step of one caller leaves alone, and that the network accepts a    *)
(* nonce only from the hands it is in.                                       *)
Act(i) == NextNonceLocal(i) \/ ReadCount(i) \/ NextNonceRedis(i) \/ Step(i) \/ CrashInstance(i)

LEMMA ActShape ==
  ASSUME TypeOK, NEW i \in Callers, Act(i)
  PROVE  /\ usage' = usage
         /\ \A j \in Callers \ {i} : pc'[j] = pc[j] /\ nonce'[j] = nonce[j]
         /\ pc[i] # "second" => \/ used' = used
                                \/ Holding(i) /\ used' = used \cup {nonce[i]}
         /\ Holding(i) => ~Holding(i)'
<1>1. CASE NextNonceLocal(i) \/ ReadCount(i) \/ CountArrives(i) \/ NextNonceRedis(i)
  BY <1>1 DEF NextNonceLocal, ReadCount, CountArrives, Take, NextNonceRedis, Goto, Holding, TypeOK
<1>2. CASE Acquire(i) \/ AcquireFails(i) \/ Release(i) \/ ReleaseFails(i)
  BY <1>2 DEF Acquire, AcquireFails, Release, ReleaseFails, AfterRelease, Goto, Holding, TypeOK
<1>3. CASE Count(i) \/ ProbeTaken(i) \/ ProbeFree(i) \/ Reserve(i) \/ CommandFails(i)
  BY <1>3 DEF Count, ProbeTaken, ProbeFree, Reserve, CommandFails, Goto, Holding, TypeOK
<1>4. CASE Send(i) \/ SendUnanswered(i)
  BY <1>4 DEF Send, SendUnanswered, SendFailed, Goto, Holding, TypeOK
<1>5. CASE SendSecond(i)
  BY <1>5 DEF SendSecond, Goto, Holding, TypeOK
<1>6. CASE SendRefused(i)
  BY <1>6 DEF SendRefused, SendFailed, Goto, Holding, TypeOK
<1>7. CASE ConfirmNonce(i) \/ GiveUp(i) \/ ReleaseNonce(i) \/ CrashInstance(i)
  BY <1>7 DEF ConfirmNonce, GiveUp, ReleaseNonce, CrashInstance, Goto, Holding, TypeOK
<1> QED BY <1>1, <1>2, <1>3, <1>4, <1>5, <1>6, <1>7 DEF Act, Step

LEMMA ActReuse ==
  ASSUME ReserveTTL > 2 * MaxHold + MaxSend, ReuseInv, LockInv', NEW i \in usage.callers, Act(i)
  PROVE  ReuseInv'
<1>1. TypeOK /\ TypeOK' /\ i \in Callers
  BY CallersOfUsage DEF ReuseInv, LockInv
<1>2. usage' = usage /\ \A j \in Callers \ {i} : pc'[j] = pc[j]
  BY <1>1, ActShape
<1>3. Bystanders'
  BY <1>1, <1>2 DEF ReuseInv, Bystanders
<1>4. /\ Released' <=> Released
      /\ Counter' <=> Counter
      /\ Single' <=> Single
      /\ Shared' <=> Shared
  BY <1>2 DEF Released, Counter, Single, Shared, Redis, Memory, Alone
<1>5. ASSUME Released PROVE ReleasedInv'
  <2>1. ReleasedInv /\ pc[i] \in {"idle", "counting", "counted", "holding", "confirming", "failed"}
    BY <1>5 DEF ReuseInv, ReleasedInv
  <2>2. \/ NextNonceLocal(i) \/ ReadCount(i) \/ CountArrives(i) \/ Count(i)
        \/ CommandFails(i) \/ Send(i) \/ SendRefused(i)
        \/ ConfirmNonce(i) \/ GiveUp(i) \/ ReleaseNonce(i)
    BY <1>5, <2>1 DEF Act, Step, Released, Memory, Redis, NextNonceRedis, Acquire, AcquireFails,
       ProbeTaken, ProbeFree, Reserve, Release, ReleaseFails, SendSecond, SendUnanswered, CrashInstance
  <2> QED BY <1>1, <1>5, <2>1, <2>2, ReleasedStep
<1>6. ASSUME Counter PROVE CounterInv'
  <2>1. CounterInv /\ Bystanders /\ pc[i] \in {"idle", "counting", "counted", "holding"}
    BY <1>1, <1>6 DEF ReuseInv, CounterInv
  <2>2. \/ NextNonceLocal(i) \/ ReadCount(i) \/ CountArrives(i) \/ Count(i)
        \/ CommandFails(i) \/ Send(i) \/ SendRefused(i) \/ SendUnanswered(i)
    BY <1>6, <2>1 DEF Act, Step, Counter, Memory, Redis, NextNonceRedis, Acquire, AcquireFails,
       ProbeTaken, ProbeFree, Reserve, Release, ReleaseFails, SendSecond, ConfirmNonce, GiveUp,
       ReleaseNonce, CrashInstance
  <2> QED BY <1>1, <1>6, <2>1, <2>2, CounterStep
<1>7. ASSUME Single PROVE SingleInv'
  <2>1. SingleInv /\ pc[i] \notin {"counted", "second"}
    BY <1>7 DEF ReuseInv, SingleInv
  <2>2. ~NextNonceLocal(i) /\ ~ReadCount(i) /\ ~CountArrives(i) /\ ~SendSecond(i)
    BY <1>7, <2>1 DEF Single, Memory, Redis, NextNonceLocal, ReadCount, CountArrives, SendSecond
  <2> QED BY <1>1, <1>7, <2>1, <2>2, SingleStep DEF Act, Step
<1>8. ASSUME Shared PROVE SharedInv'
  <2>1. SharedInv /\ LockInv
    BY <1>8 DEF ReuseInv
  <2>2. ~NextNonceLocal(i) /\ ~ReadCount(i)
    BY <1>8 DEF Shared, Memory, Redis, NextNonceLocal, ReadCount
  <2> QED BY <1>1, <1>8, <2>1, <2>2, SharedStep DEF Act
<1> QED BY <1>3, <1>4, <1>5, <1>6, <1>7, <1>8 DEF ReuseInv

LEMMA CrashReuse == ASSUME ReuseInv, LockInv', CrashProcess PROVE ReuseInv'
<1>1. TypeOK /\ TypeOK' /\ Memory /\ usage' = usage
  BY DEF ReuseInv, LockInv, CrashProcess
<1>2. Bystanders'
  BY DEF CrashProcess, ReuseInv, Bystanders
<1>3. (Released' <=> Released) /\ (Counter' <=> Counter) /\ ~Single' /\ ~Shared'
  BY <1>1 DEF Released, Counter, Single, Shared, Redis, Memory, Alone
<1> QED BY <1>1, <1>2, <1>3, ReleasedCrash, CounterCrash DEF ReuseInv

LEMMA TickReuse == ASSUME ReuseInv, LockInv', Tick PROVE ReuseInv'
<1>1. TypeOK /\ TypeOK' /\ LockInv /\ Redis /\ UNCHANGED <<usage, used, pc>>
  BY DEF ReuseInv, LockInv, Tick
<1>2. Bystanders'
  BY <1>1 DEF ReuseInv, Bystanders
<1>3. ~Released' /\ ~Counter' /\ (Single' <=> Single) /\ (Shared' <=> Shared)
  BY <1>1 DEF Released, Counter, Single, Shared, Redis, Memory, Alone
<1> QED BY <1>1, <1>2, <1>3, SingleTick, SharedTick DEF ReuseInv

LEMMA StutterReuse == ASSUME ReuseInv, LockInv', UNCHANGED vars PROVE ReuseInv'
<1> USE DEF vars, lockVars
<1>1. /\ Bystanders' <=> Bystanders
      /\ Released' <=> Released
      /\ Counter' <=> Counter
      /\ Single' <=> Single
      /\ Shared' <=> Shared
  BY DEF Bystanders, Released, Counter, Single, Shared, Redis, Memory, Alone
<1>2. ReleasedInv' <=> ReleasedInv
  BY DEF ReleasedInv, UsedBelow, NoGap
<1>3. CounterInv' <=> CounterInv
  BY DEF CounterInv, UsedBelow, NoGap, NonceUnique, InHands, Holding, Alone
<1>4. SingleInv' <=> SingleInv
  BY DEF SingleInv, UsedBelow, NoGap
<1>5. SharedInv' <=> SharedInv
  BY DEF SharedInv, OwnOnly, InTime, Later, Counted, Taken, Got, Holding
<1> QED BY <1>1, <1>2, <1>3, <1>4, <1>5 DEF ReuseInv

LEMMA NextReuse ==
  ASSUME MaxHold < LockTTL, ReserveTTL > 2 * MaxHold + MaxSend, ReuseInv, [Next]_vars
  PROVE  ReuseInv'
<1>1. LockInv'
  BY NextLock DEF ReuseInv
<1> QED BY <1>1, ActReuse, CrashReuse, TickReuse, StutterReuse DEF Next, Act

LEMMA ReuseIsSafe == ReuseInv => NoReuse
<1> SUFFICES ASSUME ReuseInv, Sound, NEW i \in Callers, Holding(i) PROVE NonceUnique(i)
  BY DEF NoReuse
<1>1. i \in usage.callers /\ TypeOK
  BY DEF ReuseInv, LockInv, Bystanders, Holding
<1>2. ASSUME Alone, UsedBelow(nonce[i]) PROVE NonceUnique(i)
  <2>1. \A j \in Callers \ {i} : ~Holding(j)
    BY <1>1, <1>2 DEF ReuseInv, Bystanders, Holding, Alone
  <2> QED BY <1>1, <1>2, <2>1, SharedNumbers DEF UsedBelow, NonceUnique
<1>3. CASE Released
  BY <1>1, <1>2, <1>3 DEF ReuseInv, Released, ReleasedInv, Holding
<1>4. CASE Counter
  BY <1>4 DEF ReuseInv, CounterInv
<1>5. CASE Single
  BY <1>1, <1>2, <1>5 DEF ReuseInv, Single, SingleInv, Holding
<1>6. CASE Shared
  BY <1>6 DEF ReuseInv, SharedInv, OwnOnly, Got, Holding, NonceUnique
<1> QED BY <1>3, <1>4, <1>5, <1>6, SoundKinds

(* In a sound use no nonce is reused, if the lock outlives the section and a *)
(* reservation outlives a section, the sending, and the next section.        *)
THEOREM NoReuseTheorem ==
  ASSUME MaxHold < LockTTL, ReserveTTL > 2 * MaxHold + MaxSend
  PROVE  Spec => []NoReuse
<1>1. Init => ReuseInv
  BY InitReuse
<1>2. ReuseInv /\ [Next]_vars => ReuseInv'
  BY NextReuse
<1>3. ReuseInv => NoReuse
  BY ReuseIsSafe
<1> QED BY <1>1, <1>2, <1>3, PTL DEF Spec

-----------------------------------------------------------------------------
(* The manager as an allocator. *)

HeldBy == [i \in Callers |-> IF Sound /\ Holding(i) THEN {nonce[i]} ELSE {}]
UsedUp == IF Sound THEN used ELSE {}

LEMMA SoundKept == ASSUME usage' = usage PROVE Sound' <=> Sound
  BY DEF Sound, Redis, Memory, Alone

LEMMA InitAllocates == Init => Allocator!Init
  BY DEF Init, Allocator!Init, Holding

LEMMA NoLegs == ASSUME ReuseInv, Sound, NEW i \in usage.callers PROVE pc[i] # "second"
<1>1. i \in Callers
  BY CallersOfUsage DEF ReuseInv, LockInv
<1> QED BY <1>1, SoundKinds
        DEF ReuseInv, ReleasedInv, CounterInv, SingleInv, SharedInv, SharedPcs

LEMMA ActAllocates ==
  ASSUME ReuseInv, NoReuse', NEW i \in usage.callers, Act(i)
  PROVE  [Allocator!Next]_(Allocator!vars)
<1>1. TypeOK /\ i \in Callers
  BY CallersOfUsage DEF ReuseInv, LockInv
<1>2. /\ usage' = usage
      /\ \A j \in Callers \ {i} : pc'[j] = pc[j] /\ nonce'[j] = nonce[j]
      /\ pc[i] # "second" => \/ used' = used
                             \/ Holding(i) /\ used' = used \cup {nonce[i]}
      /\ Holding(i) => ~Holding(i)'
  BY <1>1, ActShape
<1>3. Sound' <=> Sound
  BY <1>2, SoundKept
<1>4. CASE ~Sound
  BY <1>3, <1>4 DEF Allocator!vars
<1>5. CASE Sound
  <2>1. \A j \in Callers \ {i} : Holding(j)' <=> Holding(j)
    BY <1>2 DEF Holding
  <2>2. \A j \in Callers \ {i} : HeldBy'[j] = HeldBy[j]
    BY <1>2, <1>3, <2>1 DEF HeldBy
  <2>3. \/ used' = used
        \/ Holding(i) /\ used' = used \cup {nonce[i]}
    BY <1>2, <1>5, NoLegs
  <2>4. CASE ~Holding(i) /\ ~Holding(i)'
    <3>1. HeldBy' = HeldBy
      BY <1>3, <2>2, <2>4 DEF HeldBy
    <3>2. UsedUp' = UsedUp
      BY <1>3, <2>3, <2>4 DEF UsedUp
    <3> QED BY <3>1, <3>2 DEF HeldBy, UsedUp, Allocator!vars
  <2>5. CASE ~Holding(i) /\ Holding(i)'
    <3>1. PICK n \in Nonces : n = nonce'[i]
      BY <1>1, NextTypes DEF Next, Act, TypeOK
    <3>2. UsedUp' = UsedUp /\ used' = used /\ UsedUp = used
      BY <1>3, <1>5, <2>3, <2>5 DEF UsedUp
    <3>3. nonce'[i] \notin used /\ \A j \in Callers \ {i} : Holding(j)' => nonce'[i] # nonce'[j]
      BY <1>1, <1>3, <1>5, <2>5, <3>2 DEF NoReuse, NonceUnique
    <3>4. HeldBy[i] = {} /\ \A j \in Callers : nonce'[i] \notin HeldBy[j]
      <4>1. HeldBy[i] = {}
        BY <1>1, <2>5 DEF HeldBy
      <4>2. ASSUME NEW j \in Callers \ {i}, Holding(j) PROVE nonce[j] # nonce'[i]
        BY <1>2, <2>1, <3>3, <4>2
      <4>3. \A j \in Callers \ {i} : nonce'[i] \notin HeldBy[j]
        BY <4>2 DEF HeldBy
      <4> QED BY <4>1, <4>3
    <3>5. HeldBy' = [HeldBy EXCEPT ![i] = {nonce'[i]}]
      BY <1>1, <1>3, <1>5, <2>2, <2>5 DEF HeldBy
    <3>6. Allocator!Allocate(i, n)
      BY <3>1, <3>2, <3>3, <3>4, <3>5 DEF HeldBy, UsedUp, Allocator!Allocate
    <3>7. Allocator!Next
      BY <1>1, <3>1, <3>6 DEF Allocator!Next
    <3> QED BY <3>7
  <2>6. CASE Holding(i) /\ ~Holding(i)'
    <3>1. PICK n \in Nonces : n = nonce[i] /\ HeldBy[i] = {n}
      BY <1>1, <1>5, <2>6 DEF HeldBy, TypeOK
    <3>2. HeldBy' = [HeldBy EXCEPT ![i] = {}]
      BY <1>1, <2>2, <2>6 DEF HeldBy
    <3>3. CASE used' = used
      <4>1. UsedUp' = UsedUp
        BY <1>3, <3>3 DEF UsedUp
      <4>2. Allocator!Drop(i)
        BY <3>2, <4>1 DEF HeldBy, UsedUp, Allocator!Drop
      <4> QED BY <1>1, <4>2 DEF Allocator!Next
    <3>4. CASE used' = used \cup {nonce[i]}
      <4>1. UsedUp' = UsedUp \cup {nonce[i]}
        BY <1>3, <1>5, <3>4 DEF UsedUp
      <4>2. Allocator!Use(i, n)
        BY <3>1, <3>2, <4>1 DEF HeldBy, UsedUp, Allocator!Use
      <4>3. Allocator!Next
        BY <1>1, <3>1, <4>2 DEF Allocator!Next
      <4> QED BY <4>3
    <3> QED BY <2>3, <3>3, <3>4
  <2> QED BY <1>2, <2>4, <2>5, <2>6
<1> QED BY <1>4, <1>5

(* When a process stops, at most one nonce is lost: only a caller that is    *)
(* alone may lose one.                                                       *)
LEMMA CrashAllocates ==
  ASSUME ReuseInv, CrashProcess
  PROVE  [Allocator!Next]_(Allocator!vars)
<1>1. /\ usage' = usage /\ used' = used /\ Memory
      /\ \A i \in Callers : ~Holding(i)'
      /\ \A i \in usage.callers : MayStop(i)
  BY DEF CrashProcess, Holding
<1>2. Sound' <=> Sound
  BY <1>1, SoundKept
<1>3. UsedUp' = UsedUp /\ \A i \in Callers : HeldBy'[i] = {}
  BY <1>1, <1>2 DEF UsedUp, HeldBy
<1>4. CASE \A i \in Callers : ~(Sound /\ Holding(i))
  <2>1. HeldBy' = HeldBy
    BY <1>3, <1>4 DEF HeldBy
  <2> QED BY <1>3, <2>1 DEF HeldBy, UsedUp, Allocator!vars
<1>5. ASSUME NEW i \in Callers, Sound, Holding(i) PROVE Allocator!Next
  <2>1. i \in usage.callers
    BY <1>5 DEF ReuseInv, Bystanders, Holding
  <2>2. "lost" \in usage.faults
    BY <1>1, <1>5, <2>1 DEF MayStop, InHand, Holding
  <2>3. Alone
    BY <1>1, <1>5, <2>2 DEF Sound, Memory, Redis
  <2>4. \A j \in Callers \ {i} : ~Holding(j)
    BY <2>1, <2>3 DEF ReuseInv, Bystanders, Holding, Alone
  <2>5. HeldBy' = [HeldBy EXCEPT ![i] = {}]
    BY <1>3, <2>4 DEF HeldBy
  <2>6. Allocator!Drop(i)
    BY <1>3, <2>5 DEF HeldBy, UsedUp, Allocator!Drop
  <2> QED BY <2>6 DEF Allocator!Next
<1> QED BY <1>4, <1>5

LEMMA IdleAllocates ==
  ASSUME Tick \/ UNCHANGED vars
  PROVE  [Allocator!Next]_(Allocator!vars)
<1>1. UNCHANGED <<usage, used, pc, nonce>>
  BY DEF Tick, vars
<1>2. Sound' <=> Sound
  BY <1>1, SoundKept
<1> QED BY <1>1, <1>2 DEF Holding, Allocator!vars

LEMMA NextAllocates ==
  ASSUME ReuseInv, NoReuse', [Next]_vars
  PROVE  [Allocator!Next]_(Allocator!vars)
  BY ActAllocates, CrashAllocates, IdleAllocates DEF Next, Act

(* The manager hands nonces out as NonceAllocator does: to one caller at a   *)
(* time, and never after the network has accepted it.                        *)
THEOREM AllocatorTheorem ==
  ASSUME MaxHold < LockTTL, ReserveTTL > 2 * MaxHold + MaxSend
  PROVE  Spec => ImplementsAllocator
<1>1. Init => ReuseInv /\ Allocator!Init
  BY InitReuse, InitAllocates
<1>2. ReuseInv /\ [Next]_vars => ReuseInv'
  BY NextReuse
<1>3. ReuseInv => NoReuse
  BY ReuseIsSafe
<1>4. ReuseInv /\ NoReuse' /\ [Next]_vars => [Allocator!Next]_(Allocator!vars)
  BY NextAllocates
<1> QED BY <1>1, <1>2, <1>3, <1>4, PTL DEF Spec, ImplementsAllocator, Allocator!Spec

-----------------------------------------------------------------------------
(* Two legs: the nonces in hand are below the counter, and a caller that may *)
(* release its nonce has seen none above it.                                 *)
AheadUse ==
    /\ Memory /\ (Alone \/ (usage.synced /\ ~usage.documented))
    /\ usage.faults \subseteq {"refused", "unanswered"}

AheadInv ==
    /\ \A i \in Callers :
          /\ pc[i] \in {"idle", "counting", "counted"} \cup Sending \cup {"failed", "confirming"}
          /\ pc[i] \in {"counting", "counted"} => localNonce = Unset
          /\ pc[i] \in Sending \cup {"failed"} => localNonce # Unset /\ nonce[i] < localNonce
          /\ pc[i] = "failed" => usage.documented
          /\ pc[i] \in {"holding", "failed"} /\ usage.documented => \A n \in used : n <= nonce[i]
    /\ localNonce = Unset => used = {} /\ Alone
    /\ localNonce # Unset => \A n \in used : n <= localNonce

(* The step that puts a nonce, not below the used ones, into the hands of i. *)
LEMMA AheadTake ==
  ASSUME TypeOK, AheadUse, AheadInv, Bystanders, NEW i \in usage.callers, NEW n \in Nonces,
         Take(i, n),
         \A m \in used : m <= n,
         \A j \in Callers \ {i} : pc[j] \notin {"counting", "counted"},
         localNonce # Unset => localNonce = n
  PROVE  AheadInv'
<1>1. /\ i \in Callers /\ pc'[i] = "holding" /\ nonce'[i] = n
      /\ localNonce' = n + 1 /\ used' = used /\ usage' = usage
      /\ \A j \in Callers \ {i} : pc'[j] = pc[j] /\ nonce'[j] = nonce[j]
  BY CallersOfUsage DEF Take, Goto, TypeOK
<1>2. n \in Int /\ 0 <= n /\ \A m \in Nonces : m \in Int
  BY SharedNumbers
<1>3. localNonce' # Unset /\ \A m \in used : m <= localNonce'
  BY <1>1, <1>2 DEF Unset, TypeOK
<1>4. ASSUME NEW j \in Callers \ {i}
      PROVE  /\ pc'[j] \in Sending \cup {"failed"} => nonce'[j] < localNonce'
             /\ usage.documented => pc'[j] = "idle"
  <2>1. pc[j] \in Sending \cup {"failed"} => nonce[j] < n /\ nonce[j] \in Int
    BY <1>2, SharedNumbers DEF AheadInv
  <2>2. usage.documented => pc[j] = "idle"
    BY DEF AheadUse, Alone, Bystanders
  <2> QED BY <1>1, <1>2, <2>1, <2>2
<1>5. ASSUME NEW j \in Callers
      PROVE  /\ pc'[j] \in {"idle", "counting", "counted"} \cup Sending \cup {"failed", "confirming"}
             /\ pc'[j] \notin {"counting", "counted"}
             /\ pc'[j] \in Sending \cup {"failed"} => nonce'[j] < localNonce'
             /\ pc'[j] = "failed" => usage.documented
             /\ pc'[j] \in {"holding", "failed"} /\ usage.documented => \A m \in used : m <= nonce'[j]
  <2>1. CASE j = i
    BY <1>1, <1>2, <2>1 DEF Sending
  <2>2. CASE j # i
    BY <1>1, <1>4, <2>2 DEF AheadInv
  <2> QED BY <2>1, <2>2
<1> QED BY <1>1, <1>3, <1>5 DEF AheadInv

(* A step of one caller that leaves the counter alone. *)
LEMMA AheadQuiet ==
  ASSUME TypeOK, TypeOK', AheadUse, AheadInv, Bystanders, NEW i \in usage.callers,
         UNCHANGED <<usage, localNonce>>, \A j \in Callers \ {i} : pc'[j] = pc[j] /\ nonce'[j] = nonce[j],
         pc'[i] \in {"idle", "counting", "counted", "second", "failed", "confirming"},
         pc'[i] \in {"counting", "counted"} => localNonce = Unset,
         pc'[i] \in {"second", "failed"} => pc[i] = "holding" /\ nonce'[i] = nonce[i],
         pc'[i] = "failed" => usage.documented,
         \/ used' = used
         \/ pc[i] = "holding" /\ used' = used \cup {nonce[i]}
         \/ pc[i] = "second" /\ pc'[i] # "failed" /\ used' = used \cup {nonce[i] + 1}
  PROVE  AheadInv'
<1>1. i \in Callers /\ \A j \in Callers : nonce[j] \in Int
  BY CallersOfUsage, SharedNumbers
<1>2. pc[i] \in Sending => localNonce # Unset /\ nonce[i] < localNonce /\ localNonce \in Int
  BY <1>1, NonceAssumption DEF AheadInv, TypeOK, Nonces
<1>3. localNonce # Unset => \A n \in used' : n <= localNonce
  BY <1>1, <1>2 DEF AheadInv, Sending
<1>4. localNonce = Unset => used' = {} /\ Alone'
  BY <1>2 DEF AheadInv, Sending, Alone
<1>5. usage.documented => \A j \in Callers \ {i} : pc'[j] = "idle"
  BY DEF AheadUse, Alone, Bystanders
<1>6. ASSUME pc'[i] = "failed" PROVE \A n \in used' : n <= nonce'[i]
  BY <1>1, <1>6 DEF AheadInv
<1>7. ASSUME NEW j \in Callers
      PROVE  /\ pc'[j] \in {"idle", "counting", "counted"} \cup Sending \cup {"failed", "confirming"}
             /\ pc'[j] \in {"counting", "counted"} => localNonce = Unset
             /\ pc'[j] \in Sending \cup {"failed"} => localNonce # Unset /\ nonce'[j] < localNonce
             /\ pc'[j] = "failed" => usage.documented
             /\ pc'[j] \in {"holding", "failed"} /\ usage.documented => \A n \in used' : n <= nonce'[j]
  <2>1. CASE j = i
    BY <1>2, <1>6, <2>1 DEF Sending
  <2>2. CASE j # i
    BY <1>5, <2>2 DEF AheadInv
  <2> QED BY <2>1, <2>2
<1> QED BY <1>3, <1>4, <1>7 DEF AheadInv

LEMMA AheadStep ==
  ASSUME TypeOK, TypeOK', AheadUse, AheadInv, Bystanders, NEW i \in usage.callers, Act(i)
  PROVE  AheadInv'
<1>1. /\ i \in Callers
      /\ pc[i] \in {"idle", "counting", "counted"} \cup Sending \cup {"failed", "confirming"}
  BY CallersOfUsage DEF AheadInv
<1>2. usage' = usage /\ \A j \in Callers \ {i} : pc'[j] = pc[j] /\ nonce'[j] = nonce[j]
  BY <1>1, ActShape
<1>3. nonce[i] \in Nonces /\ nonce[i] \in Int /\ 0 <= nonce[i]
  BY <1>1, SharedNumbers
<1>4. CASE NextNonceLocal(i)
  <2>1. /\ localNonce \in Nonces /\ localNonce # Unset /\ Take(i, localNonce)
        /\ \A m \in used : m <= localNonce
    BY <1>4, SharedNumbers DEF NextNonceLocal, AheadInv, Unset
  <2>2. \A j \in Callers \ {i} : pc[j] \notin {"counting", "counted"}
    BY <2>1 DEF AheadInv
  <2> QED BY <2>1, <2>2, AheadTake
<1>5. CASE CountArrives(i)
  <2>1. Take(i, nonce[i]) /\ localNonce = Unset /\ used = {} /\ Alone
    BY <1>1, <1>5 DEF CountArrives, AheadInv
  <2>2. \A j \in Callers \ {i} : pc[j] = "idle"
    BY <2>1 DEF Alone, Bystanders
  <2> QED BY <1>3, <2>1, <2>2, AheadTake
<1>6. CASE ReadCount(i) \/ Count(i) \/ CommandFails(i)
  <2>1. /\ UNCHANGED <<localNonce, used>> /\ pc'[i] \in {"counting", "counted", "idle"}
        /\ pc'[i] # "idle" => localNonce = Unset
    BY <1>1, <1>6 DEF ReadCount, Count, CommandFails, Goto, AheadUse, Memory, Redis, AheadInv, TypeOK
  <2> QED BY <1>2, <2>1, AheadQuiet
<1>7. CASE Send(i) \/ SendUnanswered(i) \/ SendRefused(i)
  <2>1. /\ UNCHANGED <<localNonce, nonce>> /\ pc'[i] \in {"second", "confirming", "failed", "idle"}
        /\ pc'[i] \in {"second", "failed"} => pc[i] = "holding"
        /\ pc'[i] = "failed" => usage.documented
        /\ used' = used \/ (pc[i] = "holding" /\ used' = used \cup {nonce[i]})
    BY <1>1, <1>7 DEF Send, SendUnanswered, SendRefused, SendFailed, Goto, TypeOK
  <2> QED BY <1>2, <2>1, AheadQuiet
<1>8. CASE SendSecond(i)
  <2>1. /\ UNCHANGED <<localNonce, nonce>> /\ pc'[i] \in {"confirming", "idle"}
        /\ pc[i] = "second" /\ used' = used \cup {nonce[i] + 1}
    BY <1>1, <1>8 DEF SendSecond, Goto, TypeOK
  <2> QED BY <1>2, <2>1, AheadQuiet
<1>9. CASE ConfirmNonce(i) \/ GiveUp(i)
  <2>1. UNCHANGED <<localNonce, used>> /\ pc'[i] = "idle"
    BY <1>1, <1>9 DEF ConfirmNonce, GiveUp, Goto, TypeOK
  <2> QED BY <1>2, <2>1, AheadQuiet
<1>10. CASE ReleaseNonce(i)
  <2>1. /\ usage.documented /\ nonce[i] < localNonce /\ localNonce # Unset
        /\ \A n \in used : n <= nonce[i]
    BY <1>1, <1>10 DEF ReleaseNonce, AheadInv
  <2>2. localNonce \in Int /\ nonce[i] # Unset
    BY <1>3, NonceAssumption DEF TypeOK, Nonces, Unset
  <2>3. localNonce' = nonce[i] /\ used' = used /\ pc'[i] = "idle"
    BY <1>1, <1>3, <1>10, <2>1, <2>2 DEF ReleaseNonce, Goto, TypeOK
  <2>4. \A j \in Callers \ {i} : pc'[j] = "idle"
    BY <1>2, <2>1 DEF AheadUse, Alone, Bystanders
  <2>5. \A j \in Callers : pc'[j] = "idle"
    BY <2>3, <2>4
  <2> QED BY <2>1, <2>2, <2>3, <2>5 DEF AheadInv, Sending
<1>11. \/ NextNonceLocal(i) \/ CountArrives(i) \/ ReadCount(i) \/ Count(i) \/ CommandFails(i)
       \/ Send(i) \/ SendUnanswered(i) \/ SendRefused(i) \/ SendSecond(i)
       \/ ConfirmNonce(i) \/ GiveUp(i) \/ ReleaseNonce(i)
  BY <1>1 DEF Act, Step, AheadUse, Memory, Redis, Sending, NextNonceRedis, Acquire, AcquireFails,
     ProbeTaken, ProbeFree, Reserve, Release, ReleaseFails, CrashInstance
<1> QED BY <1>4, <1>5, <1>6, <1>7, <1>8, <1>9, <1>10, <1>11

(* The process does not stop in this use, unless nobody is there.            *)
LEMMA AheadCrash ==
  ASSUME TypeOK, AheadUse, AheadInv, Bystanders, CrashProcess PROVE AheadInv'
<1>1. usage.callers = {} /\ used = {} /\ used' = used /\ usage' = usage
  BY DEF CrashProcess, MayStop, AheadUse, Bystanders
<1>2. \A i \in Callers : pc'[i] = "idle"
  BY DEF CrashProcess
<1> QED BY <1>1, <1>2 DEF AheadInv, Alone, Sending

LEMMA NextBystanders == ASSUME TypeOK, Bystanders, [Next]_vars PROVE Bystanders'
<1>1. ASSUME NEW i \in usage.callers, Act(i) PROVE Bystanders'
  BY <1>1, ActShape, CallersOfUsage DEF Bystanders
<1> QED BY <1>1 DEF Next, Act, CrashProcess, Tick, vars, Bystanders

LEMMA NextAhead ==
  ASSUME TypeOK, Bystanders, AheadUse => AheadInv, [Next]_vars
  PROVE  (AheadUse => AheadInv)'
<1>1. TypeOK /\ TypeOK'
  BY NextTypes
<1>2. AheadUse' <=> AheadUse
  <2>1. usage' = usage
    BY <1>1, ActShape, CallersOfUsage DEF Next, Act, CrashProcess, Tick, vars
  <2> QED BY <2>1 DEF AheadUse, Memory, Alone
<1>3. CASE UNCHANGED vars
  <2>1. AheadInv' <=> AheadInv
    BY <1>3 DEF AheadInv, Alone, vars
  <2> QED BY <1>2, <2>1
<1>4. AheadUse => ~Tick
  BY DEF AheadUse, Memory, Redis, Tick
<1> QED BY <1>1, <1>2, <1>3, <1>4, AheadStep, AheadCrash DEF Next, Act

(* A sequential trade signs its second leg with a nonce the counter has not  *)
(* handed out; what is used is never more than that one nonce ahead of it.   *)
THEOREM AheadTheorem == Spec => []AheadByAtMostOne
<1> DEFINE Inv == TypeOK /\ Bystanders /\ (AheadUse => AheadInv)
<1>1. Init => Inv
  <2> SUFFICES ASSUME Init PROVE Bystanders /\ (AheadUse => AheadInv)
    BY InitTypes
  <2>1. /\ used = {} /\ \A i \in Callers : pc[i] = "idle"
        /\ IF Memory /\ usage.synced THEN localNonce = 0 ELSE localNonce = Unset
    BY DEF Init
  <2> QED BY <2>1 DEF Bystanders, AheadUse, AheadInv, Sending, Unset
<1>2. Inv /\ [Next]_vars => Inv'
  BY NextTypes, NextBystanders, NextAhead
<1>3. Inv => AheadByAtMostOne
  BY DEF AheadByAtMostOne, AheadUse, AheadInv
<1> QED BY <1>1, <1>2, <1>3, PTL DEF Spec
=============================================================================
