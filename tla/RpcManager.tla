----------------------------- MODULE RpcManager -----------------------------
(* The RPC manager (backend/src/rpcManager.ts): one list of providers, one   *)
(* current index, and any number of call()s that run it concurrently, each   *)
(* awaiting the rate limit and then the provider's answer.  The bot does run *)
(* calls concurrently: both quotes of a pair (arbFinder.ts:88).  And a quote *)
(* that has its answer calls for the pool's state before it returns, so one  *)
(* call() runs inside another (ShadowAdapter.ts:130, BeetsAdapter.ts:178).   *)
EXTENDS Integers

CONSTANTS
    Callers,       \* concurrent uses of call()
    Inner,         \* Inner[c]: the call() that c makes inside its own when it is a quote
    N,             \* number of providers
    RateGap,       \* MAX_CALL_RATE_MS, in ticks
    MaxBackoff,    \* MAX_BACKOFF_MS, in ticks; BASE_BACKOFF_MS is one tick
    MaxFailures,   \* bound: consecutive failures are counted up to this
    MaxTime        \* bound: the number of ticks

ASSUME RpcAssumption ==
    /\ DOMAIN Inner \subseteq Callers
    /\ \A c \in DOMAIN Inner : Inner[c] \in Callers \ DOMAIN Inner
    /\ \A c, d \in DOMAIN Inner : Inner[c] = Inner[d] => c = d
    /\ N \in Nat \ {0}
    /\ RateGap \in Nat
    /\ MaxBackoff \in Nat \ {0}
    /\ MaxFailures \in Nat \ {0}
    /\ MaxTime \in Nat

Providers == 0..(N - 1)
Never == -RateGap   \* lastCallTime of a provider that was not called yet

VARIABLES
    now,
    currentIndex,
    failures,       \* failures[p]: consecutive failures
    cooldownUntil,  \* cooldownUntil[p]
    lastCallTime,   \* lastCallTime[p]
    up,             \* the providers that answer every request
    pc,             \* pc[c]: "idle", "waiting" for the rate limit, "asking", or
                    \* "nested": answered, and waiting for the call() inside
    started,        \* started[c]: the `now` that call() read on entry
    attempt,        \* attempt[c]: the loop counter
    entry,          \* entry[c]: the provider of this attempt
    wake,           \* wake[c]: end of the wait
    threw,          \* threw[c]: whether the last call ended in an error
    tried,          \* history: providers this call has asked in vain
    disturbed,      \* history: the callers during whose call() one of another
                    \* quote's failed, and moved the index
    asked           \* history: asked[o][p], when the quote o last asked p

providerVars == <<currentIndex, failures, cooldownUntil, lastCallTime>>
callVars == <<pc, started, attempt, entry, wake, threw>>
history == <<tried, disturbed, asked>>
vars == <<now, up, providerVars, callVars, history>>

Quotes == DOMAIN Inner
Outer == Callers \ {Inner[c] : c \in Quotes}

(* The quote that a call() belongs to: itself, or the one it is made inside. *)
Root(c) == IF c \in Outer THEN c ELSE CHOOSE q \in Quotes : Inner[q] = c

Init ==
    /\ now = 0
    /\ currentIndex = 0
    /\ failures = [p \in Providers |-> 0]
    /\ cooldownUntil = [p \in Providers |-> 0]
    /\ lastCallTime = [p \in Providers |-> Never]
    /\ up \in SUBSET Providers
    /\ pc = [c \in Callers |-> "idle"]
    /\ started = [c \in Callers |-> 0]
    /\ attempt = [c \in Callers |-> 0]
    /\ entry = [c \in Callers |-> 0]
    /\ wake = [c \in Callers |-> 0]
    /\ threw = [c \in Callers |-> FALSE]
    /\ tried = [c \in Callers |-> {}]
    /\ disturbed = {}
    /\ asked = [o \in Outer |-> [p \in Providers |-> Never]]

-----------------------------------------------------------------------------
(* Mutant: there is no rate limit. *)
NoPause(p, entryTime) == 0

(* The pause before asking p, computed from the time call() was entered.     *)
Pause(p, entryTime) ==
    LET wait == RateGap - (entryTime - lastCallTime[p])
    IN  IF wait > 0 THEN wait ELSE 0

Ask(c, p) ==
    /\ lastCallTime' = [lastCallTime EXCEPT ![p] = now]
    /\ asked' = [asked EXCEPT ![Root(c)][p] = now]

(* One turn of the loop, up to its first await: take the current provider,   *)
(* and ask it at once or wait.                                               *)
BeginAttempt(pcs, c, k, index, entryTime) ==
    LET pause == Pause(index, entryTime)
    IN  /\ attempt' = [attempt EXCEPT ![c] = k]
        /\ entry' = [entry EXCEPT ![c] = index]
        /\ IF pause > 0
           THEN /\ pc' = [pcs EXCEPT ![c] = "waiting"]
                /\ wake' = [wake EXCEPT ![c] = now + pause]
                /\ UNCHANGED <<lastCallTime, asked>>
           ELSE /\ pc' = [pcs EXCEPT ![c] = "asking"]
                /\ Ask(c, index)
                /\ UNCHANGED wake

Enter(c) ==
    /\ pc[c] = "idle"
    /\ started' = [started EXCEPT ![c] = now]
    /\ tried' = [tried EXCEPT ![c] = {}]
    /\ threw' = [threw EXCEPT ![c] = FALSE]
    /\ disturbed' = disturbed \ {c}
    /\ UNCHANGED <<now, up, currentIndex, failures, cooldownUntil>>

Call(c) ==
    /\ c \in Outer
    /\ Enter(c)
    /\ BeginAttempt(pc, c, 0, currentIndex, now)

(* The quote is there; getPoolState() enters call() again, while the outer   *)
(* one still holds its provider.                                             *)
CallInside(c) ==
    /\ c \in Quotes /\ pc[c] = "asking"
    /\ Enter(Inner[c])
    /\ BeginAttempt([pc EXCEPT ![c] = "nested"], Inner[c], 0, currentIndex, now)

Wake(c) ==
    /\ pc[c] = "waiting"
    /\ now >= wake[c]
    /\ pc' = [pc EXCEPT ![c] = "asking"]
    /\ Ask(c, entry[c])
    /\ UNCHANGED <<now, up, currentIndex, failures, cooldownUntil,
                   started, attempt, entry, wake, threw, tried, disturbed>>

(* How an attempt may end: with what the provider answers, or, in a quote,   *)
(* with what the call() inside has come to.                                  *)
InnerReturned(c) == pc[c] = "nested" /\ pc[Inner[c]] = "idle"
MaySucceed(c) ==
    \/ pc[c] = "asking"
    \/ InnerReturned(c) /\ ~threw[Inner[c]]
MayFail(c) ==
    \/ pc[c] = "asking" /\ entry[c] \notin up
    \/ InnerReturned(c) /\ threw[Inner[c]]

Succeed(c) ==
    /\ MaySucceed(c)
    /\ failures' = [failures EXCEPT ![entry[c]] = 0]
    /\ pc' = [pc EXCEPT ![c] = "idle"]
    /\ UNCHANGED <<now, up, currentIndex, cooldownUntil, lastCallTime,
                   started, attempt, entry, wake, threw, history>>

Backoff(n) == IF 2^n < MaxBackoff THEN 2^n ELSE MaxBackoff

Increment(n) == IF n < MaxFailures THEN n + 1 ELSE n

(* Mutant: a failure always moves on to the second provider. *)
RotateFromZero(p) == (1 + 0 * p) % N

(* The index moves on from where it is now, which need not be this call's    *)
(* provider any more.                                                        *)
Rotate(p) == (p + 1) % N

Fail(c) ==
    LET p == entry[c]
        next == Rotate(currentIndex)
    IN  /\ MayFail(c)
        /\ failures' = [failures EXCEPT ![p] = Increment(failures[p])]
        /\ cooldownUntil' = [cooldownUntil EXCEPT ![p] = now + Backoff(failures'[p])]
        /\ currentIndex' = next
        /\ tried' = [tried EXCEPT ![c] = tried[c] \cup {p}]
        /\ disturbed' = disturbed \cup {d \in Callers : pc[d] # "idle" /\ Root(d) # Root(c)}
        /\ IF attempt[c] + 1 < N
           THEN /\ BeginAttempt(pc, c, attempt[c] + 1, next, started[c])
                /\ UNCHANGED threw
           ELSE /\ pc' = [pc EXCEPT ![c] = "idle"]
                /\ threw' = [threw EXCEPT ![c] = TRUE]
                /\ UNCHANGED <<attempt, entry, wake, lastCallTime, asked>>
        /\ UNCHANGED <<now, up, started>>

Cooling(p) == cooldownUntil[p] > now

(* getProvider(): the first provider from the current index on that is not   *)
(* cooling down becomes the current one; if all are, the index stays.  The   *)
(* program asks for a provider while it is built, never during a call().     *)
GetProvider ==
    /\ \A c \in Callers : pc[c] = "idle"
    /\ \E i \in 0..(N - 1) :
          LET idx == (currentIndex + i) % N
          IN  /\ ~Cooling(idx)
              /\ \A j \in 0..(i - 1) : Cooling((currentIndex + j) % N)
              /\ currentIndex' = idx
    /\ UNCHANGED <<now, up, failures, cooldownUntil, lastCallTime, callVars, history>>

Tick ==
    /\ now < MaxTime
    /\ now' = now + 1
    /\ UNCHANGED <<up, providerVars, callVars, history>>

Next ==
    \/ \E c \in Callers : Call(c) \/ CallInside(c) \/ Wake(c) \/ Succeed(c) \/ Fail(c)
    \/ GetProvider
    \/ Tick

Spec == Init /\ [][Next]_vars

-----------------------------------------------------------------------------
(* "All RPC providers failed" (rpcManager.ts:101) is thrown only if each of  *)
(* them was asked, so one healthy provider is enough to serve a call.        *)
ThrowMeansAllTried == \A c \in Callers : threw[c] => tried[c] = Providers /\ up = {}

(* What is left of that when quotes overlap, as they do (arbFinder.ts:88): a *)
(* call may skip a provider only if a call of another quote failed while it  *)
(* ran.  That others wait, ask, succeed or fail inside their own quote at    *)
(* other times does no harm, nor does the failure of the call inside, which  *)
(* moves the index under the outer one by a full turn.                       *)
ThrowUndisturbed ==
    \A c \in Callers : threw[c] /\ c \notin disturbed => tried[c] = Providers /\ up = {}

Asks(c, p) ==
    /\ pc'[c] = "asking" /\ entry'[c] = p
    /\ pc[c] # "asking" \/ attempt'[c] # attempt[c]

(* A minimum interval between two requests to a provider (rpcManager.ts:7)   *)
(* is kept by each quote with the call inside it, from one call to the next, *)
(* although the pause is computed from a `now` read on entry and a time of   *)
(* last call that others move on meanwhile.  So at most as many requests     *)
(* reach a provider within RateGap as there are quotes at once: two of them  *)
(* that wait for the same earlier request ask it in the same instant.        *)
RateLimitedPerQuote ==
    [][\A c \in Callers, p \in Providers :
          Asks(c, p) => now - asked[Root(c)][p] >= RateGap]_vars
=============================================================================
