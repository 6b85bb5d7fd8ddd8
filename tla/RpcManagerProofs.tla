--------------------------- MODULE RpcManagerProofs ---------------------------
(* Theorems about the RPC manager for any number of quotes that run at once, *)
(* each with the call inside it: any providers, any time-outs and limits.    *)
EXTENDS RpcManager, TLAPS

(* The providers asked before e by a call that began at f, and their number. *)
Between(f, e) == IF f <= e THEN f..(e - 1) ELSE f..(N - 1) \cup 0..(e - 1)
Turns(f, e) == IF f <= e THEN e - f ELSE N - f + e

Active(c) == pc[c] \in {"waiting", "asking", "nested"}
Along(c, f) == tried[c] = Between(f, entry[c]) /\ attempt[c] = Turns(f, entry[c])

Places == {"idle", "waiting", "asking", "nested"}

Types ==
    /\ now \in Nat /\ currentIndex \in Providers /\ up \subseteq Providers
    /\ lastCallTime \in [Providers -> Int]
    /\ pc \in [Callers -> Places]
    /\ started \in [Callers -> Nat]
    /\ attempt \in [Callers -> 0..(N - 1)]
    /\ entry \in [Callers -> Providers]
    /\ wake \in [Callers -> Int]
    /\ tried \in [Callers -> SUBSET Providers]
    /\ threw \in [Callers -> BOOLEAN]
    /\ disturbed \subseteq Callers
    /\ asked \in [Outer -> [Providers -> Int]]

(* What holds of a call: undisturbed, it asks the providers in turn, from    *)
(* wherever it began, and stands at the shared index.                        *)
Turn(c) == Active(c) /\ c \notin disturbed => \E f \in Providers : Along(c, f)
Index(c) == pc[c] \in {"waiting", "asking"} /\ c \notin disturbed => entry[c] = currentIndex
End(c) ==
    /\ c \notin disturbed => tried[c] \cap up = {}
    /\ threw[c] => pc[c] = "idle"
    /\ threw[c] /\ c \notin disturbed => tried[c] = Providers
    /\ pc[c] = "nested" => c \in Quotes
Place(c) == Turn(c) /\ Index(c) /\ End(c)

(* The call inside a quote runs only while the quote waits for it, and if    *)
(* nobody disturbs the quote, begins and ends at the quote's own provider.   *)
Inside(q) ==
    /\ Active(Inner[q]) => pc[q] = "nested"
    /\ q \notin disturbed =>
          /\ pc[q] = "nested" => Inner[q] \notin disturbed
          /\ Active(Inner[q]) => Along(Inner[q], entry[q])
          /\ InnerReturned(q) /\ threw[Inner[q]] => currentIndex = entry[q]

(* A pause ends RateGap after the quote last asked the provider, and no      *)
(* quote asked a provider after the time of its last call.                   *)
Paused ==
    \A c \in Callers :
        /\ started[c] <= now
        /\ pc[c] = "waiting" => wake[c] >= asked[Root(c)][entry[c]] + RateGap
Known ==
    \A p \in Providers :
        /\ lastCallTime[p] <= now
        /\ \A o \in Outer : asked[o][p] <= lastCallTime[p]

RpcInv ==
    /\ Types
    /\ \A c \in Callers : Place(c)
    /\ \A q \in Quotes : Inside(q)
    /\ Paused /\ Known

-----------------------------------------------------------------------------
(* The list of providers as a ring. *)

LEMMA Ring ==
  ASSUME NEW f \in Providers, NEW e \in Providers
  PROVE  /\ Rotate(e) = (IF e + 1 = N THEN 0 ELSE e + 1) /\ Rotate(e) \in Providers
         /\ Between(f, f) = {} /\ Turns(f, f) = 0
         /\ Turns(f, e) \in 0..(N - 1)
<1>1. N \in Nat \ {0} /\ f \in Int /\ e \in Int /\ 0 <= f /\ f < N /\ 0 <= e /\ e < N
  BY RpcAssumption DEF Providers
<1>2. Rotate(e) = IF e + 1 = N THEN 0 ELSE e + 1
  <2>1. CASE e + 1 = N
    BY <1>1, <2>1 DEF Rotate
  <2>2. CASE e + 1 < N
    BY <1>1, <2>2 DEF Rotate
  <2> QED BY <1>1, <2>1, <2>2
<1> QED BY <1>1, <1>2 DEF Providers, Between, Turns

(* One more provider, short of a full turn. *)
LEMMA RingStep ==
  ASSUME NEW f \in Providers, NEW e \in Providers, Turns(f, e) + 1 < N
  PROVE  /\ Between(f, Rotate(e)) = Between(f, e) \cup {e}
         /\ Turns(f, Rotate(e)) = Turns(f, e) + 1
<1>1. N \in Nat \ {0} /\ f \in Int /\ e \in Int /\ 0 <= f /\ f < N /\ 0 <= e /\ e < N
  BY RpcAssumption DEF Providers
<1> QED BY <1>1, Ring DEF Between, Turns

(* After a full turn all have been asked, and the index is where it began.   *)
LEMMA RingEnd ==
  ASSUME NEW f \in Providers, NEW e \in Providers, ~(Turns(f, e) + 1 < N)
  PROVE  Between(f, e) \cup {e} = Providers /\ Rotate(e) = f
<1>1. N \in Nat \ {0} /\ f \in Int /\ e \in Int /\ 0 <= f /\ f < N /\ 0 <= e /\ e < N
  BY RpcAssumption DEF Providers
<1> QED BY <1>1, Ring DEF Between, Turns, Providers

-----------------------------------------------------------------------------
(* Quotes and the calls inside them. *)

LEMMA Nesting ==
  /\ Quotes \subseteq Outer /\ Outer \subseteq Callers
  /\ \A q \in Quotes : Inner[q] \in Callers /\ Inner[q] \notin Quotes /\ Inner[q] # q /\ Inner[q] \notin Outer
  /\ \A c \in Callers : c \in Outer \/ \E q \in Quotes : c = Inner[q]
  BY RpcAssumption DEF Quotes, Outer

LEMMA Roots ==
  /\ \A c \in Outer : Root(c) = c
  /\ \A q \in Quotes : Root(Inner[q]) = q
  /\ \A c \in Callers : Root(c) \in Outer
<1>1. \A c \in Outer : Root(c) = c
  BY DEF Root
<1>2. ASSUME NEW q \in Quotes PROVE Root(Inner[q]) = q
  <2>1. \A r \in Quotes : Inner[r] = Inner[q] => r = q
    BY RpcAssumption DEF Quotes
  <2>2. Inner[q] \notin Outer
    BY Nesting
  <2> QED BY <2>1, <2>2 DEF Root
<1> QED BY <1>1, <1>2, Nesting

(* Kin are a quote and the call inside it. *)
LEMMA Kin ==
  ASSUME NEW c \in Callers, NEW d \in Callers, Root(c) = Root(d), c # d
  PROVE  (c \in Quotes /\ d = Inner[c]) \/ (d \in Quotes /\ c = Inner[d])
<1>1. CASE c \in Outer /\ d \in Outer
  BY <1>1, Roots
<1>2. ASSUME NEW q \in Quotes, c = Inner[q], d \in Outer PROVE d \in Quotes /\ c = Inner[d]
  BY <1>2, Roots
<1>3. ASSUME NEW q \in Quotes, d = Inner[q], c \in Outer PROVE c \in Quotes /\ d = Inner[c]
  BY <1>3, Roots
<1>4. ASSUME NEW q \in Quotes, NEW r \in Quotes, c = Inner[q], d = Inner[r] PROVE FALSE
  BY <1>4, Roots
<1> QED BY <1>1, <1>2, <1>3, <1>4, Nesting

(* Who may take a step: its kin neither waits nor asks. *)
Mover(c) ==
    \/ pc[c] = "idle" /\ c \in Outer
    \/ pc[c] \in {"waiting", "asking"}
    \/ InnerReturned(c)

LEMMA KinQuiet ==
  ASSUME RpcInv, NEW c \in Callers, Mover(c), NEW d \in Callers, Root(c) = Root(d), c # d
  PROVE  /\ pc[d] \notin {"waiting", "asking"}
         /\ d \notin Quotes => pc[d] = "idle"
<1>1. pc[c] \in Places /\ pc[d] \in Places
  BY DEF RpcInv, Types
<1>2. CASE c \in Quotes /\ d = Inner[c]
  BY <1>1, <1>2 DEF RpcInv, Inside, Active, Mover, InnerReturned, Places
<1>3. CASE d \in Quotes /\ c = Inner[d]
  <2>1. Active(c)
    <3>1. c \notin Outer /\ c \notin Quotes
      BY <1>3, Nesting
    <3>2. pc[c] # "nested"
      BY <3>1 DEF RpcInv, Place, End
    <3> QED BY <3>1, <3>2 DEF Mover, Active, InnerReturned
  <2>2. pc[d] = "nested"
    BY <1>3, <2>1 DEF RpcInv, Inside
  <2> QED BY <1>3, <2>2
<1> QED BY <1>2, <1>3, Kin

(* The callers of other quotes: nothing of theirs changes, and where the     *)
(* index moves, those that are in a call are disturbed.                      *)
Same(d) ==
    /\ pc'[d] = pc[d] /\ entry'[d] = entry[d] /\ attempt'[d] = attempt[d]
    /\ tried'[d] = tried[d] /\ threw'[d] = threw[d]
IndexStays(d) == currentIndex' = currentIndex /\ (d \in disturbed' <=> d \in disturbed)
IndexMoves(d) == d \in disturbed' <=> d \in disturbed \/ pc[d] # "idle"

LEMMA Strangers ==
  ASSUME RpcInv, NEW c \in Callers, UNCHANGED up,
         \A d \in Callers : Root(d) # Root(c) => Same(d),
         \/ \A d \in Callers : Root(d) # Root(c) => IndexStays(d)
         \/ \A d \in Callers : Root(d) # Root(c) => IndexMoves(d)
  PROVE  /\ \A d \in Callers : Root(d) # Root(c) => Place(d)'
         /\ \A q \in Quotes : Root(q) # Root(c) => Inside(q)'
<1>1. ASSUME NEW d \in Callers, Root(d) # Root(c) PROVE Place(d)'
  <2>1. Place(d) /\ Same(d) /\ (IndexStays(d) \/ IndexMoves(d))
    BY <1>1 DEF RpcInv
  <2>2. CASE IndexStays(d)
    BY <2>1, <2>2 DEF Place, Turn, Index, End, Along, Active, Same, IndexStays
  <2>3. CASE IndexMoves(d)
    BY <2>1, <2>3 DEF Place, Turn, Index, End, Along, Active, Same, IndexMoves
  <2> QED BY <2>1, <2>2, <2>3
<1>2. ASSUME NEW q \in Quotes, Root(q) # Root(c) PROVE Inside(q)'
  <2> DEFINE i == Inner[q]
  <2>1. q \in Callers /\ i \in Callers /\ Root(i) # Root(c) /\ Inside(q)
    BY <1>2, Nesting, Roots DEF RpcInv
  <2>2. Same(q) /\ Same(i)
    BY <1>2, <2>1
  <2>3. CASE IndexStays(q) /\ IndexStays(i)
    BY <2>1, <2>2, <2>3 DEF Inside, InnerReturned, Along, Active, Same, IndexStays
  <2>4. CASE IndexMoves(q) /\ IndexMoves(i)
    BY <2>1, <2>2, <2>4 DEF Inside, InnerReturned, Along, Active, Same, IndexMoves
  <2> QED BY <1>2, <2>1, <2>3, <2>4
<1> QED BY <1>1, <1>2

(* The times, for a step of c that may ask a provider, and that leaves the   *)
(* waits of others alone.                                                    *)
LEMMA TimesKept ==
  ASSUME Types, Types', Paused, Known, NEW c \in Callers, UNCHANGED now,
         \A d \in Callers : started'[d] <= now,
         UNCHANGED <<lastCallTime, asked>> \/ \E p \in Providers : Ask(c, p),
         \A d \in Callers \ {c} : pc'[d] = "waiting" =>
             pc[d] = "waiting" /\ Root(d) # Root(c) /\ wake'[d] = wake[d] /\ entry'[d] = entry[d],
         pc'[c] = "waiting" => UNCHANGED asked /\ wake'[c] >= asked[Root(c)][entry'[c]] + RateGap
  PROVE  Paused' /\ Known'
<1>1. /\ now \in Int /\ RateGap \in Int /\ Root(c) \in Outer
      /\ \A p \in Providers : lastCallTime[p] \in Int /\ \A o \in Outer : asked[o][p] \in Int
  BY RpcAssumption, Roots DEF Types
<1>2. Known'
  <2>1. CASE UNCHANGED <<lastCallTime, asked>>
    BY <2>1 DEF Known
  <2>2. ASSUME NEW p \in Providers, Ask(c, p) PROVE Known'
    <3> SUFFICES ASSUME NEW r \in Providers PROVE
          lastCallTime'[r] <= now /\ \A o \in Outer : asked'[o][r] <= lastCallTime'[r]
      BY DEF Known
    <3>1. lastCallTime'[r] = IF r = p THEN now ELSE lastCallTime[r]
      BY <2>2 DEF Ask, Types
    <3>2. \A o \in Outer : asked'[o][r] = IF o = Root(c) /\ r = p THEN now ELSE asked[o][r]
      BY <1>1, <2>2 DEF Ask, Types
    <3>3. lastCallTime[r] <= now /\ \A o \in Outer : asked[o][r] <= lastCallTime[r]
      BY DEF Known
    <3> QED BY <1>1, <3>1, <3>2, <3>3
  <2> QED BY <2>1, <2>2
<1>3. ASSUME NEW d \in Callers, pc'[d] = "waiting"
      PROVE  wake'[d] >= asked'[Root(d)][entry'[d]] + RateGap
  <2>1. CASE d = c
    BY <1>3, <2>1
  <2>2. CASE d # c
    <3>1. /\ pc[d] = "waiting" /\ Root(d) # Root(c) /\ wake'[d] = wake[d] /\ entry'[d] = entry[d]
          /\ wake[d] >= asked[Root(d)][entry[d]] + RateGap
      BY <1>3, <2>2 DEF Paused
    <3>2. asked'[Root(d)] = asked[Root(d)]
      BY <3>1, Roots DEF Ask, Types
    <3> QED BY <3>1, <3>2
  <2> QED BY <2>1, <2>2
<1> QED BY <1>2, <1>3 DEF Paused

(* What BeginAttempt leaves: the caller waits or asks, and keeps its pause.  *)
LEMMA BeginShape ==
  ASSUME Types, Known, NEW c \in Callers, NEW k \in Int, NEW index \in Providers,
         NEW t \in Nat, t <= now, NEW pcs \in [Callers -> Places],
         BeginAttempt(pcs, c, k, index, t)
  PROVE  /\ attempt' = [attempt EXCEPT ![c] = k] /\ entry' = [entry EXCEPT ![c] = index]
         /\ pc'[c] \in {"waiting", "asking"} /\ pc' = [pcs EXCEPT ![c] = pc'[c]]
         /\ pc'[c] = "waiting" => /\ UNCHANGED <<lastCallTime, asked>>
                                  /\ wake'[c] >= asked[Root(c)][index] + RateGap
         /\ pc'[c] = "asking" => Ask(c, index) /\ now - asked[Root(c)][index] >= RateGap
         /\ lastCallTime' \in [Providers -> Int] /\ asked' \in [Outer -> [Providers -> Int]]
         /\ wake' \in [Callers -> Int]
         /\ \A d \in Callers \ {c} : wake'[d] = wake[d]
<1>1. /\ now \in Int /\ lastCallTime[index] \in Int /\ RateGap \in Int /\ Root(c) \in Outer
      /\ asked[Root(c)][index] \in Int /\ asked[Root(c)][index] <= lastCallTime[index]
  BY RpcAssumption, Roots DEF Types, Known
<1>2. Pause(index, t) \in Int /\ now + Pause(index, t) \in Int
  BY <1>1 DEF Pause
<1>3. CASE Pause(index, t) > 0
  <2>1. now + Pause(index, t) >= asked[Root(c)][index] + RateGap
    BY <1>1, <1>3 DEF Pause
  <2> QED BY <1>2, <1>3, <2>1 DEF BeginAttempt, Types, Places
<1>4. CASE ~(Pause(index, t) > 0)
  <2>1. now - asked[Root(c)][index] >= RateGap
    BY <1>1, <1>4 DEF Pause
  <2>2. /\ Ask(c, index) /\ UNCHANGED wake /\ pc' = [pcs EXCEPT ![c] = "asking"]
        /\ attempt' = [attempt EXCEPT ![c] = k] /\ entry' = [entry EXCEPT ![c] = index]
    BY <1>4 DEF BeginAttempt
  <2>3. lastCallTime' \in [Providers -> Int] /\ asked' \in [Outer -> [Providers -> Int]]
    BY <1>1, <2>2 DEF Ask, Types
  <2> QED BY <2>1, <2>2, <2>3 DEF Types, Places
<1> QED BY <1>2, <1>3, <1>4

-----------------------------------------------------------------------------
(* What a step leaves as it is for every caller but c. *)
Alone(c) ==
    \A d \in Callers \ {c} :
        /\ entry'[d] = entry[d] /\ attempt'[d] = attempt[d] /\ tried'[d] = tried[d]
        /\ threw'[d] = threw[d] /\ started'[d] = started[d]
        /\ wake'[d] = wake[d]

LEMMA InitRpc == Init => RpcInv
<1> SUFFICES ASSUME Init PROVE RpcInv
  OBVIOUS
<1>1. \A c \in Callers : pc[c] = "idle" /\ threw[c] = FALSE /\ tried[c] = {} /\ started[c] = 0
  BY DEF Init
<1>2. Types
  BY RpcAssumption DEF Init, Types, Providers, Places, Never
<1>3. \A c \in Callers : Place(c)
  BY <1>1 DEF Place, Turn, Index, End, Active
<1>4. \A q \in Quotes : Inside(q)
  BY <1>1, Nesting DEF Inside, InnerReturned, Active
<1>5. Paused /\ Known
  BY <1>1, RpcAssumption DEF Init, Paused, Known, Never
<1> QED BY <1>2, <1>3, <1>4, <1>5 DEF RpcInv

LEMMA CallKept == ASSUME RpcInv, NEW c \in Callers, Call(c) PROVE RpcInv'
<1>1. /\ c \in Outer /\ pc[c] = "idle" /\ Types /\ Paused /\ Known /\ now \in Nat
      /\ currentIndex \in Providers /\ Mover(c) /\ now \in Int /\ 0 \in Int /\ now <= now
  BY DEF Call, Enter, RpcInv, Types, Mover
<1>2. /\ UNCHANGED <<now, up, currentIndex>> /\ disturbed' = disturbed \ {c}
      /\ started' = [started EXCEPT ![c] = now] /\ tried' = [tried EXCEPT ![c] = {}]
      /\ threw' = [threw EXCEPT ![c] = FALSE]
      /\ BeginAttempt(pc, c, 0, currentIndex, now)
  BY DEF Call, Enter
<1>3. /\ attempt' = [attempt EXCEPT ![c] = 0] /\ entry' = [entry EXCEPT ![c] = currentIndex]
      /\ pc'[c] \in {"waiting", "asking"} /\ pc' = [pc EXCEPT ![c] = pc'[c]]
      /\ pc'[c] = "waiting" => /\ UNCHANGED <<lastCallTime, asked>>
                               /\ wake'[c] >= asked[Root(c)][currentIndex] + RateGap
      /\ pc'[c] = "asking" => Ask(c, currentIndex)
      /\ lastCallTime' \in [Providers -> Int] /\ asked' \in [Outer -> [Providers -> Int]]
      /\ wake' \in [Callers -> Int] /\ \A d \in Callers \ {c} : wake'[d] = wake[d]
  BY <1>1, <1>2, BeginShape DEF Types
<1>4. Types'
  BY <1>1, <1>2, <1>3, RpcAssumption DEF Types, Places
<1>5. Alone(c) /\ (\A d \in Callers \ {c} : pc'[d] = pc[d]) /\ entry'[c] = currentIndex /\ attempt'[c] = 0
      /\ tried'[c] = {} /\ threw'[c] = FALSE
  BY <1>1, <1>2, <1>3 DEF Types, Alone
<1>6. /\ \A d \in Callers : Root(d) # Root(c) => Place(d)'
      /\ \A q \in Quotes : Root(q) # Root(c) => Inside(q)'
  BY <1>1, <1>2, <1>5, Strangers DEF Same, Alone, IndexStays
<1>7. Place(c)'
  BY <1>1, <1>2, <1>3, <1>5, Ring DEF Place, Turn, Index, End, Along
<1>8. ASSUME NEW d \in Callers, d # c, Root(d) = Root(c) PROVE Place(d)'
  <2>1. pc[d] = "idle" /\ pc'[d] = "idle" /\ Place(d)
    BY <1>1, <1>5, <1>8, KinQuiet, Kin, Nesting DEF RpcInv
  <2> QED BY <1>2, <1>5, <1>8, <2>1 DEF Place, Turn, Index, End, Active, Alone
<1>9. ASSUME NEW q \in Quotes, Root(q) = Root(c) PROVE Inside(q)'
  <2>1. q = c /\ Inner[q] # c /\ Inner[q] \in Callers /\ Inner[q] \notin Quotes /\ Root(Inner[q]) = Root(c)
    BY <1>1, <1>9, Nesting, Roots
  <2>2. pc'[Inner[q]] = "idle" /\ pc'[q] # "nested"
    BY <1>1, <1>3, <1>5, <2>1, KinQuiet
  <2> QED BY <2>2 DEF Inside, InnerReturned, Active
<1>10. Paused' /\ Known'
  <2>1. \A d \in Callers : started'[d] <= now
    BY <1>1, <1>2 DEF Paused, Types
  <2>2. \A d \in Callers \ {c} : pc'[d] = "waiting" => Root(d) # Root(c)
    BY <1>1, <1>5, KinQuiet
  <2> QED BY <1>1, <1>2, <1>3, <1>4, <1>5, <2>1, <2>2, TimesKept DEF Alone
<1> QED BY <1>4, <1>6, <1>7, <1>8, <1>9, <1>10 DEF RpcInv

LEMMA CallInsideKept == ASSUME RpcInv, NEW q \in Callers, CallInside(q) PROVE RpcInv'
<1> DEFINE c == Inner[q]
           pcs == [pc EXCEPT ![q] = "nested"]
<1>1. /\ q \in Quotes /\ c \in Callers /\ c # q /\ c \notin Quotes /\ pc[q] = "asking" /\ pc[c] = "idle"
      /\ Types /\ Paused /\ Known /\ now \in Nat /\ currentIndex \in Providers
      /\ Root(c) = q /\ Root(q) = q /\ now <= now /\ 0 \in Int
      /\ Place(q) /\ (q \notin disturbed => entry[q] = currentIndex)
  BY Nesting, Roots DEF CallInside, Enter, RpcInv, Types, Place, Index
<1>2. /\ UNCHANGED <<now, up, currentIndex>> /\ disturbed' = disturbed \ {c}
      /\ started' = [started EXCEPT ![c] = now] /\ tried' = [tried EXCEPT ![c] = {}]
      /\ threw' = [threw EXCEPT ![c] = FALSE]
      /\ BeginAttempt(pcs, c, 0, currentIndex, now)
  BY DEF CallInside, Enter
<1>3. pcs \in [Callers -> Places] /\ pcs[q] = "nested" /\ \A d \in Callers \ {q} : pcs[d] = pc[d]
  BY <1>1 DEF Types, Places
<1> HIDE DEF c, pcs
<1>4. /\ attempt' = [attempt EXCEPT ![c] = 0] /\ entry' = [entry EXCEPT ![c] = currentIndex]
      /\ pc'[c] \in {"waiting", "asking"} /\ pc' = [pcs EXCEPT ![c] = pc'[c]]
      /\ pc'[c] = "waiting" => /\ UNCHANGED <<lastCallTime, asked>>
                               /\ wake'[c] >= asked[Root(c)][currentIndex] + RateGap
      /\ pc'[c] = "asking" => Ask(c, currentIndex)
      /\ lastCallTime' \in [Providers -> Int] /\ asked' \in [Outer -> [Providers -> Int]]
      /\ wake' \in [Callers -> Int] /\ \A d \in Callers \ {c} : wake'[d] = wake[d]
  <2>1. /\ Types /\ Known /\ c \in Callers /\ 0 \in Int /\ currentIndex \in Providers /\ now \in Nat
        /\ now <= now /\ pcs \in [Callers -> Places] /\ BeginAttempt(pcs, c, 0, currentIndex, now)
    BY <1>1, <1>2, <1>3
  <2>2. /\ attempt' = [attempt EXCEPT ![c] = 0] /\ entry' = [entry EXCEPT ![c] = currentIndex]
        /\ pc'[c] \in {"waiting", "asking"} /\ pc' = [pcs EXCEPT ![c] = pc'[c]]
    BY <2>1, BeginShape
  <2>3. /\ pc'[c] = "waiting" => /\ UNCHANGED <<lastCallTime, asked>>
                                 /\ wake'[c] >= asked[Root(c)][currentIndex] + RateGap
        /\ pc'[c] = "asking" => Ask(c, currentIndex)
    BY <2>1, BeginShape
  <2>4. /\ lastCallTime' \in [Providers -> Int] /\ asked' \in [Outer -> [Providers -> Int]]
        /\ wake' \in [Callers -> Int]
    BY <2>1, BeginShape
  <2>5. \A d \in Callers \ {c} : wake'[d] = wake[d]
    BY <2>1 DEF BeginAttempt, Types
  <2> QED BY <2>2, <2>3, <2>4, <2>5
<1>5. Types'
  BY <1>1, <1>2, <1>3, <1>4, RpcAssumption, SMTT(40) DEF Types, Places
<1>6. /\ Alone(c) /\ pc'[q] = "nested" /\ \A d \in Callers \ {c, q} : pc'[d] = pc[d]
      /\ entry'[c] = currentIndex /\ attempt'[c] = 0 /\ tried'[c] = {} /\ threw'[c] = FALSE
  BY <1>1, <1>2, <1>3, <1>4 DEF Types, Alone
<1>7. /\ \A d \in Callers : Root(d) # Root(c) => Place(d)'
      /\ \A r \in Quotes : Root(r) # Root(c) => Inside(r)'
  BY <1>1, <1>2, <1>6, Strangers DEF Same, Alone, IndexStays
<1>8. Along(c, currentIndex)'
  BY <1>1, <1>2, <1>6, Ring DEF Along
<1>9. Place(c)'
  BY <1>1, <1>2, <1>4, <1>6, <1>8 DEF Place, Turn, Index, End
<1>10. Place(q)'
  BY <1>1, <1>2, <1>6 DEF Place, Turn, Index, End, Along, Active, Alone
<1>11. \A d \in Callers : Root(d) = Root(c) => d = c \/ d = q
  BY <1>1, Kin DEF c
<1>12. Inside(q)'
  <2>1. Inner[q] = c /\ entry'[q] = entry[q] /\ pc'[c] # "idle" /\ c \notin disturbed'
    BY <1>1, <1>2, <1>4, <1>6 DEF c, Alone
  <2>2. q \notin disturbed' => Along(c, entry[q])'
    BY <1>1, <1>2, <1>8, <2>1 DEF Along
  <2> QED BY <1>6, <2>1, <2>2 DEF Inside, InnerReturned, Along
<1>13. \A r \in Quotes : Root(r) = Root(c) => r = q
  BY <1>1, Roots, Nesting
<1>14. Paused' /\ Known'
  <2>1. \A d \in Callers : started'[d] <= now
    BY <1>1, <1>2 DEF Paused, Types
  <2>2. \A d \in Callers \ {c} : pc'[d] = "waiting" => pc[d] = "waiting" /\ Root(d) # Root(c)
    BY <1>1, <1>6, <1>11
  <2>3. \/ UNCHANGED <<lastCallTime, asked>>
        \/ \E p \in Providers : Ask(c, p)
    BY <1>1, <1>4
  <2> QED BY <1>1, <1>2, <1>4, <1>5, <1>6, <2>1, <2>2, <2>3, TimesKept DEF Alone
<1> QED BY <1>5, <1>7, <1>9, <1>10, <1>11, <1>12, <1>13, <1>14 DEF RpcInv

(* A step that changes no more than the place and the times of a caller.     *)
LEMMA PlaceChanges ==
  ASSUME RpcInv, NEW c \in Callers, Mover(c), Types',
         UNCHANGED <<now, up, currentIndex, started, attempt, entry, wake, tried, threw, disturbed>>,
         UNCHANGED <<lastCallTime, asked>> \/ \E p \in Providers : Ask(c, p),
         \A d \in Callers \ {c} : pc'[d] = pc[d],
         \/ pc[c] = "waiting" /\ pc'[c] = "asking"
         \/ pc[c] \in {"asking", "nested"} /\ pc'[c] = "idle"
  PROVE  RpcInv'
<1>1. /\ \A d \in Callers : Place(d)
      /\ \A q \in Quotes : Inside(q) /\ q \in Callers /\ Inner[q] \in Callers /\ Inner[q] # q
                           /\ Inner[q] \notin Quotes
      /\ Types /\ Paused /\ Known
  BY Nesting DEF RpcInv
<1>2. \A d \in Callers \ {c} : Place(d)'
  BY <1>1 DEF Place, Turn, Index, End, Along, Active
<1>3. Place(c)'
  BY <1>1 DEF Place, Turn, Index, End, Along, Active
<1>4. ASSUME NEW q \in Quotes PROVE Inside(q)'
  <2>1. CASE q = c
    <3>1. CASE pc[c] = "waiting" /\ pc'[c] = "asking"
      BY <1>1, <2>1, <3>1 DEF Inside, InnerReturned, Active
    <3>2. CASE pc[c] \in {"asking", "nested"} /\ pc'[c] = "idle"
      <4>1. pc[Inner[q]] = "idle"
        BY <1>1, <2>1, <3>2 DEF Inside, InnerReturned, Active, Types, Places, Mover
      <4> QED BY <1>1, <2>1, <3>2, <4>1 DEF Inside, InnerReturned, Active
    <3> QED BY <3>1, <3>2
  <2>2. CASE Inner[q] = c
    <3>1. threw[c] = FALSE /\ Active(c)
      BY <1>1 DEF Place, End, Types, Active
    <3> QED BY <1>1, <2>2, <3>1 DEF Inside, InnerReturned, Along, Active
  <2>3. CASE q # c /\ Inner[q] # c
    BY <1>1, <2>3 DEF Inside, InnerReturned, Along, Active
  <2> QED BY <2>1, <2>2, <2>3
<1>5. Paused' /\ Known'
  <2>1. \A d \in Callers \ {c} : pc'[d] = "waiting" => pc[d] = "waiting" /\ Root(d) # Root(c)
    BY KinQuiet
  <2>2. \A d \in Callers : started'[d] <= now
    BY <1>1 DEF Paused
  <2> QED BY <1>1, <2>1, <2>2, TimesKept
<1> QED BY <1>2, <1>3, <1>4, <1>5 DEF RpcInv

LEMMA WakeKept == ASSUME RpcInv, NEW c \in Callers, Wake(c) PROVE RpcInv'
<1>1. /\ pc[c] = "waiting" /\ pc' = [pc EXCEPT ![c] = "asking"] /\ Ask(c, entry[c])
      /\ UNCHANGED <<now, up, currentIndex, started, attempt, entry, wake, tried, threw, disturbed>>
      /\ Types /\ Mover(c) /\ entry[c] \in Providers
  BY DEF Wake, RpcInv, Mover, Types
<1>2. pc'[c] = "asking" /\ \A d \in Callers \ {c} : pc'[d] = pc[d]
  BY <1>1 DEF Types
<1>3. Types'
  <2>1. lastCallTime' \in [Providers -> Int] /\ asked' \in [Outer -> [Providers -> Int]]
    BY <1>1, Roots DEF Types, Ask
  <2> QED BY <1>1, <2>1 DEF Types, Places
<1> QED BY <1>1, <1>2, <1>3, PlaceChanges

LEMMA SucceedKept == ASSUME RpcInv, NEW c \in Callers, Succeed(c) PROVE RpcInv'
<1>1. /\ pc[c] \in {"asking", "nested"} /\ pc' = [pc EXCEPT ![c] = "idle"]
      /\ UNCHANGED <<now, up, currentIndex, lastCallTime, started, attempt, entry, wake, tried, threw,
                     disturbed, asked>>
      /\ Types /\ Mover(c)
  BY DEF Succeed, MaySucceed, InnerReturned, RpcInv, Mover, history
<1>2. pc'[c] = "idle" /\ \A d \in Callers \ {c} : pc'[d] = pc[d]
  BY <1>1 DEF Types
<1>3. Types'
  BY <1>1 DEF Types, Places
<1> QED BY <1>1, <1>2, <1>3, PlaceChanges

(* Who fails undisturbed has asked the current provider, which is not one of *)
(* those that answer every request.                                          *)
LEMMA FailsAtIndex ==
  ASSUME RpcInv, NEW c \in Callers, MayFail(c)
  PROVE  /\ Active(c) /\ entry[c] \in Providers /\ Mover(c)
         /\ c \notin disturbed => entry[c] = currentIndex /\ entry[c] \notin up
<1>1. Types /\ Place(c) /\ entry[c] \in Providers
  BY DEF RpcInv, Types
<1>2. CASE pc[c] = "asking" /\ entry[c] \notin up
  BY <1>1, <1>2 DEF Place, Index, Active, Mover
<1>3. CASE InnerReturned(c) /\ threw[Inner[c]]
  <2>1. c \in Quotes /\ Inner[c] \in Callers /\ Place(Inner[c]) /\ Inside(c) /\ pc[c] = "nested"
    BY <1>1, <1>3, Nesting DEF Place, End, InnerReturned, RpcInv
  <2>2. ASSUME c \notin disturbed PROVE entry[c] = currentIndex /\ entry[c] \notin up
    <3>1. Inner[c] \notin disturbed /\ entry[c] = currentIndex
      BY <1>3, <2>1, <2>2 DEF Inside
    <3>2. tried[Inner[c]] = Providers /\ Providers \cap up = {}
      BY <1>3, <2>1, <3>1 DEF Place, End
    <3> QED BY <1>1, <3>1, <3>2
  <2> QED BY <1>1, <1>3, <2>1, <2>2 DEF Active, Mover
<1> QED BY <1>2, <1>3 DEF MayFail

(* The rest of a step in which c fails, whatever becomes of c. *)
LEMMA FailureSpreads ==
  ASSUME RpcInv, NEW c \in Callers, MayFail(c), Types', UNCHANGED <<now, up, started>>,
         currentIndex' = Rotate(currentIndex),
         tried' = [tried EXCEPT ![c] = tried[c] \cup {entry[c]}],
         disturbed' = disturbed \cup {d \in Callers : pc[d] # "idle" /\ Root(d) # Root(c)},
         \A d \in Callers \ {c} :
             /\ pc'[d] = pc[d] /\ entry'[d] = entry[d] /\ attempt'[d] = attempt[d]
             /\ threw'[d] = threw[d] /\ wake'[d] = wake[d],
         UNCHANGED <<lastCallTime, asked>> \/ \E p \in Providers : Ask(c, p),
         pc'[c] = "waiting" => UNCHANGED asked /\ wake'[c] >= asked[Root(c)][entry'[c]] + RateGap,
         Place(c)',
         pc'[c] # "nested",
         \A q \in Quotes : c = Inner[q] => Inside(q)'
  PROVE  RpcInv'
<1>1. Types /\ Paused /\ Known /\ Mover(c) /\ \A d \in Callers : Place(d)
  BY FailsAtIndex DEF RpcInv
<1>2. \A d \in Callers \ {c} : tried'[d] = tried[d]
  BY <1>1 DEF Types
<1>3. /\ \A d \in Callers : Root(d) # Root(c) => Place(d)'
      /\ \A q \in Quotes : Root(q) # Root(c) => Inside(q)'
  BY <1>1, <1>2, Strangers DEF Same, IndexMoves
<1>4. ASSUME NEW d \in Callers, d # c, Root(d) = Root(c) PROVE Place(d)'
  <2>1. Place(d) /\ pc[d] \notin {"waiting", "asking"} /\ (d \in disturbed' <=> d \in disturbed)
    BY <1>1, <1>4, KinQuiet
  <2> QED BY <1>2, <1>4, <2>1 DEF Place, Turn, Index, End, Along, Active
<1>5. ASSUME NEW q \in Quotes, Root(q) = Root(c) PROVE Inside(q)'
  <2>1. CASE q = c
    <3>1. Inner[q] \in Callers /\ Inner[q] # c /\ Root(Inner[q]) = Root(c) /\ Inner[q] \notin Quotes
      BY <2>1, Nesting, Roots
    <3>2. pc'[Inner[q]] = "idle"
      BY <1>1, <3>1, KinQuiet
    <3> QED BY <2>1, <3>2 DEF Inside, InnerReturned, Active
  <2>2. CASE q # c
    <3>1. q \in Callers /\ c \notin Quotes
      BY <1>5, <2>2, Roots, Nesting
    <3>2. c = Inner[q]
      BY <1>5, <2>2, <3>1, Kin
    <3> QED BY <3>2
  <2> QED BY <2>1, <2>2
<1>6. Paused' /\ Known'
  <2>1. \A d \in Callers \ {c} : pc'[d] = "waiting" => pc[d] = "waiting" /\ Root(d) # Root(c)
    BY <1>1, KinQuiet
  <2>2. \A d \in Callers : started'[d] <= now
    BY <1>1 DEF Paused
  <2> QED BY <1>1, <2>1, <2>2, TimesKept
<1> QED BY <1>3, <1>4, <1>5, <1>6 DEF RpcInv

LEMMA FailKept == ASSUME RpcInv, NEW c \in Callers, Fail(c) PROVE RpcInv'
<1> DEFINE p == entry[c]
           next == Rotate(currentIndex)
<1>1. /\ MayFail(c) /\ Active(c) /\ p \in Providers /\ Mover(c)
      /\ c \notin disturbed => p = currentIndex /\ p \notin up
      /\ currentIndex \in Providers /\ next \in Providers
      /\ Types /\ Paused /\ Known /\ Place(c)
  BY FailsAtIndex, Ring DEF Fail, RpcInv, Types
<1>2. /\ UNCHANGED <<now, up, started>> /\ currentIndex' = next
      /\ tried' = [tried EXCEPT ![c] = tried[c] \cup {p}]
      /\ disturbed' = disturbed \cup {d \in Callers : pc[d] # "idle" /\ Root(d) # Root(c)}
  BY DEF Fail
<1>3. /\ tried'[c] = tried[c] \cup {p} /\ (c \in disturbed' <=> c \in disturbed)
      /\ c \notin disturbed => tried'[c] \cap up' = {}
  BY <1>1, <1>2 DEF Types, Place, End
(* Where an undisturbed call began. *)
<1>4. PICK f \in Providers :
        c \notin disturbed => /\ Along(c, f)
                              /\ \A q \in Quotes : c = Inner[q] /\ q \notin disturbed => f = entry[q]
  <2>1. CASE \E q \in Quotes : c = Inner[q] /\ q \notin disturbed
    <3>1. PICK q \in Quotes : c = Inner[q] /\ q \notin disturbed
      BY <2>1
    <3>2. \A r \in Quotes : c = Inner[r] => r = q
      BY <3>1, Roots
    <3>3. q \in Callers /\ entry[q] \in Providers /\ Along(c, entry[q])
      BY <1>1, <3>1, Nesting DEF RpcInv, Inside, Types
    <3> QED BY <3>1, <3>2, <3>3
  <2>2. CASE ~\E q \in Quotes : c = Inner[q] /\ q \notin disturbed
    <3>1. c \notin disturbed => \E f \in Providers : Along(c, f)
      BY <1>1 DEF Place, Turn
    <3> QED BY <1>1, <2>2, <3>1
  <2> QED BY <2>1, <2>2
<1>5. \A q \in Quotes : c = Inner[q] => /\ pc[q] = "nested" /\ q \in Callers /\ q # c
                                        /\ q \notin disturbed => c \notin disturbed
                                        /\ q \in disturbed' <=> q \in disturbed
  BY <1>1, <1>2, Nesting, Roots DEF RpcInv, Inside
<1>6. CASE attempt[c] + 1 < N
  <2>1. /\ BeginAttempt(pc, c, attempt[c] + 1, next, started[c]) /\ threw' = threw
        /\ started[c] \in Nat /\ started[c] <= now /\ attempt[c] + 1 \in 0..(N - 1)
        /\ attempt[c] + 1 \in Int /\ pc \in [Callers -> Places]
    BY <1>1, <1>6, RpcAssumption DEF Fail, Types, Paused
  <2> HIDE DEF next
  <2>2. /\ attempt' = [attempt EXCEPT ![c] = attempt[c] + 1] /\ entry' = [entry EXCEPT ![c] = next]
        /\ pc'[c] \in {"waiting", "asking"} /\ pc' = [pc EXCEPT ![c] = pc'[c]]
        /\ pc'[c] = "waiting" => /\ UNCHANGED <<lastCallTime, asked>>
                                 /\ wake'[c] >= asked[Root(c)][next] + RateGap
        /\ pc'[c] = "asking" => Ask(c, next)
        /\ lastCallTime' \in [Providers -> Int] /\ asked' \in [Outer -> [Providers -> Int]]
        /\ wake' \in [Callers -> Int] /\ \A d \in Callers \ {c} : wake'[d] = wake[d]
    BY <1>1, <2>1, BeginShape
  <2>3. Types'
    BY <1>1, <1>2, <2>1, <2>2 DEF Types, Places
  <2>4. entry'[c] = next /\ attempt'[c] = attempt[c] + 1 /\ threw'[c] = FALSE
    BY <1>1, <2>1, <2>2 DEF Types, Place, End, Active
  <2>5. c \notin disturbed => Along(c, f)'
    <3> SUFFICES ASSUME c \notin disturbed PROVE Along(c, f)'
      OBVIOUS
    <3>1. tried[c] = Between(f, p) /\ attempt[c] = Turns(f, p) /\ next = Rotate(p)
      BY <1>1, <1>4 DEF Along, next
    <3> QED BY <1>1, <1>3, <1>6, <2>4, <3>1, RingStep DEF Along
  <2>6. Place(c)'
    BY <1>2, <1>3, <2>2, <2>4, <2>5 DEF Place, Turn, Index, End
  <2>7. ASSUME NEW q \in Quotes, c = Inner[q] PROVE Inside(q)'
    <3>1. pc'[q] = "nested" /\ entry'[q] = entry[q] /\ pc'[c] # "idle"
      BY <1>1, <1>5, <2>2, <2>7 DEF Types
    <3>2. q \notin disturbed' => c \notin disturbed' /\ Along(c, entry[q])'
      BY <1>3, <1>4, <1>5, <2>5, <2>7, <3>1 DEF Along
    <3> QED BY <2>7, <3>1, <3>2 DEF Inside, InnerReturned, Along
  <2>8. \A d \in Callers \ {c} : /\ pc'[d] = pc[d] /\ entry'[d] = entry[d] /\ attempt'[d] = attempt[d]
                                 /\ threw'[d] = threw[d] /\ wake'[d] = wake[d]
    BY <1>1, <2>1, <2>2 DEF Types
  <2>9. /\ currentIndex' = Rotate(currentIndex)
        /\ UNCHANGED <<lastCallTime, asked>> \/ \E r \in Providers : Ask(c, r)
        /\ pc'[c] = "waiting" => UNCHANGED asked /\ wake'[c] >= asked[Root(c)][entry'[c]] + RateGap
        /\ pc'[c] # "nested"
    BY <1>1, <1>2, <2>2, <2>4 DEF next
  <2> QED BY <1>1, <1>2, <2>3, <2>6, <2>7, <2>8, <2>9, FailureSpreads
<1>7. CASE ~(attempt[c] + 1 < N)
  <2>1. /\ pc' = [pc EXCEPT ![c] = "idle"] /\ threw' = [threw EXCEPT ![c] = TRUE]
        /\ UNCHANGED <<attempt, entry, wake, lastCallTime, asked>>
    BY <1>7 DEF Fail
  <2>2. Types'
    BY <1>1, <1>2, <2>1 DEF Types, Places
  <2>3. pc'[c] = "idle" /\ threw'[c] = TRUE /\ \A d \in Callers \ {c} : pc'[d] = pc[d] /\ threw'[d] = threw[d]
    BY <1>1, <2>1 DEF Types
  <2>4. c \notin disturbed => tried'[c] = Providers /\ next = f
    <3> SUFFICES ASSUME c \notin disturbed PROVE tried'[c] = Providers /\ next = f
      OBVIOUS
    <3>1. tried[c] = Between(f, p) /\ attempt[c] = Turns(f, p) /\ next = Rotate(p)
      BY <1>1, <1>4 DEF Along
    <3> QED BY <1>1, <1>3, <1>7, <3>1, RingEnd
  <2>5. Place(c)'
    BY <1>3, <2>3, <2>4 DEF Place, Turn, Index, End, Active
  <2>6. ASSUME NEW q \in Quotes, c = Inner[q] PROVE Inside(q)'
    <3>1. pc'[q] = "nested" /\ entry'[q] = entry[q]
      BY <1>5, <2>1, <2>3, <2>6
    <3>2. q \notin disturbed' => c \notin disturbed' /\ currentIndex' = entry'[q]
      BY <1>2, <1>3, <1>4, <1>5, <2>4, <2>6, <3>1
    <3> QED BY <2>3, <2>6, <3>1, <3>2 DEF Inside, InnerReturned, Active
  <2> QED BY <1>1, <1>2, <2>1, <2>2, <2>3, <2>5, <2>6, FailureSpreads
<1> QED BY <1>6, <1>7

LEMMA GetProviderKept == ASSUME RpcInv, GetProvider PROVE RpcInv'
<1>1. currentIndex' \in Providers
  BY RpcAssumption DEF GetProvider, RpcInv, Types, Providers
<1>2. UNCHANGED <<now, up, lastCallTime, pc, started, attempt, entry, wake, tried, threw, disturbed, asked>>
  BY DEF GetProvider, callVars, history
<1>3. \A c \in Callers : pc[c] = "idle"
  BY DEF GetProvider
<1>4. Types' /\ Paused' /\ Known'
  BY <1>1, <1>2 DEF RpcInv, Types, Paused, Known
<1>5. \A c \in Callers : Place(c)'
  BY <1>2, <1>3 DEF RpcInv, Place, Turn, Index, End, Active
<1>6. \A q \in Quotes : Inside(q)'
  BY <1>2, <1>3, Nesting DEF Inside, InnerReturned, Active
<1> QED BY <1>4, <1>5, <1>6 DEF RpcInv

LEMMA QuietKept == ASSUME RpcInv, Tick \/ UNCHANGED vars PROVE RpcInv'
<1>1. /\ UNCHANGED <<up, currentIndex, lastCallTime, pc, started, attempt, entry, wake, tried, threw,
                     disturbed, asked>>
      /\ now' \in Nat /\ now <= now' /\ now \in Nat
  BY DEF Tick, vars, providerVars, callVars, history, RpcInv, Types
<1>2. Types' /\ \A c \in Callers : Place(c)'
  BY <1>1 DEF RpcInv, Types, Place, Turn, Index, End, Active, Along
<1>3. Paused' /\ Known'
  BY <1>1 DEF RpcInv, Types, Paused, Known
<1>4. \A q \in Quotes : Inside(q)'
  BY <1>1 DEF RpcInv, Inside, InnerReturned, Active, Along
<1> QED BY <1>2, <1>3, <1>4 DEF RpcInv

LEMMA NextRpc == ASSUME RpcInv, [Next]_vars PROVE RpcInv'
  BY CallKept, CallInsideKept, WakeKept, SucceedKept, FailKept, GetProviderKept, QuietKept DEF Next

(* A call() that ends in "All RPC providers failed" has asked every provider *)
(* and none answers every request, unless a call of another quote failed     *)
(* while it ran: for any number of quotes at once (arbFinder.ts:88).         *)
THEOREM ThrowTheorem == Spec => []ThrowUndisturbed
<1>1. Init => RpcInv
  BY InitRpc
<1>2. RpcInv /\ [Next]_vars => RpcInv'
  BY NextRpc
<1>3. RpcInv => ThrowUndisturbed
  <2> SUFFICES ASSUME RpcInv, NEW c \in Callers, threw[c], c \notin disturbed
               PROVE  tried[c] = Providers /\ up = {}
    BY DEF ThrowUndisturbed
  <2>1. Place(c) /\ up \subseteq Providers
    BY DEF RpcInv, Types
  <2> QED BY <2>1 DEF Place, End
<1> QED BY <1>1, <1>2, <1>3, PTL DEF Spec

(* A request is sent only when the pause after the last one of the quote to  *)
(* the same provider is over, by whichever step sends it.                    *)
LEMMA NextAsks ==
  ASSUME RpcInv, [Next]_vars, NEW c \in Callers, NEW p \in Providers, Asks(c, p)
  PROVE  now - asked[Root(c)][p] >= RateGap
<1>1. Types /\ Paused /\ Known /\ now \in Nat /\ currentIndex \in Providers
      /\ 0 \in Int /\ now <= now /\ Root(c) \in Outer
      /\ asked[Root(c)][p] \in Int /\ RateGap \in Nat /\ pc \in [Callers -> Places]
  BY RpcAssumption, Roots DEF RpcInv, Types
<1>2. ASSUME NEW d \in Callers, NEW index \in Providers, entry' = [entry EXCEPT ![d] = index],
             pc'[d] = "asking" => now - asked[Root(d)][index] >= RateGap,
             \A e \in Callers \ {d} :
                pc'[e] = "asking" => pc[e] = "asking" /\ attempt'[e] = attempt[e]
      PROVE  now - asked[Root(c)][p] >= RateGap
  <2>1. c = d
    BY <1>2 DEF Asks
  <2>2. index = p
    BY <1>1, <1>2, <2>1 DEF Asks, Types
  <2> QED BY <1>2, <2>1, <2>2 DEF Asks
<1>3. ASSUME NEW d \in Callers, Call(d) PROVE now - asked[Root(c)][p] >= RateGap
  <2>1. BeginAttempt(pc, d, 0, currentIndex, now)
    BY <1>3 DEF Call
  <2>2. /\ attempt' = [attempt EXCEPT ![d] = 0] /\ entry' = [entry EXCEPT ![d] = currentIndex]
        /\ pc' = [pc EXCEPT ![d] = pc'[d]]
        /\ pc'[d] = "asking" => now - asked[Root(d)][currentIndex] >= RateGap
    BY <1>1, <2>1, BeginShape
  <2> QED BY <1>1, <1>2, <2>2 DEF Types
<1>4. ASSUME NEW d \in Callers, CallInside(d) PROVE now - asked[Root(c)][p] >= RateGap
  <2> DEFINE pcs == [pc EXCEPT ![d] = "nested"]
             i == Inner[d]
  <2>1. /\ pcs \in [Callers -> Places]
        /\ \A e \in Callers : pcs[e] = "asking" => pc[e] = "asking"
    BY <1>1 DEF Places
  <2>2. i \in Callers /\ BeginAttempt(pcs, i, 0, currentIndex, now)
    BY <1>4, Nesting DEF CallInside
  <2> HIDE DEF pcs, i
  <2>3. /\ attempt' = [attempt EXCEPT ![i] = 0] /\ entry' = [entry EXCEPT ![i] = currentIndex]
        /\ pc' = [pcs EXCEPT ![i] = pc'[i]]
        /\ pc'[i] = "asking" => now - asked[Root(i)][currentIndex] >= RateGap
    BY <1>1, <2>1, <2>2, BeginShape
  <2>4. \A e \in Callers \ {i} : pc'[e] = "asking" => pc[e] = "asking" /\ attempt'[e] = attempt[e]
    BY <1>1, <2>1, <2>2, <2>3 DEF Types
  <2> QED BY <1>1, <1>2, <2>2, <2>3, <2>4
<1>5. ASSUME NEW d \in Callers, Wake(d) PROVE now - asked[Root(c)][p] >= RateGap
  <2>1. c = d /\ entry[d] = p
    BY <1>1, <1>5 DEF Wake, Asks, Types
  <2>2. wake[d] >= asked[Root(d)][p] + RateGap /\ now >= wake[d] /\ wake[d] \in Int
    BY <1>1, <1>5, <2>1 DEF Wake, Paused, Types
  <2> QED BY <1>1, <2>1, <2>2
<1>6. ASSUME NEW d \in Callers, Succeed(d) PROVE FALSE
  BY <1>1, <1>6 DEF Succeed, Asks, Types
<1>7. ASSUME NEW d \in Callers, Fail(d) PROVE now - asked[Root(c)][p] >= RateGap
  <2> DEFINE i == Rotate(currentIndex)
  <2>1. i \in Providers
    BY <1>1, Ring
  <2>2. CASE attempt[d] + 1 < N
    <3>1. BeginAttempt(pc, d, attempt[d] + 1, i, started[d])
      BY <1>7, <2>2 DEF Fail
    <3>2. attempt[d] + 1 \in Int /\ started[d] \in Nat /\ started[d] <= now
      BY <1>1, RpcAssumption DEF Types, Paused
    <3> HIDE DEF i
    <3>3. /\ attempt' = [attempt EXCEPT ![d] = attempt[d] + 1] /\ entry' = [entry EXCEPT ![d] = i]
          /\ pc' = [pc EXCEPT ![d] = pc'[d]]
          /\ pc'[d] = "asking" => now - asked[Root(d)][i] >= RateGap
      BY <1>1, <2>1, <3>1, <3>2, BeginShape
    <3> QED BY <1>1, <1>2, <2>1, <3>3 DEF Types
  <2>3. CASE ~(attempt[d] + 1 < N)
    BY <1>1, <1>7, <2>3 DEF Fail, Asks, Types
  <2> QED BY <2>2, <2>3
<1>8. ASSUME GetProvider \/ Tick \/ UNCHANGED vars PROVE FALSE
  BY <1>8 DEF GetProvider, Tick, vars, callVars, Asks
<1> QED BY <1>3, <1>4, <1>5, <1>6, <1>7, <1>8 DEF Next

(* No quote, with the call inside it, asks a provider twice within RateGap,  *)
(* however many quotes run at once; so at most as many requests as there are *)
(* quotes reach a provider within RateGap.                                   *)
THEOREM RateTheorem == Spec => RateLimitedPerQuote
<1> DEFINE Apart == \A c \in Callers, p \in Providers :
                       Asks(c, p) => now - asked[Root(c)][p] >= RateGap
<1>1. Init => RpcInv
  BY InitRpc
<1>2. RpcInv /\ [Next]_vars => RpcInv'
  BY NextRpc
<1>3. RpcInv /\ [Next]_vars => [Apart]_vars
  BY NextAsks
<1> QED BY <1>1, <1>2, <1>3, PTL DEF Spec, RateLimitedPerQuote
=============================================================================
