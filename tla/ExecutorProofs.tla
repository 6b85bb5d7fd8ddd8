--------------------------- MODULE ExecutorProofs ---------------------------
(* Proofs about Executor, for any deployments, any number of calls and any   *)
(* stock of WS: nothing is sent that was not simulated, the legs keep their  *)
(* order, a dry run is inert, and the executor keeps its contract.           *)
EXTENDS Executor, TLAPS

Broadcasting == {"prepare", "send", "relay", "confirm"}

Unsent(c) == ~Sent(c, 1) /\ ~Sent(c, 2)

(* What the place of the current call says about it. *)
Position ==
    /\ step \in {"quote", "build", "simulate", "balance", "prepare"} => Unsent(call)
    /\ step \in {"quote", "build"} => leg = 1
    /\ step = "simulate" /\ leg = 2 => kind[call] = "arb" /\ 1 \in simulated
    /\ step = "balance" => kind[call] = "arb" /\ Legs \subseteq simulated
    /\ step = "prepare" => leg = 1
    /\ step \in Broadcasting => ~deploy.dryRun /\ Needed(call) \subseteq simulated
    /\ step = "send" /\ leg = 1 => Unsent(call)
    /\ step = "send" /\ leg = 2 => Sent(call, 1) /\ ~Sent(call, 2) /\ kind[call] = "arb"
    /\ step \in {"relay", "confirm"} => Sent(call, 1)
    /\ step = "relay" /\ leg = 1 => ~Sent(call, 2)

(* A call that has not begun has sent nothing. *)
FutureUnsent == \A c \in Calls : c > call => Unsent(c)

Ledger == FutureUnsent /\ LegsInOrder /\ DryRunInert

Inductive == TypeOK /\ Position /\ Ledger

-----------------------------------------------------------------------------
LEMMA CallInRange == TypeOK /\ step # "idle" => call \in Calls
  BY ExecutorAssumption DEF TypeOK, Calls

(* The ledger depends on the transactions and on what the calls are. *)
LEMMA LedgerKept == Ledger /\ UNCHANGED <<deploy, call, kind, tx>> => Ledger'
  BY DEF Ledger, FutureUnsent, Unsent, LegsInOrder, DryRunInert, Sent, Mined

LEMMA InitInductive == Init => Inductive
<1> SUFFICES ASSUME Init PROVE Inductive
  OBVIOUS
<1>1. TypeOK
  BY ExecutorAssumption DEF Init, TypeOK, Steps, Legs, Statuses
<1>2. \A c \in Calls : Unsent(c)
  BY DEF Init, Unsent, Sent, Legs
<1>3. Position
  BY DEF Init, Position, Broadcasting
<1>4. Ledger
  BY <1>2 DEF Init, Ledger, FutureUnsent, LegsInOrder, DryRunInert, Unsent, Sent, Mined, Legs
<1> QED BY <1>1, <1>3, <1>4 DEF Inductive

(* A call begins where nothing has been sent. *)
LEMMA BeginInductive ==
    ASSUME Inductive, NEW k \in {"arb", "rebalance"}, NEW n \in Nat, Begin(k, n)
    PROVE  Inductive'
<1> USE DEF Inductive
<1>1. /\ step = "idle" /\ call < MaxCalls /\ call' = call + 1 /\ leg' = 1 /\ simulated' = {}
      /\ kind' = [kind EXCEPT ![call + 1] = k] /\ lots' = [lots EXCEPT ![call + 1] = n]
      /\ step' \in {"build", "quote"}
      /\ UNCHANGED <<deploy, outcome, tx, wsLots>>
  BY DEF Begin, worldVars
<1>2. call + 1 \in Calls /\ call \in Nat /\ MaxCalls \in Nat
  BY <1>1, ExecutorAssumption DEF TypeOK, Calls
<1>3. TypeOK'
  BY <1>1, <1>2 DEF TypeOK, Steps, Legs
<1>4. \A c \in Calls : c > call => Unsent(c)
  BY DEF Ledger, FutureUnsent
<1>5. Unsent(call + 1)
  BY <1>2, <1>4
<1>6. \A c \in Calls : c # call + 1 => kind'[c] = kind[c]
  BY <1>1 DEF TypeOK
<1>7. FutureUnsent'
  BY <1>1, <1>2, <1>4 DEF FutureUnsent, Unsent, Sent, Calls
<1>8. LegsInOrder'
  BY <1>1, <1>5, <1>6 DEF Ledger, LegsInOrder, Unsent, Sent, Mined
<1>9. DryRunInert'
  BY <1>1 DEF Ledger, DryRunInert, Sent
<1>10. Position'
  BY <1>1, <1>5 DEF Position, Unsent, Sent, Broadcasting
<1> QED BY <1>3, <1>7, <1>8, <1>9, <1>10 DEF Ledger

(* Where a call goes next without touching the network. *)
Quiet == UNCHANGED <<fixed, worldVars>>

LEMMA QuietInductive ==
    ASSUME Inductive, Quiet, step # "idle",
           step' \in Steps, leg' \in Legs, simulated' \subseteq Legs,
           \/ outcome' = outcome
           \/ \E s \in Statuses : outcome' = [outcome EXCEPT ![call] = s],
           Position'
    PROVE  Inductive'
<1> USE DEF Inductive
<1>1. UNCHANGED <<deploy, call, kind, lots, tx, wsLots>>
  BY DEF Quiet, fixed, worldVars
<1>2. call > 0
  BY DEF TypeOK
<1>3. outcome' \in [Calls -> Statuses]
  BY DEF TypeOK
<1>4. TypeOK'
  BY <1>1, <1>2, <1>3 DEF TypeOK
<1> QED BY <1>1, <1>4, LedgerKept

(* A call that returns is at no place any more. *)
LEMMA IdlePosition == step' = "idle" => Position'
  BY DEF Position, Broadcasting

(* A quiet step that ends the call. *)
LEMMA ReturnInductive ==
    ASSUME Inductive, Quiet, step # "idle", NEW s \in Statuses, Return(s),
           simulated' \subseteq Legs
    PROVE  Inductive'
<1>1. step' = "idle" /\ leg' = leg /\ outcome' = [outcome EXCEPT ![call] = s]
  BY DEF Return
<1>2. step' \in Steps /\ leg' \in Legs
  BY <1>1 DEF Inductive, TypeOK, Steps
<1> QED BY <1>1, <1>2, IdlePosition, QuietInductive

(* The steps before the simulation. *)
LEMMA QuoteBuildInductive ==
    ASSUME Inductive, Quote \/ Build
    PROVE  Inductive'
<1> USE DEF Inductive
<1>1. Quiet /\ step \in {"quote", "build"} /\ UNCHANGED simulated
  BY DEF Quote, Build, Quiet
<1>2. simulated' \subseteq Legs /\ leg = 1
  BY <1>1 DEF TypeOK, Position
<1>3. CASE Return("not_attempted") \/ Return("threw")
  BY <1>1, <1>2, <1>3, ReturnInductive DEF Statuses
<1>4. CASE step' \in {"build", "simulate"} /\ UNCHANGED <<leg, outcome>>
  <2>1. Unsent(call)
    BY <1>1 DEF Position
  <2>2. Position'
    BY <1>1, <1>2, <1>4, <2>1 DEF Position, Broadcasting, Quiet, fixed, worldVars, Unsent, Sent
  <2> QED BY <1>1, <1>2, <1>4, <2>2, QuietInductive DEF Steps, Legs
<1> QED BY <1>3, <1>4 DEF Quote, Build, Goto

(* The gate after a successful simulation lets only live calls through.      *)
LEMMA AfterSimulationInductive ==
    ASSUME Inductive, Quiet, step \in {"simulate", "balance"}, AfterSimulation,
           simulated' \subseteq Legs, Needed(call) \subseteq simulated'
    PROVE  Inductive'
<1> USE DEF Inductive
<1>1. CASE \E s \in {"simulated_only", "threw", "not_attempted"} : Return(s)
  BY <1>1, ReturnInductive DEF Statuses
<1>2. CASE ~deploy.dryRun /\ step' = "prepare" /\ leg' = 1 /\ UNCHANGED outcome
  <2>1. Unsent(call)
    BY DEF Position
  <2>2. Position'
    BY <1>2, <2>1 DEF Position, Broadcasting, Quiet, fixed, worldVars, Unsent, Sent, Needed
  <2> QED BY <1>2, <2>2, QuietInductive DEF Steps, Legs
<1> QED BY <1>1, <1>2 DEF AfterSimulation

LEMMA SimulationFailsInductive ==
    ASSUME Inductive, Quiet, step # "idle", SimulationFails, UNCHANGED simulated
    PROVE  Inductive'
<1>1. \E s \in {"failed", "not_attempted"} : Return(s)
  BY DEF SimulationFails
<1>2. simulated' \subseteq Legs
  BY DEF Inductive, TypeOK
<1> QED BY <1>1, <1>2, ReturnInductive DEF Statuses

(* Leg 2 is simulated after leg 1, and the call goes on with both.           *)
LEMMA SimulateLegInductive ==
    ASSUME Inductive, SimulateLeg
    PROVE  Inductive'
<1> USE DEF Inductive
<1>1. step = "simulate" /\ Quiet
  BY DEF SimulateLeg, Quiet
<1>2. CASE SimulationFails /\ UNCHANGED simulated
  BY <1>1, <1>2, SimulationFailsInductive
<1>3. CASE simulated' = simulated \cup {leg} /\ kind[call] = "rebalance" /\ AfterSimulation
  <2>1. leg = 1
    BY <1>1, <1>3 DEF Position, TypeOK, Legs
  <2>2. simulated' \subseteq Legs /\ Needed(call) \subseteq simulated'
    BY <1>3, <2>1 DEF TypeOK, Needed, Legs
  <2> QED BY <1>1, <1>3, <2>2, AfterSimulationInductive
<1>4. CASE /\ simulated' = simulated \cup {leg} /\ kind[call] # "rebalance"
           /\ step' = IF leg = 1 THEN "simulate" ELSE "balance"
           /\ leg' = 2 /\ UNCHANGED outcome
  <2>1. call \in Calls /\ kind[call] = "arb"
    BY <1>1, <1>4, CallInRange DEF TypeOK
  <2>2. leg \in Legs /\ simulated' \subseteq Legs /\ Unsent(call)
    BY <1>1, <1>4 DEF TypeOK, Position
  <2>3. Position'
    <3>1. CASE leg = 1
      BY <1>1, <1>4, <2>1, <2>2, <3>1
      DEF Position, Broadcasting, Quiet, fixed, worldVars, Unsent, Sent
    <3>2. CASE leg = 2
      <4>1. Legs \subseteq simulated'
        BY <1>1, <1>4, <3>2 DEF Position, Legs
      <4> QED BY <1>1, <1>4, <2>1, <2>2, <3>2, <4>1
              DEF Position, Broadcasting, Quiet, fixed, worldVars, Unsent, Sent
    <3> QED BY <2>2, <3>1, <3>2 DEF Legs
  <2> QED BY <1>1, <1>4, <2>2, <2>3, QuietInductive DEF Steps, Legs
<1> QED BY <1>2, <1>3, <1>4 DEF SimulateLeg, Goto

LEMMA CheckBalanceInductive ==
    ASSUME Inductive, CheckBalance
    PROVE  Inductive'
<1> USE DEF Inductive
<1>1. step = "balance" /\ Quiet /\ UNCHANGED simulated
  BY DEF CheckBalance, Quiet
<1>2. CASE SimulationFails
  BY <1>1, <1>2, SimulationFailsInductive
<1>3. CASE AfterSimulation
  <2>1. simulated' \subseteq Legs /\ Needed(call) \subseteq simulated'
    BY <1>1 DEF Position, TypeOK, Needed
  <2> QED BY <1>1, <1>3, <2>1, AfterSimulationInductive
<1> QED BY <1>2, <1>3 DEF CheckBalance

LEMMA PrepareInductive ==
    ASSUME Inductive, Prepare
    PROVE  Inductive'
<1> USE DEF Inductive
<1>1. step = "prepare" /\ Quiet /\ UNCHANGED simulated
  BY DEF Prepare, Quiet
<1>2. simulated' \subseteq Legs /\ leg = 1 /\ Unsent(call)
  BY <1>1 DEF TypeOK, Position
<1>3. CASE Return("failed")
  BY <1>1, <1>2, <1>3, ReturnInductive DEF Statuses
<1>4. CASE step' = "send" /\ UNCHANGED <<leg, outcome>>
  <2>1. Position'
    BY <1>1, <1>2, <1>4 DEF Position, Broadcasting, Quiet, fixed, worldVars, Unsent, Sent, Needed
  <2> QED BY <1>1, <1>2, <1>4, <2>1, QuietInductive DEF Steps, Legs
<1> QED BY <1>3, <1>4 DEF Prepare, Goto

(* The end of a call, whatever it has sent. *)
LEMMA EndInductive ==
    ASSUME Inductive, SendRefused \/ Confirm
    PROVE  Inductive'
<1>1. step # "idle" /\ Quiet /\ UNCHANGED simulated /\ \E s \in {"failed", "confirmed"} : Return(s)
  BY DEF SendRefused, Confirm, ReceiptFound, ConfirmTimeout, ConfirmError, Quiet
<1>2. simulated' \subseteq Legs
  BY <1>1 DEF Inductive, TypeOK
<1> QED BY <1>1, <1>2, ReturnInductive DEF Statuses

(* After leg 1 of a sequential trade comes leg 2, and otherwise the wait.    *)
LEMMA RelayAnswersInductive ==
    ASSUME Inductive, RelayAnswers
    PROVE  Inductive'
<1> USE DEF Inductive
<1>1. step = "relay" /\ Quiet /\ UNCHANGED simulated /\ NextLeg
  BY DEF RelayAnswers, Quiet
<1>2. simulated' \subseteq Legs /\ Sent(call, 1)
  BY <1>1 DEF TypeOK, Position
<1>3. /\ step' \in {"send", "confirm"} /\ leg' \in Legs /\ UNCHANGED outcome
      /\ step' = "send" => leg' = 2 /\ leg = 1 /\ kind[call] = "arb"
  BY <1>1 DEF NextLeg, Sequential, Legs
<1>4. Position'
  BY <1>1, <1>2, <1>3 DEF Position, Broadcasting, Quiet, fixed, worldVars, Unsent, Sent, Needed
<1> QED BY <1>1, <1>2, <1>3, <1>4, QuietInductive DEF Steps

(* A transaction enters the mempool: only of a live call, and in its turn.   *)
Submit ==
    /\ step = "send"
    /\ tx' = [tx EXCEPT ![call][leg] = "pending"]
    /\ UNCHANGED <<fixed, simulated, wsLots>>

LEMMA SubmitFacts ==
    ASSUME Inductive, Submit
    PROVE  /\ call \in Calls /\ leg \in Legs
           /\ ~Sent(call, leg) /\ tx'[call][leg] = "pending"
           /\ \A c \in Calls, i \in Legs :
                 c # call \/ i # leg => tx'[c][i] = tx[c][i]
           /\ tx' \in [Calls -> [Legs -> {"none", "pending", "ok", "reverted"}]]
           /\ UNCHANGED <<deploy, call, kind, lots, simulated, wsLots>>
<1> USE DEF Inductive, Submit
<1>1. call \in Calls /\ leg \in Legs
  BY CallInRange DEF TypeOK
<1>2. ~Sent(call, leg)
  BY <1>1 DEF Position, Unsent, Legs
<1>3. UNCHANGED <<deploy, call, kind, lots, simulated, wsLots>>
  BY DEF fixed
<1>4. tx' \in [Calls -> [Legs -> {"none", "pending", "ok", "reverted"}]]
  BY <1>1 DEF TypeOK
<1>5. tx'[call][leg] = "pending"
  BY <1>1 DEF TypeOK
<1>6. \A c \in Calls, i \in Legs : c # call \/ i # leg => tx'[c][i] = tx[c][i]
  BY <1>1 DEF TypeOK
<1> QED BY <1>1, <1>2, <1>3, <1>4, <1>5, <1>6

(* Whatever place the call goes to, the ledger stays in order. *)
LEMMA SubmitLedger ==
    ASSUME Inductive, Submit
    PROVE  Ledger' /\ Sent(call, 1)' /\ (leg = 1 => ~Sent(call, 2)')
<1> USE DEF Inductive, Submit
<1>1. /\ call \in Calls /\ leg \in Legs /\ tx'[call][leg] = "pending"
      /\ \A c \in Calls, i \in Legs : c # call \/ i # leg => tx'[c][i] = tx[c][i]
      /\ UNCHANGED <<deploy, call, kind>>
  BY SubmitFacts
<1>2. \A c \in Calls, i \in Legs : c # call \/ i # leg => Sent(c, i)' = Sent(c, i)
  BY <1>1 DEF Sent
<1>3. leg = 1 => Unsent(call)
  BY DEF Position
<1>4. leg = 2 => Sent(call, 1) /\ kind[call] = "arb"
  BY DEF Position
<1>5. Sent(call, 1)'
  BY <1>1, <1>2, <1>4 DEF Legs, Sent
<1>6. leg = 1 => ~Sent(call, 2)'
  BY <1>1, <1>2, <1>3 DEF Legs, Unsent
<1>7. FutureUnsent'
  <2> SUFFICES ASSUME NEW c \in Calls, c > call PROVE Unsent(c)'
    BY <1>1 DEF FutureUnsent
  <2>1. c # call /\ Unsent(c)
    BY <1>1 DEF Ledger, FutureUnsent, Calls, TypeOK
  <2> QED BY <1>2, <2>1 DEF Unsent, Legs
<1>8. LegsInOrder'
  <2> SUFFICES ASSUME NEW c \in Calls
               PROVE  /\ Sent(c, 2)' => kind[c] = "arb" /\ Sent(c, 1)'
                      /\ Mined(c, 2)' => Mined(c, 1)'
    BY <1>1 DEF LegsInOrder
  <2>1. /\ Sent(c, 2) => kind[c] = "arb" /\ Sent(c, 1)
        /\ Mined(c, 2) => Mined(c, 1)
    BY DEF Ledger, LegsInOrder
  <2>2. CASE c # call
    BY <1>1, <2>1, <2>2 DEF Sent, Mined, Legs
  <2>3. CASE c = call
    <3>1. Sent(c, 2)' => kind[c] = "arb" /\ Sent(c, 1)'
      BY <1>1, <1>4, <1>5, <1>6, <2>3 DEF Legs
    <3>2. ~Mined(c, 2)'
      <4>1. CASE leg = 1
        BY <1>1, <1>6, <2>3, <4>1 DEF Mined, Sent
      <4>2. CASE leg = 2
        BY <1>1, <2>3, <4>2 DEF Mined, TypeOK, Legs
      <4> QED BY <1>1, <4>1, <4>2 DEF Legs
    <3> QED BY <3>1, <3>2
  <2> QED BY <2>2, <2>3
<1>9. DryRunInert'
  BY <1>1 DEF Position, Broadcasting, DryRunInert
<1> QED BY <1>5, <1>6, <1>7, <1>8, <1>9 DEF Ledger

LEMMA SendAcceptedInductive ==
    ASSUME Inductive, SendAccepted
    PROVE  Inductive'
<1>1. Submit
  BY DEF SendAccepted, Submit
<1>2. Ledger' /\ Sent(call, 1)' /\ (leg = 1 => ~Sent(call, 2)')
  BY <1>1, SubmitLedger
<1>3. /\ call \in Calls /\ leg \in Legs
      /\ tx' \in [Calls -> [Legs -> {"none", "pending", "ok", "reverted"}]]
      /\ UNCHANGED <<deploy, call, kind, lots, simulated, wsLots>>
  BY <1>1, SubmitFacts
<1>4. /\ outcome' = outcome
      /\ \/ step' = "relay" /\ leg' = leg
         \/ step' = "send" /\ leg' = 2 /\ leg = 1 /\ kind[call] = "arb"
         \/ step' = "confirm" /\ leg' = 1
  BY DEF SendAccepted, Goto, NextLeg, Sequential
<1>5. TypeOK'
  BY <1>3, <1>4 DEF Inductive, TypeOK, Steps, Legs, Calls
<1>6. ~deploy.dryRun /\ Needed(call) \subseteq simulated
  BY <1>1 DEF Submit, Inductive, Position, Broadcasting
<1>7. Position'
  BY <1>2, <1>3, <1>4, <1>6 DEF Position, Broadcasting, Unsent, Needed, Sent
<1> QED BY <1>2, <1>5, <1>7 DEF Inductive

LEMMA SendAnswerLostInductive ==
    ASSUME Inductive, SendAnswerLost
    PROVE  Inductive'
<1>1. Submit
  BY DEF SendAnswerLost, Submit
<1>2. Ledger'
  BY <1>1, SubmitLedger
<1>3. /\ call \in Calls /\ leg \in Legs
      /\ tx' \in [Calls -> [Legs -> {"none", "pending", "ok", "reverted"}]]
      /\ UNCHANGED <<deploy, call, kind, lots, simulated, wsLots>>
  BY <1>1, SubmitFacts
<1>4. step' = "idle" /\ leg' = leg /\ outcome' = [outcome EXCEPT ![call] = "failed"]
  BY DEF SendAnswerLost, Return
<1>5. TypeOK'
  BY <1>3, <1>4 DEF Inductive, TypeOK, Steps, Statuses
<1> QED BY <1>2, <1>4, <1>5, IdlePosition DEF Inductive

(* Mining a transaction does not unsend it, and never overtakes leg 1.       *)
LEMMA MineInductive ==
    ASSUME Inductive, Mine
    PROVE  Inductive'
<1> USE DEF Inductive
<1>1. PICK c \in Calls, i \in Legs : MineOk(c, i) \/ MineRevert(c, i)
  BY DEF Mine
<1>2. PICK fate \in {"ok", "reverted"} : tx' = [tx EXCEPT ![c][i] = fate]
  BY <1>1 DEF MineOk, MineRevert
<1>3. tx[c][i] = "pending" /\ (i = 2 => Mined(c, 1)) /\ UNCHANGED callVars
  BY <1>1 DEF MineOk, MineRevert, Mineable
<1>4. UNCHANGED <<deploy, call, kind, lots, step, leg, simulated, outcome>>
  BY <1>3 DEF callVars
<1>5. wsLots' \in Nat
  <2>1. CASE MineRevert(c, i)
    BY <2>1 DEF MineRevert, TypeOK
  <2>2. CASE MineOk(c, i)
    <3>1. LotsAfter(c, i) \in Int
      BY DEF LotsAfter, TypeOK
    <3> QED BY <2>2, <3>1 DEF MineOk
  <2> QED BY <1>1, <2>1, <2>2
<1>6. tx' \in [Calls -> [Legs -> {"none", "pending", "ok", "reverted"}]]
  BY <1>1, <1>2 DEF TypeOK
<1>7. TypeOK'
  BY <1>4, <1>5, <1>6 DEF TypeOK
<1>8. /\ tx'[c][i] = fate
      /\ \A d \in Calls, j \in Legs : d # c \/ j # i => tx'[d][j] = tx[d][j]
  BY <1>1, <1>2 DEF TypeOK
<1>9. \A d \in Calls, j \in Legs : Sent(d, j)' = Sent(d, j)
  BY <1>2, <1>3, <1>8 DEF Sent
<1>10. FutureUnsent'
  BY <1>4, <1>9 DEF Ledger, FutureUnsent, Unsent, Legs
<1>11. DryRunInert'
  BY <1>4, <1>9 DEF Ledger, DryRunInert
<1>12. LegsInOrder'
  <2> SUFFICES ASSUME NEW d \in Calls
               PROVE  /\ Sent(d, 2)' => kind[d] = "arb" /\ Sent(d, 1)'
                      /\ Mined(d, 2)' => Mined(d, 1)'
    BY <1>4 DEF LegsInOrder
  <2>1. /\ Sent(d, 2) => kind[d] = "arb" /\ Sent(d, 1)
        /\ Mined(d, 2) => Mined(d, 1)
    BY DEF Ledger, LegsInOrder
  <2>2. Mined(d, 2)' => Mined(d, 1)'
    BY <1>2, <1>3, <1>8, <2>1 DEF Mined, Legs
  <2> QED BY <1>9, <2>1, <2>2 DEF Legs
<1>13. Position'
  <2>1. CASE step = "idle"
    BY <1>4, <2>1, IdlePosition
  <2>2. CASE step # "idle"
    <3>1. call \in Calls
      BY <2>2, CallInRange
    <3>2. leg \in Legs /\ \A j \in Legs : Sent(call, j)' = Sent(call, j)
      BY <1>4, <1>9, <3>1 DEF Sent, TypeOK
    <3> QED BY <1>4, <3>2 DEF Position, Unsent, Needed, Legs
  <2> QED BY <2>1, <2>2
<1> QED BY <1>7, <1>10, <1>11, <1>12, <1>13 DEF Ledger

LEMMA NextInductive == Inductive /\ [Next]_vars => Inductive'
<1> SUFFICES ASSUME Inductive, [Next]_vars PROVE Inductive'
  OBVIOUS
<1>1. CASE Execute
  BY <1>1, BeginInductive DEF Execute
<1>2. CASE Rebalance
  <2>1. PICK n \in 1..wsLots : Begin("rebalance", n)
    BY <1>2 DEF Rebalance
  <2>2. n \in Nat
    BY DEF Inductive, TypeOK
  <2> QED BY <2>1, <2>2, BeginInductive
<1>3. CASE Progress
  BY <1>3, QuoteBuildInductive, SimulateLegInductive, CheckBalanceInductive,
     PrepareInductive, SendAcceptedInductive, SendAnswerLostInductive, EndInductive
  DEF Progress, Confirm
<1>4. CASE ConfirmError \/ RelayAnswers
  BY <1>4, EndInductive, RelayAnswersInductive DEF Confirm
<1>5. CASE Mine
  BY <1>5, MineInductive
<1>6. CASE UNCHANGED vars
  <2>1. UNCHANGED <<deploy, call, kind, lots, step, leg, simulated, outcome, tx, wsLots>>
    BY <1>6 DEF vars, callVars, worldVars
  <2>2. TypeOK' /\ Ledger'
    BY <2>1, LedgerKept DEF Inductive, TypeOK
  <2>3. Position'
    BY <2>1 DEF Inductive, Position, Unsent, Sent, Needed
  <2> QED BY <2>2, <2>3 DEF Inductive
<1> QED BY <1>1, <1>2, <1>3, <1>4, <1>5, <1>6 DEF Next

LEMMA AlwaysInductive == Spec => []Inductive
  BY InitInductive, NextInductive, PTL DEF Spec

-----------------------------------------------------------------------------
(* The variables keep their types, and no call has a third transaction.      *)
THEOREM TypeCorrect == Spec => []TypeOK
<1>1. Inductive => TypeOK
  BY DEF Inductive
<1> QED BY <1>1, AlwaysInductive, PTL

(* A process started with DRY_RUN sends nothing (executor.ts:153-161).       *)
THEOREM DryRunTheorem == Spec => []DryRunInert
<1>1. Inductive => DryRunInert
  BY DEF Inductive, Ledger
<1> QED BY <1>1, AlwaysInductive, PTL

(* Leg 2 follows leg 1, on its way to the network and in the chain.          *)
THEOREM LegsTheorem == Spec => []LegsInOrder
<1>1. Inductive => LegsInOrder
  BY DEF Inductive, Ledger
<1> QED BY <1>1, AlwaysInductive, PTL

-----------------------------------------------------------------------------
(* What is sent was simulated. *)

(* A step leaves the transactions alone, submits one, or mines one.          *)
LEMMA TxSteps == Next => UNCHANGED tx \/ Submit \/ Mine
<1> SUFFICES ASSUME Next PROVE UNCHANGED tx \/ Submit \/ Mine
  OBVIOUS
<1>1. CASE Execute \/ Rebalance
  BY <1>1 DEF Execute, Rebalance, Begin, worldVars
<1>2. CASE Progress
  BY <1>2 DEF Progress, Quote, Build, SimulateLeg, CheckBalance, Prepare, SendAccepted,
              SendAnswerLost, SendRefused, ReceiptFound, ConfirmTimeout, Submit, worldVars
<1>3. CASE ConfirmError \/ RelayAnswers
  BY <1>3 DEF ConfirmError, RelayAnswers, worldVars
<1> QED BY <1>1, <1>2, <1>3 DEF Next

(* A transaction enters the network only when all transactions of its call   *)
(* have passed their eth_call (simulator.ts:8-9).                            *)
THEOREM SimulatedTheorem == Spec => SimulatedBeforeSent
<1>1. Inductive /\ [Next]_vars =>
        [\A c \in Calls, i \in Legs :
           ~Sent(c, i) /\ Sent(c, i)' => c = call /\ Needed(c) \subseteq simulated]_vars
  <2> SUFFICES ASSUME Inductive, Next, NEW c \in Calls, NEW i \in Legs, ~Sent(c, i), Sent(c, i)'
               PROVE  c = call /\ Needed(c) \subseteq simulated
    OBVIOUS
  <2>1. CASE UNCHANGED tx
    BY <2>1 DEF Sent
  <2>2. CASE Submit
    <3>1. c = call
      BY <2>2, SubmitFacts DEF Sent
    <3>2. Needed(call) \subseteq simulated
      BY <2>2 DEF Submit, Inductive, Position, Broadcasting
    <3> QED BY <3>1, <3>2
  <2>3. CASE Mine
    <3>1. PICK d \in Calls, j \in Legs, fate \in {"ok", "reverted"} :
            tx[d][j] = "pending" /\ tx' = [tx EXCEPT ![d][j] = fate]
      BY <2>3 DEF Mine, MineOk, MineRevert, Mineable
    <3>2. tx[c][i] # "none"
      BY <3>1 DEF Inductive, TypeOK, Sent
    <3> QED BY <3>2 DEF Sent
  <2> QED BY <2>1, <2>2, <2>3, TxSteps
<1> QED BY <1>1, AlwaysInductive, PTL DEF Spec, SimulatedBeforeSent

-----------------------------------------------------------------------------
(* The executor implements its contract. *)

Inert == {"threw", "simulated_only", "not_attempted"}

Exposed == {c \in Calls : Sent(c, 1)}
Settled == {c \in Calls : tx[c][1] = "ok"}
Verdict == [c \in Calls |->
        CASE outcome[c] \in {"threw", "simulated_only", "not_attempted"} -> "inert"
          [] OTHER -> outcome[c]]

LEMMA ContractInit == Init => Contract!Init
<1> SUFFICES ASSUME Init PROVE Contract!Init
  OBVIOUS
<1>1. Exposed = {} /\ Settled = {}
  BY DEF Init, Exposed, Settled, Sent, Legs
<1>2. Verdict = [c \in Calls |-> "none"]
  BY DEF Init, Verdict
<1> QED BY <1>1, <1>2 DEF Init, Contract!Init, Contract!Calls, Calls, Exposed, Settled, Verdict

LEMMA SameTx == UNCHANGED tx => UNCHANGED <<Exposed, Settled>>
  BY DEF Exposed, Settled, Sent

LEMMA SameOutcome == UNCHANGED outcome => UNCHANGED Verdict
  BY DEF Verdict

(* The verdict on the call that returns. *)
LEMMA VerdictOfReturn ==
    ASSUME TypeOK, call \in Calls, NEW s \in Statuses, outcome' = [outcome EXCEPT ![call] = s]
    PROVE  Verdict' = [Verdict EXCEPT ![call] = IF s \in Inert THEN "inert" ELSE s]
<1>1. \A c \in Calls : outcome'[c] = IF c = call THEN s ELSE outcome[c]
  BY DEF TypeOK
<1> QED BY <1>1 DEF Verdict, Inert

(* The steps of a call between its beginning and its end that send nothing:  *)
(* the call goes on, or returns; it returns an inert status only if nothing  *)
(* was sent, and success only if transaction 1 succeeded.                    *)
Continues == step' # "idle" /\ UNCHANGED outcome
Returns(s) ==
    /\ Return(s)
    /\ s \in Inert => Unsent(call)
    /\ s = "confirmed" => tx[call][1] = "ok"

LEMMA QuietSteps ==
    ASSUME Inductive,
           \/ Quote \/ Build \/ SimulateLeg \/ CheckBalance \/ Prepare
           \/ SendRefused \/ Confirm \/ RelayAnswers
    PROVE  /\ Quiet /\ step # "idle"
           /\ Continues \/ \E s \in Inert \cup {"failed", "confirmed"} : Returns(s)
<1>1. CASE Quote \/ Build
  BY <1>1 DEF Quote, Build, Goto, Continues, Returns, Inert, Quiet, Inductive, Position
<1>2. CASE SimulateLeg \/ CheckBalance
  <2>1. Quiet /\ step # "idle" /\ Unsent(call)
    BY <1>2 DEF SimulateLeg, CheckBalance, Quiet, Inductive, Position
  <2>2. \/ Continues
        \/ \E s \in Inert \cup {"failed"} : Return(s)
    BY <1>2 DEF SimulateLeg, CheckBalance, SimulationFails, AfterSimulation, Goto, Continues, Inert
  <2> QED BY <2>1, <2>2 DEF Returns, Inert
<1>3. CASE Prepare \/ SendRefused \/ ConfirmTimeout \/ ConfirmError
  BY <1>3 DEF Prepare, SendRefused, ConfirmTimeout, ConfirmError, Goto, Quiet, Continues,
              Returns, Inert
<1>4. CASE ReceiptFound
  BY <1>4 DEF ReceiptFound, Quiet, Returns, Inert
<1>5. CASE RelayAnswers
  BY <1>5 DEF RelayAnswers, NextLeg, Quiet, Continues
<1> QED BY <1>1, <1>2, <1>3, <1>4, <1>5 DEF Confirm

LEMMA QuietStepsKeepContract ==
    ASSUME Inductive, Quiet, step # "idle",
           Continues \/ \E s \in Inert \cup {"failed", "confirmed"} : Returns(s)
    PROVE  Contract!Next \/ UNCHANGED Contract!vars
<1>1. UNCHANGED <<call, Exposed, Settled>> /\ call \in Calls
  BY SameTx, CallInRange DEF Quiet, fixed, worldVars, Inductive
<1>2. CASE Continues
  <2>1. UNCHANGED Verdict
    BY <1>2, SameOutcome DEF Continues
  <2> QED BY <1>1, <1>2, <2>1 DEF Contract!vars, Continues, Exposed, Settled, Verdict
<1>3. CASE \E s \in Inert \cup {"failed", "confirmed"} : Returns(s)
  <2>1. PICK s \in Inert \cup {"failed", "confirmed"} : Returns(s)
    BY <1>3
  <2>2. step' = "idle" /\ outcome' = [outcome EXCEPT ![call] = s] /\ s \in Statuses
    BY <2>1 DEF Returns, Return, Statuses, Inert
  <2>3. Verdict' = [Verdict EXCEPT ![call] = IF s \in Inert THEN "inert" ELSE s]
    BY <1>1, <2>2, VerdictOfReturn DEF Inductive
  <2>4. CASE s \in Inert
    <3>1. Contract!Close("inert")
      BY <1>1, <2>2, <2>3, <2>4 DEF Contract!Close, Settled, Verdict
    <3>2. call \notin Exposed
      BY <2>1, <2>4 DEF Returns, Unsent, Exposed
    <3> QED BY <1>1, <3>1, <3>2 DEF Contract!Next, Contract!CloseInert, Exposed
  <2>5. CASE s = "failed"
    <3>1. Contract!Close("failed")
      BY <1>1, <2>2, <2>3, <2>5 DEF Contract!Close, Settled, Verdict, Inert
    <3> QED BY <1>1, <3>1 DEF Contract!Next, Contract!CloseFailed, Exposed
  <2>6. CASE s = "confirmed"
    <3>1. Contract!Close("confirmed")
      BY <1>1, <2>2, <2>3, <2>6 DEF Contract!Close, Settled, Verdict, Inert
    <3>2. call \in Settled
      BY <1>1, <2>1, <2>6 DEF Returns, Settled
    <3> QED BY <1>1, <3>1, <3>2 DEF Contract!Next, Contract!CloseConfirmed, Exposed, Settled
  <2> QED BY <2>1, <2>4, <2>5, <2>6
<1> QED BY <1>2, <1>3

(* Submitting exposes the call, in the same step in which it may fail.       *)
LEMMA SubmitKeepsContract ==
    ASSUME Inductive, SendAccepted \/ SendAnswerLost
    PROVE  Contract!Next
<1>1. Submit /\ step = "send"
  BY DEF SendAccepted, SendAnswerLost, Submit
<1>2. /\ call \in Calls /\ leg \in Legs /\ ~Sent(call, leg) /\ tx'[call][leg] = "pending"
      /\ \A c \in Calls, i \in Legs : c # call \/ i # leg => tx'[c][i] = tx[c][i]
      /\ call' = call
  BY <1>1, SubmitFacts
<1>3. Sent(call, 1)'
  BY <1>1, SubmitLedger
<1>4. Exposed' = Exposed \cup {call}
  BY <1>2, <1>3 DEF Exposed, Sent, Legs
<1>5. Settled' = Settled
  BY <1>2 DEF Settled, Sent, Legs
<1>6. CASE SendAccepted
  <2>1. step' # "idle" /\ UNCHANGED outcome
    BY <1>6 DEF SendAccepted, Goto, NextLeg
  <2>2. UNCHANGED Verdict
    BY <2>1, SameOutcome
  <2>3. Contract!Expose
    BY <1>1, <1>2, <1>4, <1>5, <2>1, <2>2 DEF Contract!Expose, Exposed, Settled, Verdict
  <2> QED BY <2>3 DEF Contract!Next
<1>7. CASE SendAnswerLost
  <2>1. step' = "idle" /\ outcome' = [outcome EXCEPT ![call] = "failed"]
    BY <1>7 DEF SendAnswerLost, Return
  <2>2. Verdict' = [Verdict EXCEPT ![call] = "failed"]
    BY <1>2, <2>1, VerdictOfReturn DEF Inductive, Statuses, Inert
  <2>3. Contract!Close("failed")
    BY <1>1, <1>2, <1>5, <2>1, <2>2 DEF Contract!Close, Settled, Verdict
  <2>4. Contract!CloseFailed
    BY <1>4, <2>3 DEF Contract!CloseFailed, Exposed
  <2> QED BY <2>4 DEF Contract!Next
<1> QED BY <1>6, <1>7

(* A successful transaction 1 settles its call; the rest of mining is not    *)
(* the contract's business.                                                  *)
LEMMA MineKeepsContract ==
    ASSUME Inductive, Mine
    PROVE  Contract!Next \/ UNCHANGED Contract!vars
<1>1. PICK c \in Calls, i \in Legs, fate \in {"ok", "reverted"} :
        tx[c][i] = "pending" /\ tx' = [tx EXCEPT ![c][i] = fate] /\ UNCHANGED callVars
  BY DEF Mine, MineOk, MineRevert, Mineable
<1>2. UNCHANGED <<call, step, outcome, Verdict>>
  BY <1>1, SameOutcome DEF callVars
<1>3. /\ tx'[c][i] = fate
      /\ \A d \in Calls, j \in Legs : d # c \/ j # i => tx'[d][j] = tx[d][j]
  BY <1>1 DEF Inductive, TypeOK
<1>4. Exposed' = Exposed
  BY <1>1, <1>3 DEF Exposed, Sent, Legs
<1>5. CASE i = 1 /\ fate = "ok"
  <2>1. Settled' = Settled \cup {c}
    BY <1>1, <1>3, <1>5 DEF Settled, Legs
  <2>2. c \in Exposed
    BY <1>1, <1>5 DEF Exposed, Sent
  <2>3. Contract!Settle(c)
    BY <1>2, <1>4, <2>1, <2>2 DEF Contract!Settle, Exposed, Settled, Verdict
  <2> QED BY <2>3 DEF Contract!Next, Contract!Calls, Calls
<1>6. CASE ~(i = 1 /\ fate = "ok")
  <2>1. Settled' = Settled
    BY <1>1, <1>3, <1>6 DEF Settled, Legs
  <2> QED BY <1>2, <1>4, <2>1 DEF Contract!vars, Exposed, Settled, Verdict
<1> QED BY <1>5, <1>6

LEMMA BeginKeepsContract ==
    ASSUME Inductive, Execute \/ Rebalance
    PROVE  Contract!Next
<1>1. /\ step = "idle" /\ step' # "idle" /\ call < MaxCalls /\ call' = call + 1
      /\ UNCHANGED <<outcome, tx>>
  BY DEF Execute, Rebalance, Begin, worldVars
<1>2. UNCHANGED <<Exposed, Settled, Verdict>>
  BY <1>1, SameTx, SameOutcome
<1>3. Contract!Open
  BY <1>1, <1>2 DEF Contract!Open, Exposed, Settled, Verdict
<1> QED BY <1>3 DEF Contract!Next

LEMMA ContractNext == Inductive /\ [Next]_vars => [Contract!Next]_Contract!vars
<1> SUFFICES ASSUME Inductive, [Next]_vars PROVE Contract!Next \/ UNCHANGED Contract!vars
  OBVIOUS
<1>1. CASE Execute \/ Rebalance
  BY <1>1, BeginKeepsContract
<1>2. CASE SendAccepted \/ SendAnswerLost
  BY <1>2, SubmitKeepsContract
<1>3. CASE \/ Quote \/ Build \/ SimulateLeg \/ CheckBalance \/ Prepare
           \/ SendRefused \/ Confirm \/ RelayAnswers
  BY <1>3, QuietSteps, QuietStepsKeepContract
<1>4. CASE Mine
  BY <1>4, MineKeepsContract
<1>5. CASE UNCHANGED vars
  <2>1. UNCHANGED <<call, step, Exposed, Settled, Verdict>>
    BY <1>5, SameTx, SameOutcome DEF vars, callVars, worldVars
  <2> QED BY <2>1 DEF Contract!vars, Exposed, Settled, Verdict
<1> QED BY <1>1, <1>2, <1>3, <1>4, <1>5 DEF Next, Progress, Confirm

(* Every behaviour of the executor is one of its contract: an inert verdict  *)
(* means an untouched network, and confirmed means executed with success.    *)
THEOREM ContractTheorem == Spec => ImplementsContract
  BY ContractInit, ContractNext, AlwaysInductive, PTL DEF Spec, ImplementsContract, Contract!Spec

-----------------------------------------------------------------------------
(* Without WS the simulation of leg 2 is never passed. *)

Stockless == wsLots = 0 /\ \A c \in Calls, i \in Legs : ~Sent(c, i)

StockInv ==
    Stockless =>
        /\ step \in {"idle", "build", "simulate"}
        /\ \A c \in Calls : kind[c] = "arb" /\ outcome[c] # "simulated_only"

(* A bot without WS and without a transaction has been so all along. *)
LEMMA StocklessBefore ==
    ASSUME Inductive, Next, Stockless'
    PROVE  Stockless /\ ~Mine
<1>1. \A c \in Calls, i \in Legs : ~Sent(c, i)'
  BY DEF Stockless
<1>2. ~Mine
  <2> SUFFICES ASSUME Mine PROVE FALSE
    OBVIOUS
  <2>1. PICK c \in Calls, i \in Legs, fate \in {"ok", "reverted"} :
          tx[c][i] = "pending" /\ tx' = [tx EXCEPT ![c][i] = fate]
    BY DEF Mine, MineOk, MineRevert, Mineable
  <2>2. tx'[c][i] = fate
    BY <2>1 DEF Inductive, TypeOK
  <2> QED BY <1>1, <2>1, <2>2 DEF Sent
<1>3. UNCHANGED tx
  <2> SUFFICES ASSUME Submit PROVE FALSE
    BY <1>2, TxSteps
  <2> QED BY <1>1, SubmitFacts DEF Sent
<1>4. UNCHANGED wsLots
  BY <1>2 DEF Next, Execute, Rebalance, Begin, Progress, Quote, Build, SimulateLeg, CheckBalance,
              Prepare, SendAccepted, SendAnswerLost, SendRefused, ReceiptFound, ConfirmTimeout,
              ConfirmError, RelayAnswers, worldVars
<1> QED BY <1>1, <1>2, <1>3, <1>4 DEF Stockless, Sent

LEMMA StockStep ==
    ASSUME Inductive, StockInv, [Next]_vars
    PROVE  StockInv'
<1> SUFFICES ASSUME Next, Stockless'
             PROVE  /\ step' \in {"idle", "build", "simulate"}
                    /\ \A c \in Calls : kind'[c] = "arb" /\ outcome'[c] # "simulated_only"
  BY DEF StockInv, Stockless, Sent, vars, callVars, worldVars
<1>1. /\ Stockless /\ ~Mine /\ wsLots = 0
      /\ step \in {"idle", "build", "simulate"}
      /\ \A c \in Calls : kind[c] = "arb" /\ outcome[c] # "simulated_only"
  BY StocklessBefore DEF StockInv, Stockless
<1>2. CASE Execute
  BY <1>1, <1>2 DEF Execute, Begin, Inductive, TypeOK
<1>3. ~Rebalance
  BY <1>1 DEF Rebalance
<1>4. CASE Build
  BY <1>1, <1>4 DEF Build, Goto, Return, fixed, Inductive, TypeOK
<1>5. CASE SimulateLeg
  <2>1. step = "simulate" /\ call \in Calls /\ kind[call] = "arb" /\ leg \in Legs
    BY <1>1, <1>5, CallInRange DEF SimulateLeg, Inductive, TypeOK
  <2>2. UNCHANGED kind
    BY <1>5 DEF SimulateLeg, fixed
  <2>3. CASE SimulationFails
    BY <1>1, <2>1, <2>2, <2>3 DEF SimulationFails, Return, Inductive, TypeOK
  <2>4. CASE CanPay(leg) /\ step' = (IF leg = 1 THEN "simulate" ELSE "balance") /\ UNCHANGED outcome
    BY <1>1, <2>1, <2>2, <2>4 DEF CanPay, Legs
  <2> QED BY <1>5, <2>1, <2>3, <2>4 DEF SimulateLeg
<1> QED
  BY <1>1, <1>2, <1>3, <1>4, <1>5 DEF Next, Progress, Quote, CheckBalance, Prepare, SendAccepted,
     SendAnswerLost, SendRefused, ReceiptFound, ConfirmTimeout, ConfirmError, RelayAnswers

(* A bot that starts without WS never trades: the simulation of leg 2 needs  *)
(* the WS that leg 1 has yet to buy (simulator.ts:97-107).                   *)
THEOREM StockTheorem == Spec => []ArbNeedsStock
<1>1. Init => StockInv
  BY DEF Init, StockInv
<1>2. StockInv => ArbNeedsStock
  BY DEF StockInv, Stockless, ArbNeedsStock
<1> QED BY <1>1, <1>2, StockStep, AlwaysInductive, PTL DEF Spec
=============================================================================
