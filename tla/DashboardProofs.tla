--------------------------- MODULE DashboardProofs ---------------------------
(* Proofs about Dashboard, for any number of dashboards, fields and values:  *)
(* a screen with nothing in flight shows what was typed last.                *)
EXTENDS Dashboard, TLAPS

(* What may be in flight. *)
EditOf(field, value) ==
    [type |-> "set_config", field |-> field, update |-> [f \in {field} |-> value]]

Edits == UNION {{EditOf(f, v) : v \in Values[f]} : f \in Fields}
Buttons == {[type |-> b] : b \in {"reset_breaker", "emergency_stop"}}
Sent == Edits \cup Buttons

Updates == [type : {"config_update"}, payload : Configs]
StatusBars == [autoTrade : Values["autoTrade"], circuitBreaker : BOOLEAN]
Statuses == [type : {"status"}, payload : StatusBars]
Answers == Updates \cup Statuses

(* What a panel may show. *)
Panels == {cfg \in [Fields -> (UNION {Values[f] : f \in Fields}) \cup {Unset}] :
              \A f \in Fields : cfg[f] \in Values[f] \cup {Unset}}

Types ==
    /\ botConfig \in Configs /\ typed = botConfig
    /\ circuitBreakerTripped \in BOOLEAN
    /\ connected \in [Clients -> BOOLEAN]
    /\ toServer \in [Clients -> Seq(Sent)]
    /\ toClient \in [Clients -> Seq(Answers)]
    /\ localConfig \in [Clients -> Panels]
    /\ status \in [Clients -> Seq(StatusBars)]

Bounds ==
    /\ \A c \in Clients :
          /\ Len(toServer[c]) <= MaxQueue /\ Len(toClient[c]) <= MaxQueue
          /\ Len(status[c]) <= 1
          /\ ~connected[c] => toClient[c] = <<>>
    /\ clicks \in 0..MaxClicks

EditUnderWay(queue) == \E i \in 1..Len(queue) : queue[i].type = "set_config"

(* The last configuration on its way to a dashboard is that of the bot. *)
UpdateUnderWay(queue, cfg) ==
    \E i \in 1..Len(queue) :
        /\ queue[i] = ConfigUpdate(cfg)
        /\ \A j \in 1..Len(queue) : j > i => queue[j].type = "status"

OnlyStatus(queue) == \A j \in 1..Len(queue) : queue[j].type = "status"

(* A connected dashboard shows the configuration of the bot, or will do.     *)
Follows(c) ==
    \/ UpdateUnderWay(toClient[c], botConfig)
    \/ OnlyStatus(toClient[c]) /\ (localConfig[c] = botConfig \/ EditUnderWay(toServer[c]))

Following == \A c \in Clients : connected[c] => Follows(c)

Inductive == Types /\ Bounds /\ Following

-----------------------------------------------------------------------------
(* Queues *)

LEMMA AppendUpdate ==
  ASSUME NEW q \in Seq(Answers), NEW cfg \in Configs
  PROVE  UpdateUnderWay(Append(q, ConfigUpdate(cfg)), cfg)
<1> DEFINE r == Append(q, ConfigUpdate(cfg))
<1>1. Len(r) = Len(q) + 1 /\ r[Len(q) + 1] = ConfigUpdate(cfg) /\ Len(q) \in Nat
  BY DEF Answers, Updates, ConfigUpdate
<1> HIDE DEF r
<1>2. Len(r) \in 1..Len(r) /\ r[Len(r)] = ConfigUpdate(cfg)
  BY <1>1
<1>3. UpdateUnderWay(r, cfg)
  BY <1>1, <1>2 DEF UpdateUnderWay
<1> QED BY <1>3 DEF r

LEMMA AppendStatus ==
  ASSUME NEW q \in Seq(Answers), NEW s \in Statuses, NEW cfg \in Configs
  PROVE  /\ UpdateUnderWay(q, cfg) => UpdateUnderWay(Append(q, s), cfg)
         /\ OnlyStatus(q) => OnlyStatus(Append(q, s))
<1> DEFINE r == Append(q, s)
<1>1. /\ Len(r) = Len(q) + 1 /\ r[Len(q) + 1] = s /\ Len(q) \in Nat
      /\ \A i \in 1..Len(q) : r[i] = q[i]
      /\ s.type = "status"
  BY DEF Answers, Statuses
<1> HIDE DEF r
<1>2. UpdateUnderWay(q, cfg) => UpdateUnderWay(r, cfg)
  <2> SUFFICES ASSUME NEW i \in 1..Len(q), q[i] = ConfigUpdate(cfg),
                      \A j \in 1..Len(q) : j > i => q[j].type = "status"
               PROVE  /\ i \in 1..Len(r) /\ r[i] = ConfigUpdate(cfg)
                      /\ \A j \in 1..Len(r) : j > i => r[j].type = "status"
    BY DEF UpdateUnderWay
  <2> QED BY <1>1
<1>3. OnlyStatus(q) => OnlyStatus(r)
  BY <1>1 DEF OnlyStatus
<1> QED BY <1>2, <1>3 DEF r

LEMMA TailOfAnswers ==
  ASSUME NEW q \in Seq(Answers), q # <<>>, NEW cfg \in Configs
  PROVE  /\ UpdateUnderWay(q, cfg) =>
               \/ UpdateUnderWay(Tail(q), cfg)
               \/ OnlyStatus(Tail(q)) /\ Head(q) = ConfigUpdate(cfg)
         /\ OnlyStatus(q) => OnlyStatus(Tail(q)) /\ Head(q).type = "status"
<1> DEFINE r == Tail(q)
<1>1. /\ Len(r) = Len(q) - 1 /\ Len(q) \in Nat /\ Len(q) >= 1 /\ Head(q) = q[1]
      /\ \A i \in 1..Len(r) : r[i] = q[i + 1]
  OBVIOUS
<1> HIDE DEF r
<1>2. ASSUME NEW i \in 1..Len(q), q[i] = ConfigUpdate(cfg),
             \A j \in 1..Len(q) : j > i => q[j].type = "status"
      PROVE  \/ UpdateUnderWay(r, cfg)
             \/ OnlyStatus(r) /\ Head(q) = ConfigUpdate(cfg)
  <2>1. CASE i = 1
    BY <1>1, <1>2, <2>1 DEF OnlyStatus
  <2>2. CASE i # 1
    <3>1. i - 1 \in 1..Len(r) /\ r[i - 1] = ConfigUpdate(cfg)
      BY <1>1, <1>2, <2>2
    <3>2. \A j \in 1..Len(r) : j > i - 1 => r[j].type = "status"
      BY <1>1, <1>2
    <3> QED BY <3>1, <3>2 DEF UpdateUnderWay
  <2> QED BY <2>1, <2>2
<1>3. OnlyStatus(q) => OnlyStatus(r) /\ Head(q).type = "status"
  BY <1>1 DEF OnlyStatus
<1> QED BY <1>2, <1>3 DEF r, UpdateUnderWay

LEMMA AppendSent ==
  ASSUME NEW q \in Seq(Sent), NEW m \in Sent
  PROVE  /\ EditUnderWay(q) => EditUnderWay(Append(q, m))
         /\ m.type = "set_config" => EditUnderWay(Append(q, m))
<1> DEFINE r == Append(q, m)
<1>1. /\ Len(r) = Len(q) + 1 /\ r[Len(q) + 1] = m /\ Len(q) \in Nat
      /\ \A i \in 1..Len(q) : r[i] = q[i]
  OBVIOUS
<1> HIDE DEF r
<1>2. EditUnderWay(q) => EditUnderWay(r)
  BY <1>1 DEF EditUnderWay
<1>3. m.type = "set_config" => EditUnderWay(r)
  BY <1>1 DEF EditUnderWay
<1> QED BY <1>2, <1>3 DEF r

LEMMA TailOfSent ==
  ASSUME NEW q \in Seq(Sent), q # <<>>, Head(q).type # "set_config", EditUnderWay(q)
  PROVE  EditUnderWay(Tail(q))
<1> DEFINE r == Tail(q)
<1>1. /\ Len(r) = Len(q) - 1 /\ Len(q) \in Nat /\ Head(q) = q[1]
      /\ \A i \in 1..Len(r) : r[i] = q[i + 1]
  OBVIOUS
<1> HIDE DEF r
<1>2. PICK i \in 1..Len(q) : q[i].type = "set_config"
  BY DEF EditUnderWay
<1>3. i - 1 \in 1..Len(r) /\ r[i - 1] = q[i]
  BY <1>1, <1>2
<1>4. EditUnderWay(r)
  BY <1>2, <1>3 DEF EditUnderWay
<1> QED BY <1>4 DEF r

-----------------------------------------------------------------------------
(* The socket *)

LEMMA EmptyQueue ==
  /\ <<>> \in Seq(Sent) /\ <<>> \in Seq(Answers) /\ <<>> \in Seq(StatusBars)
  /\ Len(<<>>) = 0 /\ 0 <= MaxQueue /\ MaxQueue \in Nat /\ 1 <= MaxQueue
  BY DashboardAssumption

LEMMA BlankIsPanel == Blank \in Panels
<1> DEFINE T == UNION {Values[f] : f \in Fields}
<1> HIDE DEF T
<1>1. Unset \in T \cup {Unset} /\ \A f \in Fields : Unset \in Values[f] \cup {Unset}
  OBVIOUS
<1>2. Blank \in [Fields -> T \cup {Unset}] /\ \A f \in Fields : Blank[f] \in Values[f] \cup {Unset}
  BY <1>1 DEF Blank
<1> QED BY <1>2 DEF Panels, T

LEMMA InitInductive == Init => Inductive
<1> SUFFICES ASSUME Init PROVE Inductive
  OBVIOUS
<1>1. Types
  BY EmptyQueue, BlankIsPanel DEF Init, Types
<1>2. Bounds
  BY EmptyQueue, DashboardAssumption DEF Init, Bounds
<1>3. Following
  BY DEF Init, Following
<1> QED BY <1>1, <1>2, <1>3 DEF Inductive

LEMMA ConnectInductive ==
  ASSUME Inductive, NEW c \in Clients, Connect(c)
  PROVE  Inductive'
<1> DEFINE first == <<ConfigUpdate(botConfig)>>
<1>1. /\ connected' = [connected EXCEPT ![c] = TRUE] /\ toClient' = [toClient EXCEPT ![c] = first]
      /\ UNCHANGED <<botConfig, circuitBreakerTripped, typed, localConfig, status, toServer, clicks>>
  BY DEF Connect, serverVars, screenVars
<1>2. first \in Seq(Answers) /\ Len(first) = 1 /\ first[1] = ConfigUpdate(botConfig)
  BY DEF Inductive, Types, Answers, Updates, ConfigUpdate
<1> HIDE DEF first
<1>3. Types'
  BY <1>1, <1>2 DEF Inductive, Types
<1>4. Bounds'
  BY <1>1, <1>2, EmptyQueue DEF Inductive, Types, Bounds
<1>5. Following'
  <2>1. UpdateUnderWay(first, botConfig)
    BY <1>2 DEF UpdateUnderWay
  <2> SUFFICES ASSUME NEW d \in Clients, connected'[d] PROVE Follows(d)'
    BY DEF Following
  <2>2. CASE d = c
    BY <1>1, <2>1, <2>2 DEF Follows, Inductive, Types
  <2>3. CASE d # c
    BY <1>1, <2>3 DEF Follows, Inductive, Types, Following
  <2> QED BY <2>2, <2>3
<1> QED BY <1>3, <1>4, <1>5 DEF Inductive

LEMMA BreakInductive ==
  ASSUME Inductive, NEW c \in Clients, Disconnect(c) \/ Reload(c)
  PROVE  Inductive'
<1>1. /\ connected' = [connected EXCEPT ![c] = FALSE]
      /\ toServer' = [toServer EXCEPT ![c] = <<>>] /\ toClient' = [toClient EXCEPT ![c] = <<>>]
      /\ \/ UNCHANGED <<localConfig, status>>
         \/ /\ localConfig' = [localConfig EXCEPT ![c] = Blank]
            /\ status' = [status EXCEPT ![c] = <<>>]
      /\ UNCHANGED <<botConfig, circuitBreakerTripped, typed, clicks>>
  BY DEF Disconnect, Reload, serverVars, screenVars
<1>2. Types'
  BY <1>1, EmptyQueue, BlankIsPanel DEF Inductive, Types
<1>3. Bounds'
  BY <1>1, EmptyQueue DEF Inductive, Types, Bounds
<1>4. Following'
  <2> SUFFICES ASSUME NEW d \in Clients, connected'[d] PROVE Follows(d)'
    BY DEF Following
  <2>1. d # c /\ connected[d]
    BY <1>1 DEF Inductive, Types
  <2>2. UNCHANGED <<toServer[d], toClient[d], localConfig[d], botConfig>>
    BY <1>1, <2>1 DEF Inductive, Types
  <2> QED BY <2>1, <2>2 DEF Follows, Inductive, Following
<1> QED BY <1>2, <1>3, <1>4 DEF Inductive

-----------------------------------------------------------------------------
(* The operator *)

LEMMA EmitFacts ==
  ASSUME Inductive, NEW c \in Clients, NEW m \in Sent, Emit(c, m)
  PROVE  /\ toServer' \in [Clients -> Seq(Sent)]
         /\ toServer'[c] = Append(toServer[c], m)
         /\ \A d \in Clients : d # c => toServer'[d] = toServer[d]
         /\ \A d \in Clients : Len(toServer'[d]) <= MaxQueue
         /\ clicks' \in 0..MaxClicks
<1>1. toServer' = [toServer EXCEPT ![c] = Append(toServer[c], m)] /\ Len(toServer[c]) < MaxQueue
  BY DEF Emit, Room
<1>2. toServer[c] \in Seq(Sent) /\ Append(toServer[c], m) \in Seq(Sent)
  BY DEF Inductive, Types
<1>3. Len(Append(toServer[c], m)) = Len(toServer[c]) + 1 /\ Len(toServer[c]) \in Nat
  BY <1>2
<1>4. clicks' \in 0..MaxClicks
  BY DashboardAssumption DEF Emit, Inductive, Bounds
<1> QED BY <1>1, <1>2, <1>3, <1>4, EmptyQueue DEF Inductive, Types, Bounds

LEMMA HandleChangeInductive ==
  ASSUME Inductive, NEW c \in Clients, NEW field \in Fields, NEW value \in Choices(c, field),
         HandleChange(c, field, value)
  PROVE  Inductive'
<1> DEFINE m == EditOf(field, value)
<1>1. value \in Values[field]
  BY DashboardAssumption DEF Choices
<1>2. m \in Sent /\ m.type = "set_config"
  <2>1. EditOf(field, value) \in {EditOf(field, v) : v \in Values[field]}
    BY <1>1
  <2>2. m \in Edits
    BY <2>1, Zenon DEF Edits
  <2> QED BY <2>2 DEF Sent, EditOf
<1>3. /\ localConfig' = [localConfig EXCEPT ![c][field] = value]
      /\ Emit(c, m)
      /\ UNCHANGED <<botConfig, circuitBreakerTripped, typed, status, connected, toClient>>
  BY DEF HandleChange, UpdateOf, serverVars, EditOf
<1>4. localConfig' \in [Clients -> Panels]
  <2>1. [localConfig[c] EXCEPT ![field] = value] \in Panels
    BY <1>1 DEF Inductive, Types, Panels
  <2> QED BY <1>3, <2>1 DEF Inductive, Types
<1> HIDE DEF m
<1>5. Types'
  BY <1>2, <1>3, <1>4, EmitFacts DEF Inductive, Types
<1>6. Bounds'
  BY <1>2, <1>3, EmitFacts DEF Inductive, Bounds
<1>7. Following'
  <2> SUFFICES ASSUME NEW d \in Clients, connected'[d] PROVE Follows(d)'
    BY DEF Following
  <2>1. CASE d = c
    <3>1. EditUnderWay(toServer'[c])
      BY <1>2, <1>3, EmitFacts, AppendSent DEF Inductive, Types
    <3> QED BY <1>3, <2>1, <3>1 DEF Follows, Inductive, Following
  <2>2. CASE d # c
    <3>1. UNCHANGED <<toServer[d], toClient[d], localConfig[d], botConfig, connected>>
      BY <1>2, <1>3, <2>2, EmitFacts DEF Inductive, Types
    <3> QED BY <3>1 DEF Follows, Inductive, Following
  <2> QED BY <2>1, <2>2
<1> QED BY <1>5, <1>6, <1>7 DEF Inductive

LEMMA PressInductive ==
  ASSUME Inductive, NEW c \in Clients, NEW button \in {"reset_breaker", "emergency_stop"},
         Press(c, button)
  PROVE  Inductive'
<1> DEFINE m == [type |-> button]
<1>1. m \in Sent
  BY DEF Sent, Buttons
<1>2. /\ Emit(c, m)
      /\ UNCHANGED <<botConfig, circuitBreakerTripped, typed, localConfig, status, connected, toClient>>
  BY DEF Press, serverVars, screenVars
<1> HIDE DEF m
<1>3. Types'
  BY <1>1, <1>2, EmitFacts DEF Inductive, Types
<1>4. Bounds'
  BY <1>1, <1>2, EmitFacts DEF Inductive, Bounds
<1>5. Following'
  <2> SUFFICES ASSUME NEW d \in Clients, connected'[d] PROVE Follows(d)'
    BY DEF Following
  <2>1. EditUnderWay(toServer[d]) => EditUnderWay(toServer'[d])
    BY <1>1, <1>2, EmitFacts, AppendSent DEF Inductive, Types
  <2> QED BY <1>2, <2>1 DEF Follows, Inductive, Following
<1> QED BY <1>3, <1>4, <1>5 DEF Inductive

-----------------------------------------------------------------------------
(* The bot *)

LEMMA EmitToAllFacts ==
  ASSUME Inductive, NEW m \in Answers, EmitToAll(m)
  PROVE  /\ toClient' \in [Clients -> Seq(Answers)]
         /\ \A c \in Clients : connected[c] => toClient'[c] = Append(toClient[c], m)
         /\ \A c \in Clients : ~connected[c] => toClient'[c] = toClient[c]
         /\ \A c \in Clients : Len(toClient'[c]) <= MaxQueue
<1>1. \A c \in Clients : toClient[c] \in Seq(Answers) /\ Append(toClient[c], m) \in Seq(Answers)
  BY DEF Inductive, Types
<1>2. toClient' = [c \in Clients |->
                     IF connected[c] THEN Append(toClient[c], m) ELSE toClient[c]]
  BY DEF EmitToAll
<1>3. \A c \in Clients : Len(Append(toClient[c], m)) = Len(toClient[c]) + 1 /\ Len(toClient[c]) \in Nat
  <2> TAKE c \in Clients
  <2> DEFINE q == toClient[c]
  <2>1. q \in Seq(Answers)
    BY <1>1
  <2> HIDE DEF q
  <2>2. Len(Append(q, m)) = Len(q) + 1 /\ Len(q) \in Nat
    BY <2>1
  <2> QED BY <2>2 DEF q
<1>4. \A c \in Clients : connected[c] => Len(toClient[c]) + 1 <= MaxQueue
  BY <1>3, EmptyQueue DEF EmitToAll, Room
<1>5. \A c \in Clients : Len(toClient[c]) <= MaxQueue
  BY DEF Inductive, Bounds
<1> QED BY <1>1, <1>2, <1>3, <1>4, <1>5

LEMMA MergeEdit ==
  ASSUME NEW cfg \in Configs, NEW field \in Fields, NEW value \in Values[field]
  PROVE  /\ Merge(cfg, [f \in {field} |-> value]) = [cfg EXCEPT ![field] = value]
         /\ [cfg EXCEPT ![field] = value] \in Configs
<1> DEFINE S == UNION {Values[f] : f \in Fields}
<1>1. value \in S /\ cfg \in [Fields -> S] /\ \A f \in Fields : cfg[f] \in Values[f]
  BY DEF Configs
<1> HIDE DEF S
<1>2. [cfg EXCEPT ![field] = value] \in [Fields -> S]
  BY <1>1
<1>3. [cfg EXCEPT ![field] = value] \in Configs
  BY <1>1, <1>2 DEF Configs, S
<1>4. Merge(cfg, [f \in {field} |-> value]) = [cfg EXCEPT ![field] = value]
  BY <1>1 DEF Merge
<1> QED BY <1>3, <1>4

LEMMA ServerInductive ==
  ASSUME Inductive, NEW c \in Clients, ServerReceives(c)
  PROVE  Inductive'
<1> DEFINE m == Head(toServer[c])
<1>1. /\ connected[c] /\ toServer[c] # <<>>
      /\ SetConfig(m) \/ ResetBreaker(m) \/ EmergencyStop(m)
      /\ toServer' = [toServer EXCEPT ![c] = Tail(toServer[c])]
      /\ UNCHANGED <<localConfig, status, connected, clicks>>
  BY DEF ServerReceives, screenVars
<1>2. toServer[c] \in Seq(Sent)
  BY DEF Inductive, Types
<1>3. m \in Sent /\ Tail(toServer[c]) \in Seq(Sent)
      /\ Len(Tail(toServer[c])) = Len(toServer[c]) - 1 /\ Len(toServer[c]) \in Nat
  BY <1>1, <1>2
<1>4. toServer' \in [Clients -> Seq(Sent)] /\ \A d \in Clients : Len(toServer'[d]) <= MaxQueue
  BY <1>1, <1>3, EmptyQueue DEF Inductive, Types, Bounds
<1> HIDE DEF m
<1>5. CASE SetConfig(m)
  <2>1. m.type = "set_config" /\ botConfig \in Configs /\ typed = botConfig
    BY <1>5 DEF SetConfig, Inductive, Types
  <2>2. PICK field \in Fields : \E v \in Values[field] : m = EditOf(field, v)
    <3>1. m \in Edits
      BY <1>3, <2>1 DEF Sent, Buttons
    <3> QED BY <3>1, Zenon DEF Edits
  <2> PICK value \in Values[field] : m = EditOf(field, value)
    BY <2>2
  <2>3. m.update = [f \in {field} |-> value] /\ m.field = field /\ m.update[field] = value
    BY DEF EditOf
  <2>4. botConfig' = [botConfig EXCEPT ![field] = value] /\ typed' = botConfig'
    <3>1. botConfig' = Merge(botConfig, m.update) /\ typed' = [typed EXCEPT ![m.field] = m.update[m.field]]
      BY <1>5, Zenon DEF SetConfig
    <3>2. Merge(botConfig, [f \in {field} |-> value]) = [botConfig EXCEPT ![field] = value]
      BY <2>1, MergeEdit
    <3> QED BY <2>1, <2>3, <3>1, <3>2
  <2>5. botConfig' \in Configs
    BY <2>1, <2>4, MergeEdit
  <2>6. EmitToAll(ConfigUpdate(botConfig')) /\ UNCHANGED circuitBreakerTripped
    BY <1>5 DEF SetConfig
  <2>7. ConfigUpdate(botConfig') \in Answers
    BY <2>5 DEF Answers, Updates, ConfigUpdate
  <2>8. /\ toClient' \in [Clients -> Seq(Answers)]
        /\ \A d \in Clients : connected[d] => toClient'[d] = Append(toClient[d], ConfigUpdate(botConfig'))
        /\ \A d \in Clients : ~connected[d] => toClient'[d] = toClient[d]
        /\ \A d \in Clients : Len(toClient'[d]) <= MaxQueue
    BY <2>6, <2>7, EmitToAllFacts
  <2>9. Types'
    BY <1>1, <1>4, <2>4, <2>5, <2>6, <2>8 DEF Inductive, Types
  <2>10. Bounds'
    BY <1>1, <1>4, <2>8 DEF Inductive, Bounds
  <2>11. Following'
    <3> SUFFICES ASSUME NEW d \in Clients, connected[d]
                 PROVE  UpdateUnderWay(toClient'[d], botConfig')
      BY <1>1 DEF Following, Follows
    <3> QED BY <2>5, <2>8, AppendUpdate DEF Inductive, Types
  <2> QED BY <2>9, <2>10, <2>11 DEF Inductive
<1>6. CASE ResetBreaker(m) \/ EmergencyStop(m)
  <2>1. /\ m.type # "set_config" /\ circuitBreakerTripped' \in BOOLEAN
        /\ UNCHANGED <<botConfig, typed>>
    BY <1>6 DEF ResetBreaker, EmergencyStop
  <2>2. PICK s \in Statuses : EmitToAll(s)
    <3>1. botConfig["autoTrade"] \in Values["autoTrade"] /\ "off" \in Values["autoTrade"]
      BY DashboardAssumption DEF Inductive, Types, Configs
    <3>2. Status(botConfig["autoTrade"], FALSE) \in Statuses /\ Status("off", TRUE) \in Statuses
      BY <3>1 DEF Statuses, StatusBars, Status
    <3> QED BY <1>6, <3>2, Zenon DEF ResetBreaker, EmergencyStop
  <2>3. /\ toClient' \in [Clients -> Seq(Answers)]
        /\ \A d \in Clients : connected[d] => toClient'[d] = Append(toClient[d], s)
        /\ \A d \in Clients : ~connected[d] => toClient'[d] = toClient[d]
        /\ \A d \in Clients : Len(toClient'[d]) <= MaxQueue
    BY <2>2, EmitToAllFacts DEF Answers
  <2>4. Types'
    BY <1>1, <1>4, <2>1, <2>3 DEF Inductive, Types
  <2>5. Bounds'
    BY <1>1, <1>4, <2>3 DEF Inductive, Bounds
  <2>6. Following'
    <3> SUFFICES ASSUME NEW d \in Clients, connected[d] PROVE Follows(d)'
      BY <1>1 DEF Following
    <3>1. EditUnderWay(toServer[d]) => EditUnderWay(toServer'[d])
      BY <1>1, <1>2, <2>1, TailOfSent DEF m, Inductive, Types
    <3>2. /\ UpdateUnderWay(toClient[d], botConfig) => UpdateUnderWay(toClient'[d], botConfig)
          /\ OnlyStatus(toClient[d]) => OnlyStatus(toClient'[d])
      BY <2>2, <2>3, AppendStatus DEF Inductive, Types
    <3> QED BY <1>1, <2>1, <3>1, <3>2 DEF Follows, Inductive, Following
  <2> QED BY <2>4, <2>5, <2>6 DEF Inductive
<1> QED BY <1>1, <1>5, <1>6

(* A scan that ends announces a status; a trip announces nothing. *)
LEMMA ScanInductive ==
  ASSUME Inductive, ScanEnds
  PROVE  Inductive'
<1> DEFINE s == Status(botConfig["autoTrade"], circuitBreakerTripped)
<1>1. EmitToAll(s)
      /\ UNCHANGED <<botConfig, circuitBreakerTripped, typed, localConfig, status, connected, toServer, clicks>>
  BY DEF ScanEnds, serverVars, screenVars
<1>2. s \in Statuses
  <2>1. botConfig["autoTrade"] \in Values["autoTrade"] /\ circuitBreakerTripped \in BOOLEAN
    BY DashboardAssumption DEF Inductive, Types, Configs
  <2> QED BY <2>1 DEF Statuses, StatusBars, Status
<1> HIDE DEF s
<1>3. /\ toClient' \in [Clients -> Seq(Answers)]
      /\ \A d \in Clients : connected[d] => toClient'[d] = Append(toClient[d], s)
      /\ \A d \in Clients : ~connected[d] => toClient'[d] = toClient[d]
      /\ \A d \in Clients : Len(toClient'[d]) <= MaxQueue
  BY <1>1, <1>2, EmitToAllFacts DEF Answers
<1>4. Types' /\ Bounds'
  BY <1>1, <1>3 DEF Inductive, Types, Bounds
<1>5. Following'
  <2> SUFFICES ASSUME NEW d \in Clients, connected[d] PROVE Follows(d)'
    BY <1>1 DEF Following
  <2>1. /\ UpdateUnderWay(toClient[d], botConfig) => UpdateUnderWay(toClient'[d], botConfig)
        /\ OnlyStatus(toClient[d]) => OnlyStatus(toClient'[d])
    BY <1>2, <1>3, AppendStatus DEF Inductive, Types
  <2> QED BY <1>1, <2>1 DEF Follows, Inductive, Following
<1> QED BY <1>4, <1>5 DEF Inductive

LEMMA SameInductive ==
  ASSUME Inductive, TripCircuitBreaker \/ UNCHANGED vars
  PROVE  Inductive'
<1>1. /\ circuitBreakerTripped' \in BOOLEAN
      /\ UNCHANGED <<botConfig, typed, localConfig, status, connected, toServer, toClient, clicks>>
  BY DEF TripCircuitBreaker, vars, serverVars, screenVars, Inductive, Types
<1>2. Types' /\ Bounds'
  BY <1>1 DEF Inductive, Types, Bounds
<1>3. Following'
  BY <1>1 DEF Inductive, Following, Follows
<1> QED BY <1>2, <1>3 DEF Inductive

-----------------------------------------------------------------------------
(* The dashboard *)

LEMMA ClientInductive ==
  ASSUME Inductive, NEW c \in Clients, ClientReceives(c)
  PROVE  Inductive'
<1> DEFINE q == toClient[c]
           m == Head(q)
<1>1. /\ q # <<>> /\ Shows(c, m) /\ toClient' = [toClient EXCEPT ![c] = Tail(q)]
      /\ UNCHANGED <<botConfig, circuitBreakerTripped, typed, connected, toServer, clicks>>
  BY DEF ClientReceives, serverVars
<1>2. q \in Seq(Answers)
  BY DEF Inductive, Types
<1> HIDE DEF q
<1>3. m \in Answers /\ Tail(q) \in Seq(Answers) /\ Len(Tail(q)) = Len(q) - 1 /\ Len(q) \in Nat
  BY <1>1, <1>2
<1> HIDE DEF m
<1>4. /\ toClient'[c] = Tail(q) /\ toClient' \in [Clients -> Seq(Answers)]
      /\ \A d \in Clients : d # c => toClient'[d] = toClient[d]
      /\ \A d \in Clients : Len(toClient'[d]) <= MaxQueue
      /\ \A d \in Clients : ~connected[d] => toClient'[d] = <<>>
  BY <1>1, <1>3, EmptyQueue DEF Inductive, Types, Bounds, q
<1>5. \/ /\ m.type = "config_update" /\ m.payload \in Configs
         /\ localConfig' = [localConfig EXCEPT ![c] = m.payload] /\ UNCHANGED status
      \/ /\ m.type = "status" /\ m.payload \in StatusBars
         /\ status' = [status EXCEPT ![c] = <<m.payload>>] /\ UNCHANGED localConfig
  BY <1>1, <1>3 DEF Shows, Answers, Updates, Statuses
<1>6. Types'
  <2>1. m.payload \in Configs => m.payload \in Panels
    BY DEF Configs, Panels
  <2>2. m.payload \in StatusBars => <<m.payload>> \in Seq(StatusBars)
    OBVIOUS
  <2> QED BY <1>1, <1>4, <1>5, <2>1, <2>2 DEF Inductive, Types
<1>7. Bounds'
  <2>1. Len(<<m.payload>>) = 1
    OBVIOUS
  <2>2. \A d \in Clients : Len(status'[d]) <= 1
    <3>1. CASE UNCHANGED status
      BY <3>1 DEF Inductive, Bounds
    <3>2. CASE status' = [status EXCEPT ![c] = <<m.payload>>]
      BY <2>1, <3>2 DEF Inductive, Types, Bounds
    <3> QED BY <1>5, <3>1, <3>2
  <2> QED BY <1>1, <1>4, <2>2 DEF Inductive, Bounds
<1>8. Following'
  <2> SUFFICES ASSUME NEW d \in Clients, connected[d] PROVE Follows(d)'
    BY <1>1 DEF Following
  <2>1. CASE d # c
    <3>1. UNCHANGED <<localConfig[d], toClient[d], toServer[d], botConfig>>
      BY <1>1, <1>4, <1>5, <2>1 DEF Inductive, Types
    <3> QED BY <3>1 DEF Follows, Inductive, Following
  <2>2. CASE d = c
    <3>1. CASE UpdateUnderWay(q, botConfig)
      <4>1. CASE UpdateUnderWay(Tail(q), botConfig)
        BY <1>1, <1>4, <2>2, <4>1 DEF Follows
      <4>2. CASE OnlyStatus(Tail(q)) /\ m = ConfigUpdate(botConfig)
        <5>1. localConfig'[c] = botConfig
          BY <1>5, <4>2 DEF ConfigUpdate, Inductive, Types
        <5> QED BY <1>1, <1>4, <2>2, <4>2, <5>1 DEF Follows
      <4> QED BY <1>1, <1>2, <3>1, <4>1, <4>2, TailOfAnswers DEF Inductive, Types, m
    <3>2. CASE OnlyStatus(q) /\ (localConfig[c] = botConfig \/ EditUnderWay(toServer[c]))
      <4>1. OnlyStatus(Tail(q)) /\ m.type = "status"
        BY <1>1, <1>2, <3>2, TailOfAnswers DEF Inductive, Types, m
      <4>2. UNCHANGED localConfig
        BY <1>5, <4>1
      <4> QED BY <1>1, <1>4, <2>2, <3>2, <4>1, <4>2 DEF Follows
    <3> QED BY <2>2, <3>1, <3>2 DEF Follows, Inductive, Following, q
  <2> QED BY <2>1, <2>2
<1> QED BY <1>6, <1>7, <1>8 DEF Inductive

-----------------------------------------------------------------------------
LEMMA NextInductive == Inductive /\ [Next]_vars => Inductive'
<1> SUFFICES ASSUME Inductive, [Next]_vars PROVE Inductive'
  OBVIOUS
<1>1. ASSUME NEW c \in Clients, Connect(c) \/ Disconnect(c) \/ Reload(c) PROVE Inductive'
  BY <1>1, ConnectInductive, BreakInductive
<1>2. ASSUME NEW c \in Clients, NEW field \in Fields, NEW value \in Choices(c, field),
             HandleChange(c, field, value)
      PROVE  Inductive'
  BY <1>2, HandleChangeInductive
<1>3. ASSUME NEW c \in Clients, NEW button \in {"reset_breaker", "emergency_stop"}, Press(c, button)
      PROVE  Inductive'
  BY <1>3, PressInductive
<1>4. ASSUME NEW c \in Clients, ServerReceives(c) PROVE Inductive'
  BY <1>4, ServerInductive
<1>5. ASSUME NEW c \in Clients, ClientReceives(c) PROVE Inductive'
  BY <1>5, ClientInductive
<1>6. CASE ScanEnds
  BY <1>6, ScanInductive
<1>7. CASE TripCircuitBreaker \/ UNCHANGED vars
  BY <1>7, SameInductive
<1> QED BY <1>1, <1>2, <1>3, <1>4, <1>5, <1>6, <1>7 DEF Next

LEMMA AlwaysInductive == Spec => []Inductive
  BY InitInductive, NextInductive, PTL DEF Spec

(* The variables keep their types: what the bot holds for a field and what a *)
(* panel shows for it is something the field may be set to.                  *)
THEOREM TypeCorrect == Spec => []TypeOK
<1>1. Inductive => TypeOK
  <2> SUFFICES ASSUME Inductive PROVE TypeOK
    OBVIOUS
  <2>1. ASSUME NEW c \in Clients
        PROVE  /\ \A i \in DOMAIN toServer[c] :
                     toServer[c][i].type \in {"set_config", "reset_breaker", "emergency_stop"}
               /\ DOMAIN localConfig[c] = Fields
               /\ \A f \in Fields : localConfig[c][f] \in Values[f] \cup {Unset}
    <3>1. toServer[c] \in Seq(Sent) /\ localConfig[c] \in Panels
      BY DEF Inductive, Types
    <3>2. \A m \in Sent : m.type \in {"set_config", "reset_breaker", "emergency_stop"}
      <4>1. \A m \in Edits : m.type = "set_config"
        <5> SUFFICES ASSUME NEW f \in Fields, NEW v \in Values[f] PROVE EditOf(f, v).type = "set_config"
          BY Zenon DEF Edits
        <5> QED BY DEF EditOf
      <4>2. \A m \in Buttons : m.type \in {"reset_breaker", "emergency_stop"}
        BY DEF Buttons
      <4> QED BY <4>1, <4>2 DEF Sent
    <3>3. \A i \in DOMAIN toServer[c] : toServer[c][i] \in Sent
      BY <3>1
    <3> QED BY <3>1, <3>2, <3>3 DEF Panels
  <2> QED BY <2>1 DEF Inductive, Types, Bounds, TypeOK
<1> QED BY <1>1, AlwaysInductive, PTL

(* No edit is lost from the screens, whoever made it and whatever broke in   *)
(* between: the bot answers each edit with the whole configuration, to all   *)
(* (wsServer.ts:119-128), and each new connection with it (:112-117).        *)
THEOREM ScreenTheorem == Spec => []ScreenShowsLastEdits
<1>1. Inductive => ScreenShowsLastEdits
  <2> SUFFICES ASSUME Inductive, NEW c \in Clients, Quiet(c) PROVE localConfig[c] = typed
    BY DEF ScreenShowsLastEdits
  <2>1. connected[c] /\ Len(toServer[c]) = 0 /\ Len(toClient[c]) = 0
    BY EmptyQueue DEF Quiet
  <2>2. ~UpdateUnderWay(toClient[c], botConfig) /\ ~EditUnderWay(toServer[c])
    BY <2>1 DEF UpdateUnderWay, EditUnderWay
  <2> QED BY <2>1, <2>2 DEF Inductive, Types, Following, Follows
<1> QED BY <1>1, AlwaysInductive, PTL
=============================================================================
