----------------------------- MODULE Dashboard -----------------------------
(* The dashboards (ui/src) and the socket between them and the bot           *)
(* (backend/src/wsServer.ts): several operators edit one configuration and   *)
(* follow its breaker, each from a copy that may be stale.                   *)
(*                                                                           *)
(* A socket delivers in order and loses what is in flight when it breaks.    *)
(* The client reconnects by itself and then sends what was pressed while it  *)
(* was off line (socket.io's buffer; no emit here is volatile).              *)
EXTENDS Integers, Sequences, TLC

CONSTANTS
    Clients,
    Values,      \* Values[f]: what field f of the configuration may be set to
    MaxClicks,   \* bound: the number of edits, stops and resets
    MaxQueue     \* bound: messages in flight in one direction of a socket

Fields == DOMAIN Values

ASSUME DashboardAssumption ==
    /\ "autoTrade" \in Fields
    /\ Values["autoTrade"] = {"on", "off"}
    /\ MaxClicks \in Nat
    /\ MaxQueue \in Nat \ {0}

VARIABLES
    botConfig,              \* the bot's runtime configuration
    circuitBreakerTripped,  \* the bot's breaker
    connected,              \* connected[c]: whether c has a socket
    toServer,               \* toServer[c]: sent by c, or buffered, and not handled yet
    toClient,               \* toClient[c]: sent to c and not handled yet
    localConfig,            \* localConfig[c]: what the control panel of c shows
    status,                 \* status[c]: what its status bar shows, <<>> before the first
    typed,                  \* history: the last value typed for each field, in
                            \* the order in which the bot received the edits
    clicks

serverVars == <<botConfig, circuitBreakerTripped, typed>>
screenVars == <<localConfig, status>>
vars == <<serverVars, screenVars, connected, toServer, toClient, clicks>>

Unset == "unset"
Blank == [f \in Fields |-> Unset]

Configs == {cfg \in [Fields -> UNION {Values[f] : f \in Fields}] :
               \A f \in Fields : cfg[f] \in Values[f]}

Init ==
    /\ botConfig \in Configs /\ botConfig["autoTrade"] = "off"
    /\ circuitBreakerTripped = FALSE
    /\ connected = [c \in Clients |-> FALSE]
    /\ toServer = [c \in Clients |-> <<>>]
    /\ toClient = [c \in Clients |-> <<>>]
    /\ localConfig = [c \in Clients |-> Blank]
    /\ status = [c \in Clients |-> <<>>]
    /\ typed = botConfig
    /\ clicks = 0

-----------------------------------------------------------------------------
(* The socket *)

Room(queue) == Len(queue) < MaxQueue

ConfigUpdate(cfg) == [type |-> "config_update", payload |-> cfg]
Status(auto, breaker) ==
    [type |-> "status", payload |-> [autoTrade |-> auto, circuitBreaker |-> breaker]]

(* io.emit(): to all who are connected. *)
EmitToAll(msg) ==
    /\ \A c \in Clients : connected[c] => Room(toClient[c])
    /\ toClient' = [c \in Clients |->
           IF connected[c] THEN Append(toClient[c], msg) ELSE toClient[c]]

(* A new connection is sent the configuration, and no status.                *)
Connect(c) ==
    /\ ~connected[c]
    /\ connected' = [connected EXCEPT ![c] = TRUE]
    /\ toClient' = [toClient EXCEPT ![c] = <<ConfigUpdate(botConfig)>>]
    /\ UNCHANGED <<serverVars, screenVars, toServer, clicks>>

(* The socket breaks; the screen keeps what it shows. *)
Disconnect(c) ==
    /\ connected[c]
    /\ connected' = [connected EXCEPT ![c] = FALSE]
    /\ toServer' = [toServer EXCEPT ![c] = <<>>]
    /\ toClient' = [toClient EXCEPT ![c] = <<>>]
    /\ UNCHANGED <<serverVars, screenVars, clicks>>

(* The page is loaded again: nothing is on display, and nothing is buffered. *)
Reload(c) ==
    /\ connected' = [connected EXCEPT ![c] = FALSE]
    /\ toServer' = [toServer EXCEPT ![c] = <<>>]
    /\ toClient' = [toClient EXCEPT ![c] = <<>>]
    /\ localConfig' = [localConfig EXCEPT ![c] = Blank]
    /\ status' = [status EXCEPT ![c] = <<>>]
    /\ UNCHANGED <<serverVars, clicks>>

-----------------------------------------------------------------------------
(* The operator *)

Emit(c, msg) ==
    /\ clicks < MaxClicks
    /\ clicks' = clicks + 1
    /\ Room(toServer[c])
    /\ toServer' = [toServer EXCEPT ![c] = Append(@, msg)]

(* Mutant: the panel sends all it shows, and not only what was edited.       *)
UpdateOfAll(c, field, value) ==
    field :> value @@ [f \in {g \in Fields : localConfig[c][g] # Unset} |-> localConfig[c][f]]

(* What an edit sends: the field edited, alone. *)
UpdateOf(c, field, value) == [f \in {field} |-> value]

(* The switch can only be turned over; nothing on display counts as off.     *)
Choices(c, field) ==
    IF field = "autoTrade"
    THEN {IF localConfig[c]["autoTrade"] = "on" THEN "off" ELSE "on"}
    ELSE Values[field] \ {localConfig[c][field]}

(* The panel shows the new value at once. *)
HandleChange(c, field, value) ==
    /\ localConfig' = [localConfig EXCEPT ![c][field] = value]
    /\ Emit(c, [type |-> "set_config", field |-> field, update |-> UpdateOf(c, field, value)])
    /\ UNCHANGED <<serverVars, status, connected, toClient>>

Press(c, button) ==
    /\ Emit(c, [type |-> button])
    /\ UNCHANGED <<serverVars, screenVars, connected, toClient>>

-----------------------------------------------------------------------------
(* The bot *)

Merge(cfg, update) == [f \in Fields |-> IF f \in DOMAIN update THEN update[f] ELSE cfg[f]]

SetConfig(msg) ==
    /\ msg.type = "set_config"
    /\ botConfig' = Merge(botConfig, msg.update)
    /\ typed' = [typed EXCEPT ![msg.field] = msg.update[msg.field]]
    /\ EmitToAll(ConfigUpdate(botConfig'))
    /\ UNCHANGED circuitBreakerTripped

ResetBreaker(msg) ==
    /\ msg.type = "reset_breaker"
    /\ circuitBreakerTripped' = FALSE
    /\ EmitToAll(Status(botConfig["autoTrade"], FALSE))
    /\ UNCHANGED <<botConfig, typed>>

(* The status says that auto-trade is off, which it need not be.             *)
EmergencyStop(msg) ==
    /\ msg.type = "emergency_stop"
    /\ circuitBreakerTripped' = TRUE
    /\ EmitToAll(Status("off", TRUE))
    /\ UNCHANGED <<botConfig, typed>>

ServerReceives(c) ==
    /\ connected[c]
    /\ toServer[c] # <<>>
    /\ LET msg == Head(toServer[c]) IN SetConfig(msg) \/ ResetBreaker(msg) \/ EmergencyStop(msg)
    /\ toServer' = [toServer EXCEPT ![c] = Tail(@)]
    /\ UNCHANGED <<screenVars, connected, clicks>>

(* The risk manager trips the breaker; the status follows with the next scan.*)
TripCircuitBreaker ==
    /\ ~circuitBreakerTripped
    /\ circuitBreakerTripped' = TRUE
    /\ UNCHANGED <<botConfig, typed, screenVars, connected, toServer, toClient, clicks>>

(* Mutant: the status leaves the breaker out. *)
ScanEndsBreakerOut ==
    /\ EmitToAll(Status(botConfig["autoTrade"], FALSE))
    /\ UNCHANGED <<serverVars, screenVars, connected, toServer, clicks>>

(* The status at the end of a scan; one that throws ends without it.         *)
ScanEnds ==
    /\ EmitToAll(Status(botConfig["autoTrade"], circuitBreakerTripped))
    /\ UNCHANGED <<serverVars, screenVars, connected, toServer, clicks>>

-----------------------------------------------------------------------------
(* The dashboard *)

(* Mutant: a status is taken for a configuration. *)
ShowsPayload(c, msg) ==
    /\ localConfig' = [localConfig EXCEPT ![c] = msg.payload]
    /\ UNCHANGED status

(* A configuration replaces all that the panel shows, edits under way        *)
(* included; a status replaces the status bar.                               *)
Shows(c, msg) ==
    \/ /\ msg.type = "config_update"
       /\ localConfig' = [localConfig EXCEPT ![c] = msg.payload]
       /\ UNCHANGED status
    \/ /\ msg.type = "status"
       /\ status' = [status EXCEPT ![c] = <<msg.payload>>]
       /\ UNCHANGED localConfig

ClientReceives(c) ==
    /\ toClient[c] # <<>>
    /\ Shows(c, Head(toClient[c]))
    /\ toClient' = [toClient EXCEPT ![c] = Tail(@)]
    /\ UNCHANGED <<serverVars, connected, toServer, clicks>>

Next ==
    \/ \E c \in Clients :
          \/ Connect(c)
          \/ Disconnect(c)
          \/ Reload(c)
          \/ \E field \in Fields : \E value \in Choices(c, field) : HandleChange(c, field, value)
          \/ \E button \in {"reset_breaker", "emergency_stop"} : Press(c, button)
          \/ ServerReceives(c)
          \/ ClientReceives(c)
    \/ TripCircuitBreaker
    \/ ScanEnds

Spec == Init /\ [][Next]_vars

(* What arrives at a dashboard is shown.  Nothing is assumed of the scans: a *)
(* scan that throws (index.ts:119, 127) ends without a status, and one whose *)
(* relay never answers (executor.ts:386) does not end.                       *)
FairSpec == Spec /\ \A c \in Clients : WF_vars(ClientReceives(c))

-----------------------------------------------------------------------------
(* The types of the variables: what the bot holds and a panel shows is, field *)
(* by field, something that the field may be set to.                          *)
TypeOK ==
    /\ botConfig \in Configs
    /\ typed \in Configs
    /\ circuitBreakerTripped \in BOOLEAN
    /\ connected \in [Clients -> BOOLEAN]
    /\ \A c \in Clients :
          /\ Len(toServer[c]) <= MaxQueue /\ Len(toClient[c]) <= MaxQueue
          /\ \A i \in DOMAIN toServer[c] :
                toServer[c][i].type \in {"set_config", "reset_breaker", "emergency_stop"}
          /\ DOMAIN localConfig[c] = Fields
          /\ \A f \in Fields : localConfig[c][f] \in Values[f] \cup {Unset}
          /\ Len(status[c]) <= 1
          /\ ~connected[c] => toClient[c] = <<>>
    /\ clicks \in 0..MaxClicks

Quiet(c) == connected[c] /\ toServer[c] = <<>> /\ toClient[c] = <<>>

(* A dashboard with nothing in flight shows, for every field, the last value *)
(* that any operator typed: no edit is undone by another dashboard's stale   *)
(* copy, by an echo out of turn, or by a broken socket.                      *)
ScreenShowsLastEdits == \A c \in Clients : Quiet(c) => localConfig[c] = typed

(* If scans that send a status go on, the status bar of a dashboard that     *)
(* stays connected comes to show the true state again and again, although a  *)
(* new connection is sent no status, edits are not announced as one and a    *)
(* stop is announced with auto-trade off.  This is about operators who stop  *)
(* clicking at last (MaxClicks).                                             *)
StatusCatchesUp ==
    \A c \in Clients :
        <>[]connected[c] /\ []<><<ScanEnds>>_vars =>
            []<>(status[c] = <<[autoTrade |-> botConfig["autoTrade"],
                                circuitBreaker |-> circuitBreakerTripped]>>)
=============================================================================
