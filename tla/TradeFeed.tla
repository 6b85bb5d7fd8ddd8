----------------------------- MODULE TradeFeed -----------------------------
(* The trades on a dashboard's page (ui/src/pages/Dashboard.tsx): announced  *)
(* over the socket (wsServer.ts:58), written to the table (index.ts:137),    *)
(* and read back once, by the request that the page sends when it is loaded  *)
(* (index.ts:80).  The two ways run side by side, so both may bring a trade, *)
(* or neither.  One page is enough: pages have nothing in common but the     *)
(* announcements.  Trades are numbered in the order they are announced,      *)
(* which is that of created_at.                                              *)
EXTENDS Integers, Sequences, SequencesExt, FiniteSetsExt

CONSTANTS
    FetchLimit,   \* rows that /trades answers with (50)
    ListLimit,    \* trades that a page keeps (100)
    TableLimit,   \* trades that its table shows (50)
    ChartLimit,   \* points of its chart (60)
    Failed,       \* trades that failed; the others are confirmed, or simulated only
    MaxTrades,    \* bound: trades that are announced
    MaxQueue      \* bound: announcements in flight

ASSUME TradeFeedAssumption ==
    /\ {FetchLimit, ListLimit, TableLimit, ChartLimit, MaxQueue} \subseteq Nat \ {0}
    /\ FetchLimit <= ListLimit
    /\ MaxTrades \in Nat
    /\ Failed \subseteq 1..MaxTrades

Trades == 1..MaxTrades

VARIABLES
    lastTrade,   \* the trades 1..lastTrade have been announced
    saving,      \* the trade that is being inserted, 0 if none
    table,       \* the trades in the database
    connected,   \* the page's socket
    toPage,      \* announcements on their way to the page
    fetch,       \* the page's request: "asked", "answered", "done"
    rows,        \* its answer, on the way
    trades,      \* the page's list, newest first
    pnlData,     \* the points of its chart, oldest first
    activeTab,   \* "opportunities" or "trades"
    blank,       \* rendering threw, and React has removed the page
    excused      \* history: trades that the page cannot know of, see NothingElseMissing

botVars == <<lastTrade, saving, table>>
socketVars == <<connected, toPage>>
fetchVars == <<fetch, rows>>
listVars == <<trades, pnlData>>
vars == <<botVars, socketVars, fetchVars, listVars, activeTab, blank, excused>>

(* An entry of the list: a record of the socket has the fields that the page *)
(* reads, a row has the column names of the database (net_profit_usd).       *)
Entry(t, source) == [id |-> t, source |-> source]

Announced == 1..lastTrade

Init ==
    /\ lastTrade = 0 /\ saving = 0 /\ table = {}
    /\ connected = FALSE /\ toPage = <<>>
    /\ fetch = "asked" /\ rows = <<>>
    /\ trades = <<>> /\ pnlData = <<>>
    /\ activeTab = "opportunities" /\ blank = FALSE
    /\ excused = {}

-----------------------------------------------------------------------------
(* The bot.  The loop awaits the insert before it goes on. *)

BroadcastTrade ==
    LET t == lastTrade + 1
    IN  /\ saving = 0 /\ lastTrade < MaxTrades
        /\ lastTrade' = t
        /\ saving' = t
        /\ connected => Len(toPage) < MaxQueue
        /\ toPage' = IF connected THEN Append(toPage, t) ELSE toPage
        /\ excused' = IF connected THEN excused ELSE excused \cup {t}
        /\ UNCHANGED <<table, connected, fetchVars, listVars, activeTab, blank>>

(* The row is there, or the error is logged and the row is lost.             *)
InsertTrade ==
    /\ saving # 0
    /\ table' \in {table, table \cup {saving}}
    /\ saving' = 0
    /\ UNCHANGED <<lastTrade, socketVars, fetchVars, listVars,
                   activeTab, blank, excused>>

InFlight == ToSet(toPage)
Break == connected' = FALSE /\ toPage' = <<>> /\ excused' = excused \cup InFlight

(* A new process: the insert under way is given up. *)
Restart ==
    /\ Break
    /\ saving' = 0
    /\ UNCHANGED <<lastTrade, table, fetchVars, listVars, activeTab, blank>>

Keep(limit, list) == SubSeq(list, 1, Min({limit, Len(list)}))
KeepLast(limit, list) == SubSeq(list, Max({1, Len(list) - limit + 1}), Len(list))

(* ORDER BY created_at DESC LIMIT FetchLimit. *)
IsNewest(list, set) ==
    /\ \A i, j \in DOMAIN list : i < j => list[i] > list[j]
    /\ \A t \in set \ ToSet(list) :
          Len(list) = FetchLimit /\ \A i \in DOMAIN list : list[i] > t

(* GET /trades.  A failed query is answered with an empty list. *)
GetTrades ==
    /\ fetch = "asked"
    /\ fetch' = "answered"
    /\ \E list \in BoundedSeq(table, FetchLimit) :
          IsNewest(list, table) /\ rows' \in {<<>>, list}
    /\ UNCHANGED <<botVars, socketVars, listVars, activeTab, blank, excused>>

-----------------------------------------------------------------------------
(* The page *)

(* The table calls a method of a field that a row does not have.             *)
RenderThrows(tab, list) ==
    tab = "trades" /\ \E i \in DOMAIN list : i <= TableLimit /\ list[i].source = "row"

(* Without an error boundary the whole page goes, and its socket with it.    *)
Render(queue) ==
    /\ blank' = RenderThrows(activeTab', trades')
    /\ connected' = (connected /\ ~blank')
    /\ toPage' = IF blank' THEN <<>> ELSE queue

Connect ==
    /\ ~connected /\ ~blank
    /\ connected' = TRUE
    /\ UNCHANGED <<botVars, toPage, fetchVars, listVars, activeTab, blank, excused>>

Disconnect ==
    /\ connected
    /\ Break
    /\ UNCHANGED <<botVars, fetchVars, listVars, activeTab, blank>>

Reload ==
    /\ connected' = FALSE /\ toPage' = <<>>
    /\ fetch' = "asked" /\ rows' = <<>>
    /\ trades' = <<>> /\ pnlData' = <<>>
    /\ activeTab' = "opportunities" /\ blank' = FALSE
    /\ excused' = Announced
    /\ UNCHANGED botVars

(* Mutant: the list keeps its oldest entries. *)
ListedLast(t) == Keep(ListLimit, Append(trades, Entry(t, "socket")))

(* Mutant: the list grows without a limit. *)
ListedAll(t) == <<Entry(t, "socket")>> \o trades

Listed(t) == Keep(ListLimit, <<Entry(t, "socket")>> \o trades)

(* Mutant: the chart keeps its oldest points. *)
DrawnFirst(t) == Keep(ChartLimit, Append(pnlData, t))

Drawn(t) == KeepLast(ChartLimit, Append(pnlData, t))

OnTrade ==
    LET t == Head(toPage)
    IN  /\ toPage # <<>>
        /\ trades' = Listed(t)
        /\ pnlData' = IF t \in Failed THEN pnlData ELSE Drawn(t)
        /\ UNCHANGED <<botVars, fetchVars, activeTab, excused>>
        /\ Render(Tail(toPage))

Ids(list) == {list[i].id : i \in DOMAIN list}

(* Mutant: the answer is put before what the page has. *)
AnswerAdded(list) == Keep(ListLimit, list \o trades)

(* The answer takes the place of all that the page has.                      *)
AnswerShown(list) == list

Answered ==
    /\ fetch = "answered" /\ ~blank
    /\ fetch' = "done" /\ rows' = <<>>
    /\ trades' = AnswerShown([i \in DOMAIN rows |-> Entry(rows[i], "row")])
    /\ excused' = Announced \ (InFlight \cup ToSet(rows))
    /\ UNCHANGED <<botVars, pnlData, activeTab>>
    /\ Render(toPage)

FetchFails ==
    /\ fetch # "done"
    /\ fetch' = "done" /\ rows' = <<>>
    /\ UNCHANGED <<botVars, socketVars, listVars, activeTab, blank, excused>>

SetActiveTab ==
    /\ ~blank
    /\ activeTab' \in {"opportunities", "trades"} \ {activeTab}
    /\ UNCHANGED <<botVars, fetchVars, listVars, excused>>
    /\ Render(toPage)

Next ==
    \/ BroadcastTrade
    \/ InsertTrade
    \/ Restart
    \/ GetTrades
    \/ Connect
    \/ Disconnect
    \/ Reload
    \/ OnTrade
    \/ Answered
    \/ FetchFails
    \/ SetActiveTab

Spec == Init /\ [][Next]_vars
-----------------------------------------------------------------------------
Sources == {"socket", "row"}

(* The types of the variables, and the limits of the lists.                  *)
TypeOK ==
    /\ lastTrade \in 0..MaxTrades
    /\ table \subseteq Announced /\ excused \subseteq Announced
    /\ saving \in {0, lastTrade}
    /\ connected \in BOOLEAN /\ blank \in BOOLEAN
    /\ toPage \in Seq(Trades) /\ Len(toPage) <= MaxQueue /\ (~connected => toPage = <<>>)
    /\ fetch \in {"asked", "answered", "done"}
    /\ rows \in Seq(Trades) /\ Len(rows) <= FetchLimit
    /\ trades \in Seq([id : Trades, source : Sources]) /\ Len(trades) <= ListLimit
    /\ pnlData \in Seq(Trades) /\ Len(pnlData) <= ChartLimit
    /\ activeTab \in {"opportunities", "trades"}

Quiet == connected /\ toPage = <<>> /\ fetch = "done"
Full == Len(trades) = ListLimit

(* A page with nothing in flight lists every trade there was, but for those  *)
(* older than all of a full list, and but for the excused: announced when    *)
(* the page was not loaded or its socket was down, or announced before the   *)
(* answer of /trades took the list's place (Dashboard.tsx:58), and in either *)
(* case not among the rows of that answer.                                   *)
NothingElseMissing ==
    Quiet => \A t \in Announced \ (excused \cup Ids(trades)) :
                 Full /\ \A u \in Ids(trades) : t < u

(* The list is newest first, as its headings promise, within what came over  *)
(* the socket and within what came from the table, and the former comes      *)
(* before the latter: a trade is listed at most twice, once from each.       *)
ListInOrder ==
    \A i, j \in DOMAIN trades : i < j =>
        IF trades[i].source = trades[j].source
        THEN trades[i].id > trades[j].id
        ELSE trades[i].source = "socket"

(* The chart forgets nothing that the list still has from the socket, unless *)
(* it is full of newer trades, although the list is replaced and it is not.  *)
ChartHasListed ==
    \A i \in DOMAIN trades :
        LET t == trades[i].id
        IN  trades[i].source = "socket" /\ t \notin Failed =>
                \/ t \in ToSet(pnlData)
                \/ Len(pnlData) = ChartLimit /\ \A k \in DOMAIN pnlData : pnlData[k] > t
=============================================================================
