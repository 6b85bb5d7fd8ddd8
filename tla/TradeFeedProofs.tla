--------------------------- MODULE TradeFeedProofs ---------------------------
(* Theorems about the trades on a dashboard's page, for lists, charts and    *)
(* answers of any length, and any number of trades.                          *)
EXTENDS TradeFeed, SequenceTheorems, TLAPS

Increasing(q) == \A i, j \in DOMAIN q : i < j => q[i] < q[j]

(* Announcements arrive in order, and none is overtaken: what was announced  *)
(* after one that is still on its way is on its way too.                     *)
Stream ==
    /\ Increasing(toPage)
    /\ InFlight \subseteq Announced
    /\ \A s \in InFlight, n \in Announced : s < n => n \in InFlight

Rows ==
    /\ \A i, j \in DOMAIN rows : i < j => rows[i] > rows[j]
    /\ ToSet(rows) \subseteq Announced

(* What the page shows from the socket is older than what is on its way.     *)
FromSocket(t) == \E i \in DOMAIN trades : trades[i].id = t /\ trades[i].source = "socket"
Behind ==
    /\ Ids(trades) \subseteq Announced
    /\ \A t \in Ids(trades), n \in InFlight : FromSocket(t) => t < n

Chart ==
    /\ ToSet(pnlData) \subseteq Announced
    /\ \A t \in ToSet(pnlData), n \in InFlight : t < n
    /\ Increasing(pnlData)

(* A row that is newer than something the socket brings is brought by it     *)
(* too, unless it is excused: what the limit drops from the end of the list  *)
(* is older than all that stays.                                             *)
Streamed(t) == FromSocket(t) \/ t \in InFlight
RowsFollow ==
    \A i \in DOMAIN trades, s \in Announced :
       trades[i].source = "row" /\ Streamed(s) /\ s < trades[i].id =>
          Streamed(trades[i].id) \/ trades[i].id \in excused

(* NothingElseMissing, while announcements are on their way. *)
Missing ==
    \A t \in Announced \ excused :
       \/ t \in Ids(trades) \cup InFlight
       \/ Full /\ \A u \in Ids(trades) : t < u

FeedInv ==
    /\ TypeOK
    /\ blank => ~connected
    /\ Stream /\ Rows /\ Behind /\ ListInOrder
    /\ Chart /\ ChartHasListed
    /\ ~blank => RowsFollow /\ Missing

-----------------------------------------------------------------------------
(* What the limits leave of the list and of the chart. *)

Listing == [id : Trades, source : Sources]

LEMMA Constants ==
  /\ FetchLimit \in Nat \ {0} /\ ListLimit \in Nat \ {0} /\ TableLimit \in Nat \ {0}
  /\ ChartLimit \in Nat \ {0} /\ MaxQueue \in Nat \ {0}
  /\ FetchLimit <= ListLimit /\ MaxTrades \in Nat
  BY TradeFeedAssumption

LEMMA OfTwo ==
  ASSUME NEW a \in Int, NEW b \in Int
  PROVE  /\ Min({a, b}) = IF a <= b THEN a ELSE b
         /\ Max({a, b}) = IF a >= b THEN a ELSE b
<1>1. CASE a <= b
  BY <1>1 DEF Min, Max
<1>2. CASE ~(a <= b)
  BY <1>2 DEF Min, Max
<1> QED BY <1>1, <1>2

LEMMA ListedShape ==
  ASSUME TypeOK, NEW t \in Trades
  PROVE  /\ Listed(t) \in Seq(Listing)
         /\ Len(Listed(t)) = (IF Full THEN ListLimit ELSE Len(trades) + 1)
         /\ Len(Listed(t)) \in 1..ListLimit /\ Len(Listed(t)) <= Len(trades) + 1
         /\ Listed(t)[1] = Entry(t, "socket")
         /\ \A i \in 2..Len(Listed(t)) : Listed(t)[i] = trades[i - 1]
<1> DEFINE all == <<Entry(t, "socket")>> \o trades
           n == Min({ListLimit, Len(all)})
<1>1. trades \in Seq(Listing) /\ Len(trades) \in Nat /\ Len(trades) <= ListLimit
  BY LenProperties DEF TypeOK, Listing
<1>2. Entry(t, "socket") \in Listing
  BY DEF Entry, Listing, Sources
<1>3. /\ <<Entry(t, "socket")>> \in Seq(Listing) /\ Len(<<Entry(t, "socket")>>) = 1
      /\ <<Entry(t, "socket")>>[1] = Entry(t, "socket")
  <2>1. <<Entry(t, "socket")>> = Append(<<>>, Entry(t, "socket"))
    OBVIOUS
  <2> QED BY <1>2, <2>1, EmptySeq, AppendProperties
<1>4. /\ all \in Seq(Listing) /\ Len(all) = Len(trades) + 1
      /\ all[1] = Entry(t, "socket")
      /\ \A i \in 2..(Len(trades) + 1) : all[i] = trades[i - 1]
  <2>1. /\ all \in Seq(Listing) /\ Len(all) = 1 + Len(trades)
        /\ \A i \in 1..(1 + Len(trades)) :
              all[i] = IF i <= 1 THEN <<Entry(t, "socket")>>[i] ELSE trades[i - 1]
    BY <1>1, <1>3, ConcatProperties
  <2> QED BY <1>1, <1>3, <2>1
<1>5. n = (IF Full THEN ListLimit ELSE Len(trades) + 1)
  <2>1. ListLimit \in Int /\ Len(all) \in Int
    BY <1>1, <1>4, Constants
  <2>2. n = IF ListLimit <= Len(all) THEN ListLimit ELSE Len(all)
    BY <2>1, OfTwo, Zenon
  <2> HIDE DEF n
  <2> QED BY <1>1, <1>4, <2>2, Constants DEF Full
<1>6. n \in 1..ListLimit /\ n <= Len(trades) + 1
  BY <1>1, <1>5, Constants DEF Full
<1>7. Listed(t) = SubSeq(all, 1, n)
  BY DEF Listed, Keep
<1>8. \A i \in 1..n : all[i] \in Listing
  BY <1>1, <1>4, <1>6, ElementOfSeq
<1> HIDE DEF all, n
<1>9. /\ SubSeq(all, 1, n) \in Seq(Listing) /\ Len(SubSeq(all, 1, n)) = n
      /\ \A i \in 1..n : SubSeq(all, 1, n)[i] = all[i]
  BY <1>6, <1>8, SubSeqProperties, Constants
<1> QED BY <1>1, <1>4, <1>5, <1>6, <1>7, <1>9, Constants

LEMMA DrawnShape ==
  ASSUME TypeOK, NEW t \in Trades
  PROVE  /\ Drawn(t) \in Seq(Trades)
         /\ \E k \in {0, 1} :
               /\ k = (IF Len(pnlData) = ChartLimit THEN 1 ELSE 0)
               /\ Len(Drawn(t)) = Len(pnlData) + 1 - k
               /\ Drawn(t)[Len(Drawn(t))] = t
               /\ \A i \in 1..(Len(Drawn(t)) - 1) : Drawn(t)[i] = pnlData[i + k]
<1> DEFINE all == Append(pnlData, t)
           m == Max({1, Len(all) - ChartLimit + 1})
           k == IF Len(pnlData) = ChartLimit THEN 1 ELSE 0
<1>1. pnlData \in Seq(Trades) /\ Len(pnlData) \in Nat /\ Len(pnlData) <= ChartLimit
  BY LenProperties DEF TypeOK
<1>2. /\ all \in Seq(Trades) /\ Len(all) = Len(pnlData) + 1 /\ all[Len(pnlData) + 1] = t
      /\ \A i \in 1..Len(pnlData) : all[i] = pnlData[i]
  BY <1>1, AppendProperties
<1>3. k \in {0, 1} /\ k \in Int /\ m = k + 1 /\ k < Len(pnlData) + 1
  <2>1. Len(all) - ChartLimit + 1 \in Int /\ Len(all) - ChartLimit + 1 = Len(pnlData) - ChartLimit + 2
    BY <1>1, <1>2, Constants
  <2>2. 1 \in Int
    OBVIOUS
  <2>3. m = IF 1 >= Len(all) - ChartLimit + 1 THEN 1 ELSE Len(all) - ChartLimit + 1
    BY <2>1, <2>2, OfTwo, Zenon
  <2> HIDE DEF m
  <2> QED BY <1>1, <2>1, <2>3, Constants
<1>4. Drawn(t) = SubSeq(all, k + 1, Len(pnlData) + 1)
  BY <1>2, <1>3 DEF Drawn, KeepLast
<1>5. \A i \in (k + 1)..(Len(pnlData) + 1) : all[i] \in Trades
  BY <1>1, <1>2, <1>3, ElementOfSeq
<1> HIDE DEF all, m
<1>6. /\ Drawn(t) \in Seq(Trades) /\ Len(Drawn(t)) = Len(pnlData) + 1 - k
      /\ \A i \in 1..(Len(pnlData) + 1 - k) : Drawn(t)[i] = all[k + i]
  <2> HIDE DEF k
  <2>1. /\ SubSeq(all, k + 1, Len(pnlData) + 1) \in Seq(Trades)
        /\ Len(SubSeq(all, k + 1, Len(pnlData) + 1)) =
              IF k + 1 <= Len(pnlData) + 1 THEN Len(pnlData) + 1 - (k + 1) + 1 ELSE 0
        /\ \A i \in 1..(Len(pnlData) + 1 - (k + 1) + 1) :
              SubSeq(all, k + 1, Len(pnlData) + 1)[i] = all[k + 1 + i - 1]
    BY <1>1, <1>3, <1>5, SubSeqProperties
  <2> QED BY <1>1, <1>3, <1>4, <2>1
<1>7. Drawn(t)[Len(Drawn(t))] = t /\ \A i \in 1..(Len(Drawn(t)) - 1) : Drawn(t)[i] = pnlData[i + k]
  <2> HIDE DEF k
  <2> QED BY <1>1, <1>2, <1>3, <1>6
<1> QED BY <1>3, <1>6, <1>7

-----------------------------------------------------------------------------
(* The queue of announcements. *)

LEMMA Appended ==
  ASSUME NEW q \in Seq(Trades), NEW t \in Trades
  PROVE  /\ Append(q, t) \in Seq(Trades) /\ Len(Append(q, t)) = Len(q) + 1
         /\ ToSet(Append(q, t)) = ToSet(q) \cup {t}
         /\ Increasing(q) /\ (\A n \in ToSet(q) : n < t) => Increasing(Append(q, t))
<1>1. q \in [1..Len(q) -> Trades] /\ Len(q) \in Nat /\ DOMAIN q = 1..Len(q)
  BY LenProperties
<1>2. /\ Append(q, t) \in Seq(Trades) /\ Len(Append(q, t)) = Len(q) + 1
      /\ \A i \in 1..Len(q) : Append(q, t)[i] = q[i]
      /\ Append(q, t)[Len(q) + 1] = t
  BY AppendProperties
<1>3. DOMAIN Append(q, t) = 1..(Len(q) + 1)
  BY <1>2, LenProperties
<1>4. ToSet(Append(q, t)) = ToSet(q) \cup {t}
  BY <1>1, <1>2, <1>3 DEF ToSet
<1>5. ASSUME Increasing(q), \A n \in ToSet(q) : n < t PROVE Increasing(Append(q, t))
  <2> SUFFICES ASSUME NEW i \in 1..(Len(q) + 1), NEW j \in 1..(Len(q) + 1), i < j
               PROVE  Append(q, t)[i] < Append(q, t)[j]
    BY <1>3 DEF Increasing
  <2>1. i \in 1..Len(q) /\ Append(q, t)[i] = q[i] /\ q[i] \in ToSet(q)
    BY <1>1, <1>2 DEF ToSet
  <2>2. CASE j \in 1..Len(q)
    BY <1>1, <1>2, <1>5, <2>1, <2>2 DEF Increasing
  <2>3. CASE j = Len(q) + 1
    BY <1>2, <1>5, <2>1, <2>3
  <2> QED BY <1>1, <2>2, <2>3
<1> QED BY <1>2, <1>4, <1>5

LEMMA Popped ==
  ASSUME NEW q \in Seq(Trades), q # <<>>, Increasing(q)
  PROVE  /\ Head(q) \in Trades /\ Head(q) \in ToSet(q)
         /\ Tail(q) \in Seq(Trades) /\ Len(Tail(q)) = Len(q) - 1
         /\ ToSet(Tail(q)) = ToSet(q) \ {Head(q)}
         /\ \A n \in ToSet(Tail(q)) : Head(q) < n
         /\ Increasing(Tail(q))
<1>1. /\ q \in [1..Len(q) -> Trades] /\ Len(q) \in Nat \ {0} /\ DOMAIN q = 1..Len(q)
      /\ Head(q) = q[1] /\ Trades \subseteq Int
  BY LenProperties, EmptySeq, Constants DEF Trades
<1>2. /\ Tail(q) \in Seq(Trades) /\ Len(Tail(q)) = Len(q) - 1
      /\ \A i \in 1..(Len(q) - 1) : Tail(q)[i] = q[i + 1]
  BY HeadTailProperties
<1>3. DOMAIN Tail(q) = 1..(Len(q) - 1)
  BY <1>2, LenProperties
<1>4. \A i \in 1..(Len(q) - 1) : q[1] < q[i + 1]
  BY <1>1 DEF Increasing
<1>5. \A n \in ToSet(Tail(q)) : n \in ToSet(q) /\ q[1] < n
  BY <1>1, <1>2, <1>3, <1>4 DEF ToSet
<1>6. ASSUME NEW n \in ToSet(q), n # q[1] PROVE n \in ToSet(Tail(q))
  <2>1. PICK i \in 1..Len(q) : q[i] = n
    BY <1>1 DEF ToSet
  <2>2. i - 1 \in 1..(Len(q) - 1) /\ Tail(q)[i - 1] = n
    BY <1>1, <1>2, <1>6, <2>1
  <2> QED BY <1>3, <2>2 DEF ToSet
<1>7. q[1] \notin ToSet(Tail(q))
  <2>1. q[1] \in Trades
    BY <1>1
  <2>2. q[1] \in Int
    BY <1>1, <2>1
  <2>3. ~(q[1] < q[1])
    BY <2>2
  <2> QED BY <1>5, <2>3
<1>8. Increasing(Tail(q))
  BY <1>1, <1>2, <1>3 DEF Increasing
<1>9. Head(q) \in Trades /\ Head(q) \in ToSet(q)
  BY <1>1 DEF ToSet
<1> QED BY <1>1, <1>2, <1>5, <1>6, <1>7, <1>8, <1>9

LEMMA NoneLeft == ToSet(<<>>) = {} /\ Increasing(<<>>) /\ <<>> \in Seq(Trades) /\ Len(<<>>) = 0
  BY EmptySeq DEF ToSet, Increasing

-----------------------------------------------------------------------------
(* Steps that leave the list alone. *)

LEMMA InitFeed == Init => FeedInv
<1> SUFFICES ASSUME Init PROVE FeedInv
  OBVIOUS
<1>1. /\ lastTrade = 0 /\ saving = 0 /\ table = {} /\ connected = FALSE /\ toPage = <<>>
      /\ fetch = "asked" /\ rows = <<>> /\ trades = <<>> /\ pnlData = <<>>
      /\ activeTab = "opportunities" /\ blank = FALSE /\ excused = {}
  BY DEF Init
<1>2. Announced = {} /\ DOMAIN trades = {} /\ trades \in Seq([id : Trades, source : Sources])
  BY <1>1, EmptySeq DEF Announced
<1>3. TypeOK
  <2>1. /\ lastTrade \in 0..MaxTrades /\ table \subseteq Announced /\ excused \subseteq Announced
        /\ saving \in {0, lastTrade}
        /\ fetch \in {"asked", "answered", "done"} /\ activeTab \in {"opportunities", "trades"}
    BY <1>1, Constants
  <2>3. connected \in BOOLEAN /\ blank \in BOOLEAN
    BY <1>1, Zenon
  <2>2. /\ toPage \in Seq(Trades) /\ Len(toPage) <= MaxQueue
        /\ rows \in Seq(Trades) /\ Len(rows) <= FetchLimit
        /\ Len(trades) <= ListLimit
        /\ pnlData \in Seq(Trades) /\ Len(pnlData) <= ChartLimit
    <3>1. /\ toPage \in Seq(Trades) /\ rows \in Seq(Trades) /\ pnlData \in Seq(Trades)
          /\ Len(toPage) = 0 /\ Len(rows) = 0 /\ Len(trades) = 0 /\ Len(pnlData) = 0
      BY <1>1, NoneLeft, Zenon
    <3> QED BY <3>1, Constants
  <2> QED BY <1>1, <1>2, <2>1, <2>2, <2>3 DEF TypeOK
<1>4. Stream /\ Rows /\ Behind /\ ListInOrder /\ Chart /\ ChartHasListed /\ RowsFollow /\ Missing
  BY <1>1, <1>2, NoneLeft
  DEF Stream, Rows, Behind, ListInOrder, Chart, ChartHasListed, RowsFollow, Missing, InFlight, Ids
<1> QED BY <1>1, <1>3, <1>4 DEF FeedInv

LEMMA Unmoved ==
  ASSUME FeedInv, UNCHANGED <<lastTrade, toPage, listVars, blank, excused>>,
         TypeOK', Rows', blank' => ~connected'
  PROVE  FeedInv'
<1>1. UNCHANGED <<lastTrade, toPage, trades, pnlData, blank, excused>>
  BY DEF listVars
<1>2. /\ Stream' /\ Behind' /\ ListInOrder' /\ Chart' /\ ChartHasListed'
      /\ ~blank' => RowsFollow' /\ Missing'
  BY <1>1 DEF FeedInv, Stream, Behind, ListInOrder, Chart, ChartHasListed, RowsFollow, Missing,
     Announced, InFlight, Ids, FromSocket, Streamed, Full
<1> QED BY <1>2 DEF FeedInv

LEMMA StutterKept == ASSUME FeedInv, UNCHANGED vars PROVE FeedInv'
<1>1. UNCHANGED <<lastTrade, saving, table, connected, toPage, fetch, rows, trades, pnlData,
                  activeTab, blank, excused>>
  BY DEF vars, botVars, socketVars, fetchVars, listVars
<1>2. TypeOK' /\ Rows' /\ (blank' => ~connected')
  BY <1>1 DEF FeedInv, TypeOK, Rows, Announced
<1> QED BY <1>1, <1>2, Unmoved DEF listVars

LEMMA InsertTradeKept == ASSUME FeedInv, InsertTrade PROVE FeedInv'
<1>1. /\ UNCHANGED <<lastTrade, connected, toPage, fetch, rows, trades, pnlData, activeTab, blank, excused>>
      /\ saving # 0 /\ saving' = 0 /\ table' \in {table, table \cup {saving}}
  BY DEF InsertTrade, socketVars, fetchVars, listVars
<1>2. saving \in Announced
  BY <1>1, Constants DEF FeedInv, TypeOK, Announced
<1>3. TypeOK' /\ Rows' /\ (blank' => ~connected')
  BY <1>1, <1>2 DEF FeedInv, TypeOK, Rows, Announced
<1> QED BY <1>1, <1>3, Unmoved DEF listVars

LEMMA GetTradesKept == ASSUME FeedInv, GetTrades PROVE FeedInv'
<1>1. /\ UNCHANGED <<lastTrade, saving, table, connected, toPage, trades, pnlData, activeTab, blank, excused>>
      /\ fetch' = "answered"
  BY DEF GetTrades, botVars, socketVars, listVars
<1>2. PICK list \in BoundedSeq(table, FetchLimit) :
         IsNewest(list, table) /\ rows' \in {<<>>, list}
  BY DEF GetTrades
<1>3. PICK n \in 0..FetchLimit : list \in [1..n -> table]
  BY DEF BoundedSeq, SeqOf
<1>4. table \subseteq Trades /\ table \subseteq Announced
  BY Constants DEF FeedInv, TypeOK, Announced, Trades
<1>5. list \in Seq(Trades) /\ Len(list) = n
  BY <1>3, <1>4, Constants
<1>6. ToSet(list) \subseteq Announced /\ \A i, j \in DOMAIN list : i < j => list[i] > list[j]
  BY <1>2, <1>3, <1>4 DEF IsNewest, ToSet
<1>7. rows' \in Seq(Trades) /\ Len(rows') <= FetchLimit /\ Rows'
  <2>1. CASE rows' = <<>>
    BY <2>1, NoneLeft, Constants DEF Rows
  <2>2. CASE rows' = list
    BY <1>1, <1>3, <1>5, <1>6, <2>2, Constants DEF Rows, Announced
  <2> QED BY <1>2, <2>1, <2>2
<1>8. TypeOK' /\ (blank' => ~connected')
  BY <1>1, <1>7 DEF FeedInv, TypeOK, Announced
<1> QED BY <1>1, <1>7, <1>8, Unmoved DEF listVars

LEMMA ConnectKept == ASSUME FeedInv, Connect PROVE FeedInv'
<1>1. /\ UNCHANGED <<lastTrade, saving, table, toPage, fetch, rows, trades, pnlData, activeTab,
                     blank, excused>>
      /\ connected' = TRUE /\ ~blank
  BY DEF Connect, botVars, fetchVars, listVars
<1>2. TypeOK' /\ Rows' /\ (blank' => ~connected')
  BY <1>1 DEF FeedInv, TypeOK, Rows, Announced
<1> QED BY <1>1, <1>2, Unmoved DEF listVars

LEMMA FetchFailsKept == ASSUME FeedInv, FetchFails PROVE FeedInv'
<1>1. /\ UNCHANGED <<lastTrade, saving, table, connected, toPage, trades, pnlData, activeTab, blank, excused>>
      /\ fetch' = "done" /\ rows' = <<>>
  BY DEF FetchFails, botVars, socketVars, listVars
<1>2. TypeOK' /\ (blank' => ~connected')
  BY <1>1, NoneLeft, Constants DEF FeedInv, TypeOK, Announced
<1>3. Rows'
  BY <1>1, NoneLeft DEF Rows
<1> QED BY <1>1, <1>2, <1>3, Unmoved DEF listVars

LEMMA BroadcastTradeKept == ASSUME FeedInv, BroadcastTrade PROVE FeedInv'
<1> DEFINE t == lastTrade + 1
<1>1. /\ lastTrade < MaxTrades /\ lastTrade' = t /\ saving' = t
      /\ UNCHANGED <<table, connected, fetch, rows, trades, pnlData, activeTab, blank>>
  BY DEF BroadcastTrade, fetchVars, listVars
<1>2. /\ connected => Len(toPage) < MaxQueue /\ toPage' = Append(toPage, t) /\ excused' = excused
      /\ ~connected => toPage' = toPage /\ excused' = excused \cup {t}
  BY DEF BroadcastTrade
<1>3. TypeOK /\ Stream /\ Rows /\ Behind /\ ListInOrder /\ Chart /\ ChartHasListed
  BY DEF FeedInv
<1>4. t \in Trades /\ Announced' = Announced \cup {t} /\ t \notin Announced /\ \A n \in Announced : n < t
  BY <1>1, <1>3, Constants DEF TypeOK, Trades, Announced
<1>5. toPage \in Seq(Trades) /\ InFlight \subseteq Announced
  BY <1>3 DEF TypeOK, Stream
<1>6. ~connected => toPage = <<>> /\ toPage' = <<>> /\ InFlight = {} /\ InFlight' = {}
  BY <1>2, <1>3, NoneLeft DEF TypeOK, InFlight
<1>7. connected => /\ toPage' \in Seq(Trades) /\ Len(toPage') = Len(toPage) + 1
                   /\ InFlight' = InFlight \cup {t} /\ Increasing(toPage')
  BY <1>2, <1>3, <1>4, <1>5, Appended DEF InFlight, Stream
<1>8. TypeOK'
  <2>1. toPage' \in Seq(Trades) /\ Len(toPage') <= MaxQueue /\ (~connected' => toPage' = <<>>)
    BY <1>1, <1>2, <1>5, <1>6, <1>7, NoneLeft, LenProperties, Constants
  <2>2. /\ lastTrade' \in 0..MaxTrades /\ table' \subseteq Announced' /\ excused' \subseteq Announced'
        /\ saving' \in {0, lastTrade'}
    BY <1>1, <1>2, <1>3, <1>4, Constants DEF TypeOK
  <2>3. connected' \in BOOLEAN /\ blank' \in BOOLEAN
    BY <1>1, <1>3, Zenon DEF TypeOK
  <2>4. /\ fetch' \in {"asked", "answered", "done"} /\ activeTab' \in {"opportunities", "trades"}
        /\ rows' \in Seq(Trades) /\ Len(rows') <= FetchLimit
        /\ trades' \in Seq([id : Trades, source : Sources]) /\ Len(trades') <= ListLimit
        /\ pnlData' \in Seq(Trades) /\ Len(pnlData') <= ChartLimit
    BY <1>1, <1>3 DEF TypeOK
  <2> QED BY <2>1, <2>2, <2>3, <2>4 DEF TypeOK
<1>9. Stream'
  <2>1. CASE connected
    <3>1. \A n \in Announced : ~(t < n)
      BY <1>3, <1>4, Constants DEF TypeOK, Announced
    <3> QED BY <1>3, <1>4, <1>5, <1>7, <2>1, <3>1 DEF Stream
  <2>2. CASE ~connected
    BY <1>6, <2>2, NoneLeft DEF Stream
  <2> QED BY <2>1, <2>2
<1>10. InFlight' \subseteq InFlight \cup {t} /\ InFlight \subseteq InFlight'
  BY <1>3, <1>6, <1>7 DEF TypeOK
<1>11. Rows' /\ ListInOrder' /\ ChartHasListed'
  BY <1>1, <1>3, <1>4 DEF Rows, ListInOrder, ChartHasListed
<1>12. /\ \A n \in Announced : FromSocket(n)' <=> FromSocket(n)
       /\ Ids(trades)' = Ids(trades)
  BY <1>1 DEF FromSocket, Ids
<1>13. Behind'
  <2>1. \A n \in Ids(trades) : n \in Announced /\ n < t
    BY <1>3, <1>4 DEF Behind
  <2> QED BY <1>3, <1>4, <1>10, <1>12, <2>1 DEF Behind
<1>14. Chart'
  BY <1>1, <1>3, <1>4, <1>10 DEF Chart
<1>15. ASSUME ~blank PROVE RowsFollow' /\ Missing'
  <2>1. RowsFollow /\ Missing
    BY <1>15 DEF FeedInv
  <2>2. \A i \in DOMAIN trades : trades[i].id \in Announced
    BY <1>3 DEF Behind, Ids
  <2>3. \A n \in Announced : Streamed(n)' <=> Streamed(n)
    BY <1>1, <1>4, <1>10 DEF Streamed, FromSocket
  <2>4. RowsFollow'
    <3> SUFFICES ASSUME NEW i \in DOMAIN trades, NEW s \in Announced', NEW r \in Announced,
                        r = trades[i].id, trades[i].source = "row", Streamed(s)', s < r
                 PROVE  Streamed(r)' \/ r \in excused'
      BY <1>1, <2>2 DEF RowsFollow, Streamed, FromSocket
    <3>1. s \in Announced
      BY <1>4, <2>2, <1>1, <1>3, Constants DEF Announced, TypeOK
    <3>2. excused \subseteq excused'
      BY <1>2
    <3> QED BY <2>1, <2>2, <2>3, <3>1, <3>2 DEF RowsFollow
  <2>5. Missing'
    <3> SUFFICES ASSUME NEW n \in Announced' \ excused'
                 PROVE  \/ n \in Ids(trades)' \cup InFlight'
                        \/ Full' /\ \A u \in Ids(trades)' : n < u
      BY DEF Missing
    <3>1. CASE n = t
      BY <1>2, <1>3, <1>7, <3>1 DEF TypeOK
    <3>2. CASE n \in Announced
      <4>1. n \notin excused
        BY <1>2, <1>3 DEF TypeOK
      <4> QED BY <1>1, <1>10, <1>12, <2>1, <3>2, <4>1 DEF Missing, Full
    <3> QED BY <1>4, <3>1, <3>2
  <2> QED BY <2>4, <2>5
<1> QED BY <1>1, <1>8, <1>9, <1>11, <1>13, <1>14, <1>15 DEF FeedInv

(* The socket breaks: what was on its way is excused. *)
LEMMA BreakKept ==
  ASSUME FeedInv, Break, UNCHANGED <<lastTrade, table, fetchVars, listVars, activeTab, blank>>,
         saving' \in {0, saving}
  PROVE  FeedInv'
<1>1. /\ UNCHANGED <<lastTrade, table, fetch, rows, trades, pnlData, activeTab, blank>>
      /\ connected' = FALSE /\ toPage' = <<>> /\ excused' = excused \cup InFlight
  BY DEF Break, fetchVars, listVars
<1>2. TypeOK /\ Stream /\ Rows /\ Behind /\ ListInOrder /\ Chart /\ ChartHasListed
  BY DEF FeedInv
<1>3. toPage' \in Seq(Trades) /\ Len(toPage') = 0 /\ InFlight' = {} /\ Increasing(toPage')
  BY <1>1, NoneLeft DEF InFlight
<1>4. Announced' = Announced /\ InFlight \subseteq Announced
  BY <1>1, <1>2 DEF Announced, Stream
<1>5. TypeOK'
  <2>1. connected' \in BOOLEAN /\ blank' \in BOOLEAN
    BY <1>1, <1>2, Zenon DEF TypeOK
  <2>2. /\ lastTrade' \in 0..MaxTrades /\ saving' \in {0, lastTrade'}
        /\ table' \subseteq Announced' /\ excused' \subseteq Announced'
    BY <1>1, <1>2, <1>4 DEF TypeOK
  <2>3. toPage' = <<>> /\ toPage' \in Seq(Trades) /\ Len(toPage') <= MaxQueue
    BY <1>1, <1>3, Constants
  <2>4. /\ fetch' \in {"asked", "answered", "done"} /\ activeTab' \in {"opportunities", "trades"}
        /\ rows' \in Seq(Trades) /\ Len(rows') <= FetchLimit
        /\ trades' \in Seq([id : Trades, source : Sources]) /\ Len(trades') <= ListLimit
        /\ pnlData' \in Seq(Trades) /\ Len(pnlData') <= ChartLimit
    BY <1>1, <1>2 DEF TypeOK
  <2> QED BY <2>1, <2>2, <2>3, <2>4 DEF TypeOK
<1>6. Stream' /\ Rows' /\ ListInOrder' /\ ChartHasListed'
  BY <1>1, <1>2, <1>3, <1>4 DEF Stream, Rows, ListInOrder, ChartHasListed
<1>7. Behind' /\ Chart'
  BY <1>1, <1>2, <1>3, <1>4 DEF Behind, Chart, Ids
<1>8. ASSUME ~blank PROVE RowsFollow' /\ Missing'
  <2>1. RowsFollow /\ Missing
    BY <1>8 DEF FeedInv
  <2>2. RowsFollow'
    BY <1>1, <1>3, <1>4, <2>1 DEF RowsFollow, Streamed, FromSocket
  <2>3. Missing'
    BY <1>1, <1>3, <1>4, <2>1 DEF Missing, Full, Ids
  <2> QED BY <2>2, <2>3
<1> QED BY <1>1, <1>5, <1>6, <1>7, <1>8 DEF FeedInv

LEMMA RestartKept == ASSUME FeedInv, Restart PROVE FeedInv'
  BY BreakKept DEF Restart

LEMMA DisconnectKept == ASSUME FeedInv, Disconnect PROVE FeedInv'
  BY BreakKept DEF Disconnect, botVars

LEMMA ReloadKept == ASSUME FeedInv, Reload PROVE FeedInv'
<1>1. /\ UNCHANGED <<lastTrade, saving, table>>
      /\ connected' = FALSE /\ toPage' = <<>> /\ fetch' = "asked" /\ rows' = <<>>
      /\ trades' = <<>> /\ pnlData' = <<>> /\ activeTab' = "opportunities" /\ blank' = FALSE
      /\ excused' = Announced
  BY DEF Reload, botVars
<1>2. TypeOK /\ Announced' = Announced
  BY <1>1 DEF FeedInv, Announced
<1>3. /\ toPage' \in Seq(Trades) /\ rows' \in Seq(Trades) /\ pnlData' \in Seq(Trades)
      /\ Len(toPage') = 0 /\ Len(rows') = 0 /\ Len(trades') = 0 /\ Len(pnlData') = 0
      /\ InFlight' = {} /\ Increasing(toPage') /\ Increasing(pnlData')
      /\ ToSet(rows') = {} /\ ToSet(pnlData') = {}
  BY <1>1, NoneLeft, Zenon DEF InFlight
<1>4. trades' \in Seq([id : Trades, source : Sources])
  BY <1>1, EmptySeq
<1>5. DOMAIN trades' = {} /\ DOMAIN rows' = {}
  BY <1>1
<1>6. TypeOK'
  <2>1. connected' \in BOOLEAN /\ blank' \in BOOLEAN
    BY <1>1, Zenon
  <2> QED BY <1>1, <1>2, <1>3, <1>4, <2>1, Constants DEF TypeOK
<1>7. Stream' /\ Rows' /\ Behind' /\ ListInOrder' /\ Chart' /\ ChartHasListed'
  BY <1>3, <1>5 DEF Stream, Rows, Behind, ListInOrder, Chart, ChartHasListed, Ids
<1>8. RowsFollow' /\ Missing'
  BY <1>1, <1>2, <1>5 DEF RowsFollow, Missing
<1> QED BY <1>1, <1>6, <1>7, <1>8 DEF FeedInv

-----------------------------------------------------------------------------
(* Steps of the page.  A page that goes blank has lost its socket. *)

LEMMA Rendered ==
  ASSUME TypeOK, NEW queue, Render(queue)
  PROVE  /\ blank' \in BOOLEAN /\ connected' \in BOOLEAN
         /\ blank' => toPage' = <<>> /\ ~connected'
         /\ ~blank' => toPage' = queue /\ (connected' <=> connected)
<1>1. blank' \in BOOLEAN
  BY DEF Render, RenderThrows
<1>2. connected' \in BOOLEAN
  BY DEF Render
<1>3. connected' <=> connected /\ ~blank'
  BY DEF Render
<1>4. toPage' = IF blank' THEN <<>> ELSE queue
  BY DEF Render
<1> QED BY <1>1, <1>2, <1>3, <1>4

(* What is on its way after that. *)
LEMMA Shortened ==
  ASSUME TypeOK, NEW queue \in Seq(Trades), Len(queue) <= MaxQueue, Increasing(queue),
         ~connected => queue = <<>>, Render(queue)
  PROVE  /\ toPage' \in Seq(Trades) /\ Len(toPage') <= MaxQueue /\ Increasing(toPage')
         /\ ~connected' => toPage' = <<>>
         /\ InFlight' \subseteq ToSet(queue) /\ (~blank' => InFlight' = ToSet(queue))
<1>1. CASE blank'
  <2>1. toPage' = <<>>
    BY <1>1, Rendered
  <2>2. /\ toPage' \in Seq(Trades) /\ Len(toPage') = 0 /\ Increasing(toPage') /\ InFlight' = {}
    BY <2>1, NoneLeft, Zenon DEF InFlight
  <2> QED BY <1>1, <2>1, <2>2, Constants
<1>2. CASE ~blank'
  BY <1>2, Rendered DEF InFlight
<1> QED BY <1>1, <1>2, Rendered

LEMMA StreamShortened ==
  ASSUME TypeOK, Announced' = Announced, NEW queue \in Seq(Trades), Len(queue) <= MaxQueue,
         Increasing(queue), ~connected => queue = <<>>, Render(queue),
         ToSet(queue) \subseteq Announced,
         \A s \in ToSet(queue), n \in Announced : s < n => n \in ToSet(queue)
  PROVE  Stream'
<1>1. CASE blank'
  <2>1. InFlight' = {}
    BY <1>1, Rendered, NoneLeft DEF InFlight
  <2> QED BY <2>1, Shortened DEF Stream
<1>2. CASE ~blank'
  BY <1>2, Shortened DEF Stream
<1> QED BY <1>1, <1>2, Rendered

LEMMA SetActiveTabKept == ASSUME FeedInv, SetActiveTab PROVE FeedInv'
<1>1. /\ UNCHANGED <<lastTrade, saving, table, fetch, rows, trades, pnlData, excused>>
      /\ activeTab' \in {"opportunities", "trades"} /\ ~blank /\ Render(toPage)
  BY DEF SetActiveTab, botVars, fetchVars, listVars
<1>2. /\ TypeOK /\ Stream /\ Rows /\ Behind /\ ListInOrder /\ Chart /\ ChartHasListed
      /\ RowsFollow /\ Missing
  BY <1>1 DEF FeedInv
<1>3. /\ toPage \in Seq(Trades) /\ Len(toPage) <= MaxQueue /\ Increasing(toPage)
      /\ ~connected => toPage = <<>>
      /\ InFlight = ToSet(toPage) /\ Announced' = Announced
  BY <1>1, <1>2 DEF TypeOK, Stream, InFlight, Announced
<1>4. /\ toPage' \in Seq(Trades) /\ Len(toPage') <= MaxQueue
      /\ ~connected' => toPage' = <<>>
      /\ InFlight' \subseteq InFlight /\ (~blank' => InFlight' = InFlight)
  BY <1>1, <1>2, <1>3, Shortened
<1>5. /\ blank' \in BOOLEAN /\ connected' \in BOOLEAN /\ (blank' => ~connected')
  BY <1>1, <1>2, Rendered
<1>6. TypeOK'
  <2>1. /\ lastTrade' \in 0..MaxTrades /\ saving' \in {0, lastTrade'}
        /\ table' \subseteq Announced' /\ excused' \subseteq Announced'
        /\ fetch' \in {"asked", "answered", "done"}
        /\ rows' \in Seq(Trades) /\ Len(rows') <= FetchLimit
        /\ trades' \in Seq([id : Trades, source : Sources]) /\ Len(trades') <= ListLimit
        /\ pnlData' \in Seq(Trades) /\ Len(pnlData') <= ChartLimit
    BY <1>1, <1>2, <1>3 DEF TypeOK
  <2> QED BY <1>1, <1>4, <1>5, <2>1 DEF TypeOK
<1>7. Stream'
  BY <1>1, <1>2, <1>3, StreamShortened DEF Stream
<1>8. Rows' /\ ListInOrder' /\ ChartHasListed'
  BY <1>1, <1>2, <1>3 DEF Rows, ListInOrder, ChartHasListed
<1>9. Behind' /\ Chart'
  BY <1>1, <1>2, <1>3, <1>4 DEF Behind, Chart, Ids, FromSocket
<1>10. ~blank' => RowsFollow' /\ Missing'
  BY <1>1, <1>2, <1>3, <1>4 DEF RowsFollow, Missing, Streamed, FromSocket, Full, Ids
<1> QED BY <1>5, <1>6, <1>7, <1>8, <1>9, <1>10 DEF FeedInv

LEMMA FunctionIsSeq ==
  ASSUME NEW S, NEW n \in Nat, NEW f \in [1..n -> S]
  PROVE  f \in Seq(S) /\ Len(f) = n
<1>1. f \in Seq(S)
  BY SeqDef
<1>2. DOMAIN f = 1..n /\ DOMAIN f = 1..Len(f) /\ Len(f) \in Nat
  BY <1>1, LenProperties
<1> QED BY <1>1, <1>2

(* The answer of /trades.  It lists what it brings, and excuses the rest. *)
LEMMA AnsweredKept == ASSUME FeedInv, Answered PROVE FeedInv'
<1>1. /\ UNCHANGED <<lastTrade, saving, table, pnlData, activeTab>>
      /\ fetch' = "done" /\ rows' = <<>> /\ ~blank /\ Render(toPage)
      /\ trades' = [i \in DOMAIN rows |-> Entry(rows[i], "row")]
      /\ excused' = Announced \ (InFlight \cup ToSet(rows))
  BY DEF Answered, AnswerShown, botVars
<1>2. TypeOK /\ Stream /\ Rows /\ Chart
  BY DEF FeedInv
<1>3. /\ toPage \in Seq(Trades) /\ Len(toPage) <= MaxQueue /\ Increasing(toPage)
      /\ ~connected => toPage = <<>>
      /\ InFlight = ToSet(toPage) /\ Announced' = Announced
  BY <1>1, <1>2 DEF TypeOK, Stream, InFlight, Announced
<1>4. /\ toPage' \in Seq(Trades) /\ Len(toPage') <= MaxQueue
      /\ ~connected' => toPage' = <<>>
      /\ InFlight' \subseteq InFlight /\ (~blank' => InFlight' = InFlight)
  BY <1>1, <1>2, <1>3, Shortened
<1>5. /\ blank' \in BOOLEAN /\ connected' \in BOOLEAN /\ (blank' => ~connected')
  BY <1>1, <1>2, Rendered
<1>6. rows \in [1..Len(rows) -> Trades] /\ Len(rows) \in Nat /\ DOMAIN rows = 1..Len(rows)
      /\ Len(rows) <= FetchLimit
  BY <1>2, LenProperties DEF TypeOK
<1>7. /\ DOMAIN trades' = 1..Len(rows)
      /\ \A i \in 1..Len(rows) : trades'[i].id = rows[i] /\ trades'[i].source = "row"
      /\ trades' \in Seq([id : Trades, source : Sources]) /\ Len(trades') = Len(rows)
  <2>1. trades' \in [1..Len(rows) -> [id : Trades, source : Sources]]
    BY <1>1, <1>6 DEF Entry, Sources
  <2>2. \A i \in 1..Len(rows) : trades'[i].id = rows[i] /\ trades'[i].source = "row"
    BY <1>1, <1>6 DEF Entry
  <2>3. trades' \in Seq([id : Trades, source : Sources]) /\ Len(trades') = Len(rows)
    <3>1. \A n \in Nat : \A f \in [1..n -> [id : Trades, source : Sources]] :
             f \in Seq([id : Trades, source : Sources]) /\ Len(f) = n
      BY FunctionIsSeq
    <3>2. Len(rows) \in Nat
      BY <1>6
    <3> QED BY <2>1, <3>1, <3>2, Zenon
  <2> QED BY <2>1, <2>2, <2>3
<1>8. Ids(trades)' = ToSet(rows) /\ ToSet(rows) \subseteq Announced
  BY <1>2, <1>6, <1>7 DEF Ids, ToSet, Rows
<1>9. \A n \in Announced : ~FromSocket(n)'
  BY <1>7 DEF FromSocket
<1>10. TypeOK'
  <2>1. /\ lastTrade' \in 0..MaxTrades /\ saving' \in {0, lastTrade'}
        /\ table' \subseteq Announced' /\ excused' \subseteq Announced'
        /\ activeTab' \in {"opportunities", "trades"}
        /\ pnlData' \in Seq(Trades) /\ Len(pnlData') <= ChartLimit
    BY <1>1, <1>2, <1>3 DEF TypeOK
  <2>2. /\ trades' \in Seq([id : Trades, source : Sources]) /\ Len(trades') <= ListLimit
        /\ rows' \in Seq(Trades) /\ Len(rows') <= FetchLimit /\ fetch' = "done"
    BY <1>1, <1>6, <1>7, NoneLeft, Constants
  <2> QED BY <1>4, <1>5, <2>1, <2>2 DEF TypeOK
<1>11. Stream'
  BY <1>1, <1>2, <1>3, StreamShortened DEF Stream
<1>12. Rows'
  BY <1>1, NoneLeft DEF Rows
<1>13. Behind'
  BY <1>3, <1>8, <1>9 DEF Behind
<1>14. ListInOrder'
  BY <1>2, <1>6, <1>7 DEF ListInOrder, Rows
<1>15. Chart' /\ ChartHasListed'
  BY <1>1, <1>2, <1>3, <1>4, <1>7 DEF Chart, ChartHasListed
<1>16. ASSUME ~blank' PROVE RowsFollow' /\ Missing'
  <2>1. InFlight' = InFlight
    BY <1>4, <1>16
  <2>2. RowsFollow'
    <3> SUFFICES ASSUME NEW i \in 1..Len(rows), NEW s \in Announced, NEW r, r = rows[i],
                        Streamed(s)', s < r
                 PROVE  Streamed(r)'
      BY <1>3, <1>7 DEF RowsFollow, Streamed, FromSocket
    <3>1. r \in Announced
      BY <1>2, <1>6 DEF Rows, ToSet
    <3>2. s \in InFlight
      BY <1>9, <2>1 DEF Streamed
    <3> QED BY <1>2, <2>1, <3>1, <3>2 DEF Stream, Streamed
  <2>3. Missing'
    BY <1>1, <1>3, <1>8, <2>1 DEF Missing
  <2> QED BY <2>2, <2>3
<1> QED BY <1>5, <1>10, <1>11, <1>12, <1>13, <1>14, <1>15, <1>16 DEF FeedInv

(* The chart keeps the newest points: what it drops is older than the rest.  *)
LEMMA DrawnKeeps ==
  ASSUME TypeOK, Increasing(pnlData), NEW t \in Trades, \A n \in ToSet(pnlData) : n < t
  PROVE  /\ Drawn(t) \in Seq(Trades) /\ Len(Drawn(t)) <= ChartLimit /\ Increasing(Drawn(t))
         /\ ToSet(Drawn(t)) \subseteq ToSet(pnlData) \cup {t} /\ t \in ToSet(Drawn(t))
         /\ Len(pnlData) = ChartLimit => Len(Drawn(t)) = ChartLimit
         /\ \A n \in ToSet(pnlData) :
               \/ n \in ToSet(Drawn(t))
               \/ Len(Drawn(t)) = ChartLimit /\ \A i \in DOMAIN Drawn(t) : n < Drawn(t)[i]
<1> DEFINE D == Drawn(t)
<1>1. PICK k \in {0, 1} :
               /\ k = (IF Len(pnlData) = ChartLimit THEN 1 ELSE 0)
               /\ D \in Seq(Trades)
               /\ Len(D) = Len(pnlData) + 1 - k
               /\ D[Len(D)] = t
               /\ \A i \in 1..(Len(D) - 1) : D[i] = pnlData[i + k]
  BY DrawnShape
<1> HIDE DEF D
<1>2. /\ pnlData \in [1..Len(pnlData) -> Trades] /\ DOMAIN pnlData = 1..Len(pnlData)
      /\ Len(pnlData) \in Nat /\ Len(pnlData) <= ChartLimit
  BY LenProperties DEF TypeOK
<1>3. Len(D) \in Nat \ {0} /\ DOMAIN D = 1..Len(D) /\ Len(D) <= ChartLimit
  <2>1. Len(D) \in Nat /\ DOMAIN D = 1..Len(D)
    BY <1>1, LenProperties
  <2>2. Len(D) # 0 /\ Len(D) <= ChartLimit
    <3>1. CASE Len(pnlData) = ChartLimit
      BY <1>1, <1>2, <3>1, Constants
    <3>2. CASE Len(pnlData) # ChartLimit
      <4>1. \A a, b \in Int : a <= b /\ a # b => a < b
        OBVIOUS
      <4>2. ChartLimit \in Int /\ Len(pnlData) \in Nat /\ Len(pnlData) <= ChartLimit
        BY <1>2, Constants
      <4>3. Len(pnlData) \in Int
        BY <4>2
      <4>4. Len(pnlData) < ChartLimit
        BY <3>2, <4>1, <4>2, <4>3, Zenon
      <4>5. k = 0 /\ Len(D) = Len(pnlData) + 1
        BY <1>1, <1>2, <3>2
      <4> QED BY <4>2, <4>4, <4>5
    <3> QED BY <3>1, <3>2
  <2> QED BY <2>1, <2>2
<1>4. \A i \in 1..(Len(D) - 1) : i + k \in 1..Len(pnlData) /\ D[i] = pnlData[i + k] /\ D[i] \in ToSet(pnlData)
  <2> SUFFICES ASSUME NEW i \in 1..(Len(D) - 1)
               PROVE  i + k \in 1..Len(pnlData) /\ D[i] = pnlData[i + k] /\ D[i] \in ToSet(pnlData)
    OBVIOUS
  <2>1. D[i] = pnlData[i + k]
    BY <1>1
  <2>2. i + k \in 1..Len(pnlData)
    BY <1>1, <1>2
  <2> QED BY <1>2, <2>1, <2>2 DEF ToSet
<1>5. Increasing(D)
  <2> SUFFICES ASSUME NEW i \in 1..Len(D), NEW j \in 1..Len(D), i < j PROVE D[i] < D[j]
    BY <1>3 DEF Increasing
  <2>1. CASE j = Len(D)
    <3>1. i \in 1..(Len(D) - 1)
      BY <1>3, <2>1
    <3>2. D[i] \in ToSet(pnlData)
      BY <1>4, <3>1
    <3> QED BY <1>1, <2>1, <3>2
  <2>2. CASE j < Len(D)
    <3>1. i \in 1..(Len(D) - 1) /\ j \in 1..(Len(D) - 1)
      BY <1>3, <2>2
    <3>2. /\ D[i] = pnlData[i + k] /\ D[j] = pnlData[j + k] /\ i + k < j + k
          /\ i + k \in DOMAIN pnlData /\ j + k \in DOMAIN pnlData
      BY <1>2, <1>4, <3>1
    <3> QED BY <3>2 DEF Increasing
  <2>3. j = Len(D) \/ j < Len(D)
    <3>1. Len(D) \in Int /\ j \in Int /\ j <= Len(D)
      BY <1>3
    <3> QED BY <3>1
  <2> QED BY <2>1, <2>2, <2>3
<1>6. ToSet(D) \subseteq ToSet(pnlData) \cup {t} /\ t \in ToSet(D)
  <2>1. \A i \in 1..Len(D) : D[i] \in ToSet(pnlData) \cup {t}
    BY <1>1, <1>3, <1>4
  <2> QED BY <1>1, <1>3, <2>1 DEF ToSet
<1>7. ASSUME NEW n \in ToSet(pnlData)
      PROVE  n \in ToSet(D) \/ (Len(D) = ChartLimit /\ \A i \in DOMAIN D : n < D[i])
  <2>1. PICK j \in 1..Len(pnlData) : n = pnlData[j]
    BY <1>2 DEF ToSet
  <2>2. CASE j - k \in 1..(Len(D) - 1)
    <3>1. D[j - k] = n
      BY <1>1, <1>2, <2>1, <2>2
    <3> QED BY <1>3, <2>2, <3>1 DEF ToSet
  <2>3. CASE j - k \notin 1..(Len(D) - 1)
    <3>1. k = 1 /\ j = 1 /\ Len(D) = ChartLimit
      BY <1>1, <1>2, <1>3, <2>1, <2>3
    <3>2. \A i \in 1..(Len(D) - 1) : n < D[i]
      BY <1>2, <1>4, <2>1, <3>1 DEF Increasing
    <3>3. n < D[Len(D)]
      BY <1>1, <1>7
    <3> QED BY <1>3, <3>1, <3>2, <3>3
  <2> QED BY <2>2, <2>3
<1>8. Len(pnlData) = ChartLimit => Len(D) = ChartLimit
  BY <1>1, <1>2, Constants
<1> QED BY <1>1, <1>3, <1>5, <1>6, <1>7, <1>8 DEF D

LEMMA OnTradeKept == ASSUME FeedInv, OnTrade PROVE FeedInv'
<1> DEFINE h == Head(toPage)
           q == Tail(toPage)
<1>1. /\ toPage # <<>> /\ trades' = Listed(h)
      /\ pnlData' = IF h \in Failed THEN pnlData ELSE Drawn(h)
      /\ UNCHANGED <<lastTrade, saving, table, fetch, rows, activeTab, excused>>
      /\ Render(q)
  BY DEF OnTrade, botVars, fetchVars
<1>2. TypeOK /\ Stream /\ Rows /\ Behind /\ ListInOrder /\ Chart /\ ChartHasListed
  BY DEF FeedInv
<1>3. /\ connected /\ toPage \in Seq(Trades) /\ Len(toPage) \in Nat /\ Len(toPage) <= MaxQueue
      /\ Announced' = Announced /\ Announced \subseteq Trades /\ Trades \subseteq Int
  BY <1>1, <1>2, LenProperties, Constants DEF TypeOK, Announced, Trades
<1>4. ~blank
  BY <1>3 DEF FeedInv
<1>5. /\ h \in Trades /\ h \in InFlight /\ q \in Seq(Trades) /\ Len(q) = Len(toPage) - 1
      /\ ToSet(q) = InFlight \ {h} /\ (\A n \in ToSet(q) : h < n) /\ Increasing(q)
  BY <1>1, <1>2, <1>3, Popped DEF Stream, InFlight
<1>6. h \in Announced /\ \A n \in Announced : h < n => n \in InFlight
  BY <1>2, <1>5 DEF Stream
<1> HIDE DEF h, q
<1>7. Len(q) <= MaxQueue /\ (~connected => q = <<>>)
  BY <1>3, <1>5, Constants
<1>8. /\ toPage' \in Seq(Trades) /\ Len(toPage') <= MaxQueue
      /\ ~connected' => toPage' = <<>>
      /\ InFlight' \subseteq ToSet(q) /\ (~blank' => InFlight' = ToSet(q))
  BY <1>1, <1>2, <1>5, <1>7, Shortened
<1>9. /\ blank' \in BOOLEAN /\ connected' \in BOOLEAN /\ (blank' => ~connected')
  BY <1>1, <1>2, Rendered
<1>10. /\ trades' \in Seq([id : Trades, source : Sources])
       /\ Len(trades') = (IF Full THEN ListLimit ELSE Len(trades) + 1)
       /\ Len(trades') \in 1..ListLimit /\ Len(trades') <= Len(trades) + 1
       /\ trades'[1].id = h /\ trades'[1].source = "socket"
       /\ \A i \in 2..Len(trades') : trades'[i] = trades[i - 1]
  <2>1. /\ trades' \in Seq(Listing)
        /\ Len(trades') = (IF Full THEN ListLimit ELSE Len(trades) + 1)
        /\ Len(trades') \in 1..ListLimit /\ Len(trades') <= Len(trades) + 1
        /\ trades'[1] = Entry(h, "socket")
        /\ \A i \in 2..Len(trades') : trades'[i] = trades[i - 1]
    BY <1>1, <1>2, <1>5, ListedShape
  <2>2. trades'[1].id = h /\ trades'[1].source = "socket"
    BY <2>1 DEF Entry
  <2> QED BY <2>1, <2>2 DEF Listing
<1>11. /\ Len(trades) \in Nat /\ Len(trades) <= ListLimit /\ DOMAIN trades = 1..Len(trades)
       /\ trades \in [1..Len(trades) -> [id : Trades, source : Sources]]
  BY <1>2, LenProperties DEF TypeOK
<1>12. DOMAIN trades' = 1..Len(trades')
  BY <1>10, LenProperties
<1>13. \A i \in 2..Len(trades') : i - 1 \in DOMAIN trades /\ trades'[i] = trades[i - 1]
  BY <1>10, <1>11, Constants
<1>14. \A j \in DOMAIN trades : j + 1 \in DOMAIN trades' \/ (Full /\ j = Len(trades) /\ j = Len(trades'))
  <2>1. CASE Full
    BY <1>10, <1>11, <1>12, <2>1, Constants DEF Full
  <2>2. CASE ~Full
    BY <1>10, <1>11, <1>12, <2>2
  <2> QED BY <2>1, <2>2
<1>15. \A j \in DOMAIN trades : j + 1 \in DOMAIN trades' => trades'[j + 1] = trades[j]
  <2> SUFFICES ASSUME NEW j \in 1..Len(trades), j + 1 \in 1..Len(trades')
               PROVE  trades'[j + 1] = trades[j]
    BY <1>11, <1>12
  <2>1. j + 1 \in 2..Len(trades') /\ (j + 1) - 1 = j
    BY <1>10, <1>11
  <2> QED BY <1>10, <2>1
<1>16. h \in Ids(trades)' /\ \A n \in Announced : n = h => FromSocket(n)'
  <2>1. 1 \in DOMAIN trades'
    BY <1>10, <1>12, Constants
  <2> QED BY <1>10, <2>1 DEF Ids, FromSocket
<1>17. \A i \in DOMAIN trades' : i = 1 \/ i \in 2..Len(trades')
  BY <1>10, <1>12
<1>18. \A n \in Announced : FromSocket(n)' => n = h \/ FromSocket(n)
  BY <1>10, <1>13, <1>17 DEF FromSocket
<1>19. Ids(trades)' \subseteq Ids(trades) \cup {h}
  BY <1>10, <1>13, <1>17 DEF Ids
<1>20. \A n \in Ids(trades) : n \in Announced /\ (FromSocket(n) => n < h)
  BY <1>2, <1>5 DEF Behind
<1>21. TypeOK'
  <2>1. /\ lastTrade' \in 0..MaxTrades /\ saving' \in {0, lastTrade'}
        /\ table' \subseteq Announced' /\ excused' \subseteq Announced'
        /\ fetch' \in {"asked", "answered", "done"} /\ activeTab' \in {"opportunities", "trades"}
        /\ rows' \in Seq(Trades) /\ Len(rows') <= FetchLimit
    BY <1>1, <1>2, <1>3 DEF TypeOK
  <2>2. trades' \in Seq([id : Trades, source : Sources]) /\ Len(trades') <= ListLimit
    BY <1>10, Constants
  <2>3. pnlData' \in Seq(Trades) /\ Len(pnlData') <= ChartLimit
    BY <1>1, <1>2, <1>5, DrawnKeeps DEF TypeOK, Chart
  <2> QED BY <1>8, <1>9, <2>1, <2>2, <2>3 DEF TypeOK
<1>22. Stream'
  <2>1. \A s \in ToSet(q), n \in Announced : s < n => n \in ToSet(q)
    <3> SUFFICES ASSUME NEW s \in ToSet(q), NEW n \in Announced, s < n PROVE n \in InFlight \ {h}
      BY <1>5
    <3>1. s \in InFlight /\ h < s /\ s \in Int /\ h \in Int
      BY <1>2, <1>3, <1>5, <1>6 DEF Stream
    <3>2. n \in InFlight
      BY <1>2, <3>1 DEF Stream
    <3>3. n \in Int /\ n # h
      BY <1>3, <3>1
    <3> QED BY <3>2, <3>3
  <2>2. ToSet(q) \subseteq Announced
    BY <1>2, <1>5 DEF Stream
  <2> QED BY <1>1, <1>2, <1>3, <1>5, <1>7, <2>1, <2>2, StreamShortened
<1>23. Rows'
  BY <1>1, <1>2, <1>3 DEF Rows
<1>24. Behind'
  <2>1. Ids(trades)' \subseteq Announced'
    BY <1>3, <1>6, <1>19, <1>20
  <2>2. ASSUME NEW n \in Ids(trades)', NEW m \in InFlight', FromSocket(n)' PROVE n < m
    <3>1. m \in InFlight /\ h < m /\ n \in Announced
      BY <1>3, <1>5, <1>8, <2>1
    <3>2. CASE n = h
      BY <3>1, <3>2
    <3>3. CASE FromSocket(n)
      <4>1. n \in Ids(trades)
        BY <3>3 DEF FromSocket, Ids
      <4> QED BY <1>2, <3>1, <3>3, <4>1 DEF Behind
    <3> QED BY <1>18, <2>2, <3>1, <3>2, <3>3
  <2> QED BY <2>1, <2>2 DEF Behind
<1>25. ListInOrder'
  <2> SUFFICES ASSUME NEW i \in DOMAIN trades', NEW j \in DOMAIN trades', i < j
               PROVE  IF trades'[i].source = trades'[j].source
                      THEN trades'[i].id > trades'[j].id
                      ELSE trades'[i].source = "socket"
    BY DEF ListInOrder
  <2>1. j \in 2..Len(trades') /\ j - 1 \in DOMAIN trades /\ trades'[j] = trades[j - 1]
    BY <1>10, <1>12, <1>13
  <2>2. CASE i = 1
    <3>1. trades[j - 1].source = "socket" => FromSocket(trades[j - 1].id) /\ trades[j - 1].id \in Ids(trades)
      BY <2>1 DEF FromSocket, Ids
    <3> QED BY <1>3, <1>6, <1>10, <1>20, <2>1, <2>2, <3>1
  <2>3. CASE i \in 2..Len(trades')
    <3>1. i - 1 \in DOMAIN trades /\ trades'[i] = trades[i - 1] /\ i - 1 < j - 1
      BY <1>13, <2>1, <2>3
    <3> QED BY <1>2, <2>1, <3>1 DEF ListInOrder
  <2> QED BY <1>17, <2>2, <2>3
<1>26. \A n \in ToSet(pnlData) : n < h
  BY <1>2, <1>5 DEF Chart
<1>27. Chart'
  <2>1. ToSet(pnlData') \subseteq ToSet(pnlData) \cup {h} /\ Increasing(pnlData')
    BY <1>1, <1>2, <1>5, <1>26, DrawnKeeps DEF Chart
  <2> QED BY <1>2, <1>3, <1>5, <1>6, <1>8, <2>1 DEF Chart
<1>28. ChartHasListed'
  <2> SUFFICES ASSUME NEW i \in DOMAIN trades', NEW n, n = trades'[i].id,
                      trades'[i].source = "socket", n \notin Failed
               PROVE  \/ n \in ToSet(pnlData')
                      \/ Len(pnlData') = ChartLimit /\ \A k \in DOMAIN pnlData' : pnlData'[k] > n
    BY DEF ChartHasListed
  <2>1. CASE i = 1
    BY <1>1, <1>2, <1>5, <1>10, <1>26, <2>1, DrawnKeeps DEF Chart
  <2>2. CASE i \in 2..Len(trades')
    <3>1. i - 1 \in DOMAIN trades /\ trades[i - 1].id = n /\ trades[i - 1].source = "socket"
      BY <1>13, <2>2
    <3>2. FromSocket(n) /\ n \in Ids(trades) /\ n \in Announced /\ n < h
      <4>1. FromSocket(n) /\ n \in Ids(trades)
        BY <3>1 DEF FromSocket, Ids
      <4> QED BY <1>20, <4>1
    <3>3. \/ n \in ToSet(pnlData)
          \/ Len(pnlData) = ChartLimit /\ \A k \in DOMAIN pnlData : pnlData[k] > n
      BY <1>2, <3>1 DEF ChartHasListed
    <3>4. CASE h \in Failed
      BY <1>1, <3>3, <3>4
    <3>5. CASE h \notin Failed
      <4> DEFINE D == Drawn(h)
      <4>1. pnlData' = D
        BY <1>1, <3>5
      <4>2. /\ ToSet(D) \subseteq ToSet(pnlData) \cup {h}
            /\ Len(pnlData) = ChartLimit => Len(D) = ChartLimit
            /\ \A m \in ToSet(pnlData) :
                  m \in ToSet(D) \/ (Len(D) = ChartLimit /\ \A k \in DOMAIN D : m < D[k])
        BY <1>2, <1>5, <1>26, DrawnKeeps DEF Chart
      <4> HIDE DEF D
      <4>3. \A k \in DOMAIN D : D[k] \in ToSet(pnlData) \cup {h} /\ D[k] \in Int
        <5>1. \A k \in DOMAIN D : D[k] \in ToSet(D)
          BY DEF ToSet
        <5> QED BY <1>2, <1>3, <1>6, <4>2, <5>1 DEF Chart
      <4>4. CASE n \in ToSet(pnlData)
        BY <1>3, <3>2, <4>1, <4>2, <4>3, <4>4
      <4>5. CASE Len(pnlData) = ChartLimit /\ \A k \in DOMAIN pnlData : pnlData[k] > n
        <5>1. \A m \in ToSet(pnlData) : m > n
          BY <4>5 DEF ToSet
        <5> QED BY <1>3, <1>6, <3>2, <4>1, <4>2, <4>3, <4>5, <5>1
      <4> QED BY <3>3, <4>4, <4>5
    <3> QED BY <3>4, <3>5
  <2> QED BY <1>17, <2>1, <2>2
<1>29. ASSUME ~blank' PROVE RowsFollow' /\ Missing'
  <2>1. RowsFollow /\ Missing /\ InFlight' = InFlight \ {h}
    BY <1>4, <1>5, <1>8, <1>29 DEF FeedInv
  <2>2. \A n \in Announced : Streamed(n)' => Streamed(n)
    BY <1>5, <1>18, <2>1 DEF Streamed
  (* As long as a row is listed, nothing from the socket is dropped.         *)
  <2>3. ASSUME NEW i \in 2..Len(trades'), trades'[i].source = "row",
               NEW n \in Announced, Streamed(n)
        PROVE  Streamed(n)'
    <3>1. CASE n \in InFlight
      <4>1. CASE n = h
        BY <1>16, <4>1 DEF Streamed
      <4>2. CASE n # h
        BY <2>1, <3>1, <4>2 DEF Streamed
      <4> QED BY <4>1, <4>2
    <3>2. CASE FromSocket(n)
      <4>1. PICK j \in DOMAIN trades : trades[j].id = n /\ trades[j].source = "socket"
        BY <3>2 DEF FromSocket
      <4>2. i - 1 \in DOMAIN trades /\ trades[i - 1].source = "row"
        BY <1>13, <2>3
      <4>3. j + 1 \in DOMAIN trades'
        <5>1. ~(i - 1 < j)
          BY <1>2, <4>1, <4>2 DEF ListInOrder
        <5>2. i - 1 # j
          BY <4>1, <4>2
        <5> QED BY <1>10, <1>11, <1>12, <1>14, <4>1, <5>1, <5>2
      <4> QED BY <1>15, <4>1, <4>3 DEF Streamed, FromSocket
    <3> QED BY <2>3, <3>1, <3>2 DEF Streamed
  <2>4. RowsFollow'
    <3> SUFFICES ASSUME NEW i \in DOMAIN trades', NEW s \in Announced, NEW r,
                        r = trades'[i].id, trades'[i].source = "row", Streamed(s)', s < r
                 PROVE  Streamed(r)' \/ r \in excused'
      BY <1>3 DEF RowsFollow, Streamed, FromSocket
    <3>1. /\ i \in 2..Len(trades') /\ i - 1 \in DOMAIN trades
          /\ trades[i - 1].id = r /\ trades[i - 1].source = "row"
      BY <1>10, <1>13, <1>17
    <3>2. r \in Announced
      BY <1>20, <3>1 DEF Ids
    <3>3. Streamed(r) \/ r \in excused
      BY <2>1, <2>2, <3>1 DEF RowsFollow
    <3> QED BY <1>1, <2>3, <3>1, <3>2, <3>3
  <2>5. Missing'
    <3> SUFFICES ASSUME NEW n \in Announced \ excused, n \notin Ids(trades)', n \notin InFlight'
                 PROVE  Full' /\ \A u \in Ids(trades)' : n < u
      BY <1>1, <1>3 DEF Missing
    <3>1. n \notin InFlight /\ n # h /\ n < h /\ n \in Int /\ h \in Int
      <4>1. n # h /\ n \notin InFlight
        BY <1>16, <2>1
      <4> QED BY <1>3, <1>6, <4>1
    <3>2. ASSUME Full, \A u \in Ids(trades) : u \in Ids(trades)' => n < u
          PROVE  Full' /\ \A u \in Ids(trades)' : n < u
      BY <1>10, <1>19, <3>1, <3>2 DEF Full
    <3>3. CASE Full /\ \A u \in Ids(trades) : n < u
      BY <3>2, <3>3
    (* n was last in the list: what was before it is newer. *)
    <3>4. CASE n \in Ids(trades)
      <4>1. PICK i \in DOMAIN trades : trades[i].id = n
        BY <3>4 DEF Ids
      <4>2. \A j \in DOMAIN trades : trades[j].id = n => Full /\ j = Len(trades)
        BY <1>14, <1>15 DEF Ids
      <4>3. ASSUME NEW j \in DOMAIN trades, j < i PROVE n < trades[j].id
        <5>1. trades[j].id \in Announced /\ trades[j].id # n /\ trades[j].id \in Int
          <6>1. trades[j].id \in Announced
            BY <1>20 DEF Ids
          <6>2. trades[j].id # n
            BY <1>11, <4>1, <4>2, <4>3
          <6> QED BY <1>3, <6>1, <6>2
        <5>2. CASE trades[j].source = trades[i].source
          BY <1>2, <4>1, <4>3, <5>2 DEF ListInOrder
        <5>3. CASE trades[j].source # trades[i].source
          <6>1. trades[j].source = "socket" /\ trades[i].source = "row"
            BY <1>2, <1>11, <4>3, <5>3 DEF ListInOrder, Sources
          <6>2. FromSocket(trades[j].id)
            BY <6>1 DEF FromSocket
          <6>3. ~FromSocket(n)
            <7>1. \A m \in DOMAIN trades : trades[m].id = n => m = i
              BY <4>1, <4>2
            <7> QED BY <6>1, <7>1 DEF FromSocket
          <6>4. ~(trades[j].id < n)
            BY <2>1, <3>1, <4>1, <5>1, <6>1, <6>2, <6>3 DEF RowsFollow, Streamed
          <6> QED BY <3>1, <5>1, <6>4
        <5> QED BY <5>2, <5>3
      <4>4. \A j \in DOMAIN trades : j < i \/ j = i
        BY <1>11, <4>1, <4>2
      <4>5. \A u \in Ids(trades) : u \in Ids(trades)' => n < u
        BY <4>1, <4>3, <4>4 DEF Ids
      <4> QED BY <3>2, <4>1, <4>2, <4>5
    <3> QED BY <2>1, <3>1, <3>3, <3>4 DEF Missing
  <2> QED BY <2>4, <2>5
<1> QED BY <1>9, <1>21, <1>22, <1>23, <1>24, <1>25, <1>27, <1>28, <1>29 DEF FeedInv

LEMMA NextFeed == ASSUME FeedInv, [Next]_vars PROVE FeedInv'
  BY BroadcastTradeKept, InsertTradeKept, RestartKept, GetTradesKept, ConnectKept, DisconnectKept,
     ReloadKept, OnTradeKept, AnsweredKept, FetchFailsKept, SetActiveTabKept, StutterKept DEF Next

LEMMA FeedTheorem == Spec => []FeedInv
<1>1. Init => FeedInv
  BY InitFeed
<1>2. FeedInv /\ [Next]_vars => FeedInv'
  BY NextFeed
<1> QED BY <1>1, <1>2, PTL DEF Spec

-----------------------------------------------------------------------------
(* The list, the chart and the answer of /trades stay within their limits.   *)
THEOREM FeedTypes == Spec => []TypeOK
<1>1. FeedInv => TypeOK
  BY DEF FeedInv
<1> QED BY <1>1, FeedTheorem, PTL

(* The list is newest first within each of its sources, the socket first.    *)
THEOREM OrderTheorem == Spec => []ListInOrder
<1>1. FeedInv => ListInOrder
  BY DEF FeedInv
<1> QED BY <1>1, FeedTheorem, PTL

(* The chart has every point that the list has from the socket, or newer.    *)
THEOREM ChartTheorem == Spec => []ChartHasListed
<1>1. FeedInv => ChartHasListed
  BY DEF FeedInv
<1> QED BY <1>1, FeedTheorem, PTL

(* A page with nothing in flight lists every trade that it can know of, but  *)
(* for those older than all of a full list.                                  *)
THEOREM MissingTheorem == Spec => []NothingElseMissing
<1>1. FeedInv => NothingElseMissing
  <2> SUFFICES ASSUME FeedInv, Quiet PROVE NothingElseMissing
    BY DEF NothingElseMissing
  <2>1. Missing /\ InFlight = {}
    BY NoneLeft DEF FeedInv, Quiet, InFlight
  <2> QED BY <2>1 DEF Missing, NothingElseMissing
<1> QED BY <1>1, FeedTheorem, PTL
=============================================================================
