-------------------------- MODULE WebClientProofs --------------------------
(* Proofs about Journals and about WebClient, which adds a page to it, for *)
(* any number of runs, orders, trades, connections and requests.           *)
EXTENDS WebClient, FoldProofs

-----------------------------------------------------------------------------
(* The connection of the page.                                             *)

\* What OneConnection counts besides the timers.
Live == {s \in Sock : \/ readyState[s] \in {"connecting", "open"}
                      \/ readyState[s] = "closing" /\ s \in attached}

PageInv ==
  /\ readyState \in [Sock -> {"connecting", "open", "closing", "closed"}]
  /\ mounted \in BOOLEAN
  /\ \A s \in Sock : readyState[s] \in {"connecting", "open"} => s \in attached
  /\ IF mounted THEN \/ timers = 1 /\ Live = {}
                     \/ timers = 0 /\ wsRef \in Sock /\ Live = {wsRef}
                ELSE timers = 0 /\ Live = {}

\* A new connection takes the place of none.
LEMMA ConnectKeeps ==
  ASSUME PageInv, Live = {}, Connect, mounted', timers' = 0
  PROVE  PageInv'
<1>1. PICK s \in Sock : /\ readyState[s] = "closed"
                        /\ readyState' = [readyState EXCEPT ![s] = "connecting"]
                        /\ attached' = attached \cup {s} /\ wsRef' = s
  BY DEF Connect
<1>2. readyState' \in [Sock -> {"connecting", "open", "closing", "closed"}]
  BY <1>1 DEF PageInv
<1>3. Live' = {s}
  BY <1>1, <1>2 DEF PageInv, Live
<1>4. \A t \in Sock : readyState'[t] \in {"connecting", "open"} => t \in attached'
  BY <1>1 DEF PageInv
<1> QED
  BY <1>1, <1>2, <1>3, <1>4 DEF PageInv

\* Every step leaves the page with its one connection.
LEMMA PageStep == PageInv /\ [ClientNext]_clientVars => PageInv'
<1> SUFFICES ASSUME PageInv, [ClientNext]_clientVars PROVE PageInv'
  OBVIOUS
<1>1. ASSUME UNCHANGED <<mounted, socketVars>> PROVE PageInv'
  BY <1>1 DEF PageInv, Live, socketVars
<1>2. CASE Mount
  <2>1. Connect /\ Live = {} /\ mounted' /\ timers' = 0
    BY <1>2 DEF Mount, PageInv
  <2> QED
    BY <2>1, ConnectKeeps
<1>3. CASE Reconnect
  <2>1. Connect /\ Live = {} /\ mounted' /\ timers' = 0
    BY <1>3 DEF Reconnect, PageInv, mountVars
  <2> QED
    BY <2>1, ConnectKeeps
<1>4. CASE Unmount
  <2>1. /\ mounted' = FALSE /\ timers' = 0
        /\ attached' = attached \ {wsRef}
        /\ readyState' = [readyState EXCEPT ![wsRef] = IF @ = "closed" THEN @ ELSE "closing"]
    BY <1>4 DEF Unmount, PageInv
  <2>2. readyState' \in [Sock -> {"connecting", "open", "closing", "closed"}]
    BY <2>1 DEF PageInv
  <2>3. \A s \in Sock \ {wsRef} : readyState'[s] = readyState[s] /\ s \notin Live
    BY <1>4, <2>1 DEF PageInv, Unmount
  <2>4. \A s \in Sock : s \notin Live' /\ readyState'[s] \notin {"connecting", "open"}
    <3>1. \A s \in Sock \ {wsRef} : /\ readyState'[s] \notin {"connecting", "open"}
                                   /\ ~(readyState'[s] = "closing" /\ s \in attached')
      BY <2>1, <2>3 DEF Live
    <3>2. wsRef \in Sock => readyState'[wsRef] \in {"closing", "closed"} /\ wsRef \notin attached'
      BY <2>1 DEF PageInv
    <3> QED
      BY <3>1, <3>2 DEF Live
  <2>5. Live' = {}
    BY <2>4 DEF Live
  <2> QED
    BY <2>1, <2>2, <2>4, <2>5 DEF PageInv
<1>5. ASSUME NEW s \in Sock, Open(s) PROVE PageInv'
  <2>1. Live' = Live
    BY <1>5 DEF Open, PageInv, Live
  <2> QED
    BY <1>5, <2>1 DEF Open, PageInv, mountVars
<1>6. ASSUME NEW s \in Sock, Lose(s) PROVE PageInv'
  <2>1. Live' = Live
    BY <1>6 DEF Lose, PageInv, Live
  <2> QED
    BY <1>6, <2>1 DEF Lose, PageInv, mountVars
<1>7. ASSUME NEW s \in Sock, OnClose(s) PROVE PageInv'
  <2>1. Live' = Live \ {s} /\ (s \in Live <=> s \in attached)
    BY <1>7 DEF OnClose, PageInv, Live
  <2> QED
    BY <1>7, <2>1 DEF OnClose, PageInv, mountVars
<1>8. CASE UNCHANGED clientVars
  BY <1>1, <1>8 DEF clientVars, pageVars, mountVars
<1>9. ASSUME NEW s \in Sock, Receive(s) PROVE PageInv'
  BY <1>1, <1>9 DEF Receive, mountVars
<1>10. ASSUME NEW r \in Request, Send(r) \/ \E s \in Sock : Reply(r, s) PROVE PageInv'
  BY <1>1, <1>10 DEF Send, Reply, pageVars, mountVars
<1>11. CASE ServeSeed \/ SeedFails \/ MergeSeed
  BY <1>1, <1>11 DEF ServeSeed, SeedFails, MergeSeed, mountVars
<1>12. CASE ServerAlone \/ Broadcast \/ ServerDies
  BY <1>1, <1>12 DEF ServerAlone, Broadcast, ServerDies, pageVars, mountVars
<1> QED
  BY <1>2, <1>3, <1>4, <1>5, <1>6, <1>7, <1>8, <1>9, <1>10, <1>11, <1>12 DEF ClientNext

\* At every moment a mounted page has one connection or is about to get one, and
\* an unmounted one has none: connect, onclose, the timer and the clean-up of
\* WebSocketProvider, in whatever order they come.
THEOREM AlwaysOneConnection == ClientSpec => []OneConnection
<1>1. ClientInit => PageInv
  BY DEF ClientInit, PageInv, Live
<1>2. PageInv => OneConnection
  <2>1. Cardinality({}) = 0 /\ \A s : Cardinality({s}) = 1
    BY FS_EmptySet, FS_Singleton
  <2>2. OneConnection <=> Cardinality(Live) + timers = (IF mounted THEN 1 ELSE 0)
    BY DEF OneConnection, Live
  <2>3. CASE PageInv /\ mounted
    <3>1. \/ timers = 1 /\ Cardinality(Live) = 0
          \/ timers = 0 /\ Cardinality(Live) = 1
      BY <2>1, <2>3 DEF PageInv
    <3> QED
      BY <2>2, <2>3, <3>1
  <2>4. CASE PageInv /\ ~mounted
    BY <2>1, <2>2, <2>4 DEF PageInv
  <2> QED
    BY <2>3, <2>4
<1> QED
  BY <1>1, <1>2, PageStep, PTL DEF ClientSpec

-----------------------------------------------------------------------------
(* The two journals.                                                       *)

OrderLine == [seq : Nat, batch_id : Nat, ts : Nat, type : {"answer", "new", "maker", "taker"}]
Matched == [taker : Nat, users : Party]
TradeLine == [taker : Nat, users : Party, trade_id : Nat, ts : Nat]

JournalTypeOK ==
  /\ run \in Nat \ {0}
  /\ stage \in {"idle", "match", "tell", "emit", "down"}
  /\ counters \in [event : Nat, batch : Nat \ {0}, trade : Nat]
  /\ trades \in Seq(Matched)
  /\ orders_file \in Seq(OrderLine)
  /\ trades_file \in Seq(TradeLine)

InProgress == stage \in {"match", "tell", "emit"}

\* Every line is of this run or an earlier one, and this run has drawn its numbers.
NumbersDrawn ==
  /\ \A i \in DOMAIN orders_file :
       /\ orders_file[i].ts <= run
       /\ orders_file[i].ts = run => orders_file[i].batch_id < counters.batch
  /\ \A i \in DOMAIN trades_file :
       /\ trades_file[i].ts <= run
       /\ trades_file[i].ts = run => trades_file[i].trade_id < counters.trade

TradesDistinct ==
  \A i, j \in DOMAIN trades_file :
    trades_file[i].trade_id = trades_file[j].trade_id
      /\ trades_file[i].ts = trades_file[j].ts => i = j

\* The order in progress has no taker's line yet, and the trades are all its own.
OwnTrades ==
  /\ InProgress => LinesOf(run, Batch, "taker") = 0
  /\ \A i \in DOMAIN trades : trades[i].taker = Batch
  /\ ~InProgress => trades = <<>>
  /\ stage = "tell" => trades # <<>>

\* Trades of batch b that orders.jsonl shows and trades.jsonl does not.
Waiting(b) == IF b = Batch /\ InProgress
              THEN Len(trades) - (IF stage = "tell" THEN 1 ELSE 0) ELSE 0

Balanced ==
  stage # "down" =>
    \A b \in Nat : LinesOf(run, b, "maker") = TapedOf(run, b) + Waiting(b)

\* What a run leaves behind when it ends.
LeftBy(r) ==
  \A b \in Nat :
    /\ TapedOf(r, b) <= LinesOf(r, b, "maker")
    /\ TapedOf(r, b) < LinesOf(r, b, "maker") =>
         /\ LinesOf(r, b, "taker") = 0
         /\ \A i \in DOMAIN orders_file :
              orders_file[i].ts = r => orders_file[i].batch_id <= b

EndedRuns == \A r \in 1..run : r < run \/ stage = "down" => LeftBy(r)

LossInv == /\ JournalTypeOK /\ NumbersDrawn /\ TradesDistinct
           /\ OwnTrades /\ Balanced /\ EndedRuns

\* A line more is one more to count, if it is one of those counted.
LEMMA CountAppend ==
  ASSUME NEW S, NEW s \in Seq(S), NEW e \in S, NEW G
  PROVE  /\ Cardinality({i \in DOMAIN s : s[i] \in G}) \in Nat
         /\ Cardinality({i \in DOMAIN Append(s, e) : Append(s, e)[i] \in G})
              = Cardinality({i \in DOMAIN s : s[i] \in G}) + (IF e \in G THEN 1 ELSE 0)
<1> DEFINE n == Len(s)
<1> DEFINE C == {i \in DOMAIN s : s[i] \in G}
<1> DEFINE D == {i \in DOMAIN Append(s, e) : Append(s, e)[i] \in G}
<1>1. n \in Nat /\ DOMAIN s = 1..n /\ DOMAIN Append(s, e) = 1..(n + 1)
  BY LenProperties, AppendProperties
<1>2. (\A i \in 1..n : Append(s, e)[i] = s[i]) /\ Append(s, e)[n + 1] = e
  BY <1>1, AppendProperties
<1> HIDE DEF n
<1>3. C \subseteq 1..n /\ n + 1 \notin C
  BY <1>1
<1>4. D = IF e \in G THEN C \cup {n + 1} ELSE C
  <2>1. 1..(n + 1) = 1..n \cup {n + 1}
    BY <1>1
  <2> DEFINE f == Append(s, e)
  <2>2. /\ DOMAIN f = 1..n \cup {n + 1} /\ DOMAIN s = 1..n
        /\ \A i \in 1..n : f[i] = s[i]
        /\ f[n + 1] = e
    BY <1>1, <1>2, <2>1
  <2> HIDE DEF f
  <2>3. {i \in DOMAIN f : f[i] \in G}
          = IF e \in G THEN {i \in DOMAIN s : s[i] \in G} \cup {n + 1}
                       ELSE {i \in DOMAIN s : s[i] \in G}
    BY <2>2
  <2> QED
    BY <2>3 DEF f
<1> HIDE DEF C, D
<1>5. IsFiniteSet(C)
  <2>1. IsFiniteSet(1..n)
    BY <1>1, FS_Interval
  <2> QED
    BY <1>3, <2>1, FS_Subset
<1>6. Cardinality(C) \in Nat
  BY <1>5, FS_CardinalityType
<1>7. Cardinality(C \cup {n + 1}) = Cardinality(C) + 1
  BY <1>3, <1>5, FS_AddElement
<1>8. Cardinality(D) = Cardinality(C) + (IF e \in G THEN 1 ELSE 0)
  BY <1>4, <1>6, <1>7
<1> QED
  BY <1>6, <1>8 DEF C, D

\* What emit_order_event appends.
LEMMA EmitAppends ==
  ASSUME JournalTypeOK, NEW b \in Nat, NEW kind \in {"answer", "new", "maker", "taker"},
         Emit(b, kind)
  PROVE  /\ orders_file' \in Seq(OrderLine)
         /\ counters' \in [event : Nat, batch : Nat \ {0}, trade : Nat]
         /\ counters'.batch = b + 1 /\ counters'.trade = counters.trade
         /\ \E e \in OrderLine : /\ e.ts = run /\ e.batch_id = b /\ e.type = kind
                                 /\ orders_file' = Append(orders_file, e)
<1> DEFINE e == [seq |-> counters.event, batch_id |-> b, type |-> kind, ts |-> run]
<1>1. /\ e \in OrderLine /\ orders_file' = Append(orders_file, e)
      /\ orders_file \in Seq(OrderLine)
      /\ counters \in [event : Nat, batch : Nat \ {0}, trade : Nat]
  BY DEF Emit, JournalTypeOK, OrderLine
<1>4. counters' = [event |-> counters.event + 1, batch |-> b + 1, trade |-> counters.trade]
  BY <1>1 DEF Emit
<1>2. e.ts = run /\ e.batch_id = b /\ e.type = kind
  OBVIOUS
<1> HIDE DEF e
<1>3. orders_file' \in Seq(OrderLine)
  BY <1>1, AppendProperties
<1>5. /\ counters' \in [event : Nat, batch : Nat \ {0}, trade : Nat]
      /\ counters'.batch = b + 1 /\ counters'.trade = counters.trade
  BY <1>1, <1>4
<1> QED
  BY <1>1, <1>2, <1>3, <1>5

\* Lines that are counted are some natural number of lines.
LEMMA CountsAreNat ==
  ASSUME JournalTypeOK, NEW r, NEW b, NEW type
  PROVE  LinesOf(r, b, type) \in Nat /\ TapedOf(r, b) \in Nat
<1>1. /\ IsFiniteSet(DOMAIN orders_file) /\ IsFiniteSet(DOMAIN trades_file)
  BY LenProperties, FS_Interval DEF JournalTypeOK
<1> DEFINE C == {i \in DOMAIN orders_file :
                   orders_file[i].ts = r /\ orders_file[i].batch_id = b /\ orders_file[i].type = type}
<1> DEFINE D == {i \in DOMAIN trades_file : trades_file[i].ts = r /\ trades_file[i].taker = b}
<1>2. LinesOf(r, b, type) = Cardinality(C) /\ TapedOf(r, b) = Cardinality(D)
  BY DEF LinesOf, TapedOf, Count
<1>3. C \in SUBSET DOMAIN orders_file /\ D \in SUBSET DOMAIN trades_file
  OBVIOUS
<1> HIDE DEF C, D
<1>4. IsFiniteSet(C) /\ IsFiniteSet(D)
  BY <1>1, <1>3, FS_Subset
<1> QED
  BY <1>2, <1>4, FS_CardinalityType

\* What JournalTradeSink adds to the trades of a run and a batch.
LEMMA JournalCounts ==
  ASSUME JournalTypeOK, Journal
  PROVE  /\ trades_file' \in Seq(TradeLine) /\ Head(trades) \in Matched
         /\ \E t \in TradeLine : /\ t.ts = run /\ t.trade_id = counters.trade
                                 /\ trades_file' = Append(trades_file, t)
         /\ \A r \in Nat, a \in Nat :
              TapedOf(r, a)' = TapedOf(r, a)
                + (IF r = run /\ a = Head(trades).taker THEN 1 ELSE 0)
<1> DEFINE h == Head(trades)
<1> DEFINE t == [taker |-> h.taker, users |-> h.users, trade_id |-> counters.trade, ts |-> run]
<1>1. /\ trades_file' = Append(trades_file, t) /\ trades_file \in Seq(TradeLine)
      /\ counters.trade \in Nat /\ run \in Nat /\ trades \in Seq(Matched) /\ trades # <<>>
  BY DEF Journal, JournalTypeOK
<1>2. h \in Matched
  BY <1>1, HeadTailProperties
<1> HIDE DEF h
<1>3. t \in TradeLine
  BY <1>1, <1>2 DEF Matched, TradeLine
<1>4. t.ts = run /\ t.trade_id = counters.trade /\ t.taker = h.taker
  OBVIOUS
<1> HIDE DEF t
<1>5. trades_file' \in Seq(TradeLine)
  BY <1>1, <1>3, AppendProperties
<1>6. ASSUME NEW r \in Nat, NEW a \in Nat
      PROVE  TapedOf(r, a)' = TapedOf(r, a) + (IF r = run /\ a = h.taker THEN 1 ELSE 0)
  <2> DEFINE G == {l \in TradeLine : l.ts = r /\ l.taker = a}
  <2>1. ASSUME NEW f \in Seq(TradeLine)
        PROVE  {i \in DOMAIN f : f[i].ts = r /\ f[i].taker = a}
                 = {i \in DOMAIN f : f[i] \in G}
    <3>1. \A i \in DOMAIN f : f[i] \in TradeLine
      BY ElementOfSeq, LenProperties
    <3> QED
      BY <3>1
  <2>2. t \in G <=> r = run /\ a = h.taker
    BY <1>3, <1>4
  <2>3. TapedOf(r, a) = Cardinality({i \in DOMAIN trades_file : trades_file[i] \in G})
    BY <1>1, <2>1 DEF TapedOf, Count
  <2>4. TapedOf(r, a)'
          = Cardinality({i \in DOMAIN Append(trades_file, t) : Append(trades_file, t)[i] \in G})
    BY <1>1, <1>5, <2>1 DEF TapedOf, Count
  <2> HIDE DEF G
  <2>5. Cardinality({i \in DOMAIN Append(trades_file, t) : Append(trades_file, t)[i] \in G})
          = Cardinality({i \in DOMAIN trades_file : trades_file[i] \in G}) + (IF t \in G THEN 1 ELSE 0)
    <3>1. trades_file \in Seq(TradeLine)
      BY <1>1
    <3> QED
      BY <1>3, <3>1, CountAppend
  <2> QED
    BY <2>2, <2>3, <2>4, <2>5
<1> QED
  BY <1>1, <1>2, <1>3, <1>4, <1>5, <1>6 DEF h

\* What it adds to the lines of a kind, of a run and a batch.
LEMMA EmitCount ==
  ASSUME JournalTypeOK, NEW b \in Nat, NEW kind \in {"answer", "new", "maker", "taker"},
         Emit(b, kind),
         NEW r \in Nat, NEW a \in Nat, NEW type \in {"answer", "new", "maker", "taker"}
  PROVE  LinesOf(r, a, type)' = LinesOf(r, a, type)
           + (IF r = run /\ a = b /\ type = kind THEN 1 ELSE 0)
<1>1. PICK e \in OrderLine : /\ e.ts = run /\ e.batch_id = b /\ e.type = kind
                             /\ orders_file' = Append(orders_file, e)
  BY EmitAppends
<1>2. orders_file \in Seq(OrderLine) /\ orders_file' \in Seq(OrderLine)
  BY EmitAppends DEF JournalTypeOK
<1> DEFINE G == {l \in OrderLine : l.ts = r /\ l.batch_id = a /\ l.type = type}
<1>3. ASSUME NEW f \in Seq(OrderLine)
      PROVE  {i \in DOMAIN f : f[i].ts = r /\ f[i].batch_id = a /\ f[i].type = type}
               = {i \in DOMAIN f : f[i] \in G}
  <2>1. \A i \in DOMAIN f : f[i] \in OrderLine
    BY ElementOfSeq, LenProperties
  <2> QED
    BY <2>1
<1>4. e \in G <=> r = run /\ a = b /\ type = kind
  BY <1>1
<1>5. LinesOf(r, a, type) = Cardinality({i \in DOMAIN orders_file : orders_file[i] \in G})
  BY <1>2, <1>3 DEF LinesOf, Count
<1>6. LinesOf(r, a, type)'
        = Cardinality({i \in DOMAIN Append(orders_file, e) : Append(orders_file, e)[i] \in G})
  BY <1>1, <1>2, <1>3 DEF LinesOf, Count
<1> HIDE DEF G
<1>7. Cardinality({i \in DOMAIN Append(orders_file, e) : Append(orders_file, e)[i] \in G})
        = Cardinality({i \in DOMAIN orders_file : orders_file[i] \in G}) + (IF e \in G THEN 1 ELSE 0)
  <2>1. orders_file \in Seq(OrderLine)
    BY <1>2
  <2> QED
    BY <2>1, CountAppend
<1> QED
  BY <1>4, <1>5, <1>6, <1>7

\* An append to orders.jsonl, line by line.
LEMMA EmitLines ==
  ASSUME JournalTypeOK, NEW b \in Nat, NEW kind \in {"answer", "new", "maker", "taker"},
         Emit(b, kind)
  PROVE  \A i \in DOMAIN orders_file' :
           \/ i \in DOMAIN orders_file /\ orders_file'[i] = orders_file[i]
           \/ orders_file'[i].ts = run /\ orders_file'[i].batch_id = b
<1>1. PICK e \in OrderLine : /\ e.ts = run /\ e.batch_id = b
                             /\ orders_file' = Append(orders_file, e)
  BY EmitAppends
<1>2. orders_file \in Seq(OrderLine)
  BY DEF JournalTypeOK
<1> DEFINE n == Len(orders_file)
<1>3. /\ n \in Nat /\ DOMAIN orders_file = 1..n /\ DOMAIN orders_file' = 1..(n + 1)
      /\ (\A i \in 1..n : orders_file'[i] = orders_file[i]) /\ orders_file'[n + 1] = e
  BY <1>1, <1>2, AppendProperties, LenProperties
<1> HIDE DEF n
<1>4. 1..(n + 1) = 1..n \cup {n + 1}
  BY <1>3
<1> QED
  BY <1>1, <1>3, <1>4

\* While a run lasts, what earlier runs left stays as it is.
LEMMA EndedKept ==
  ASSUME LossInv, stage # "down", stage' # "down", run' = run,
         \A r \in 1..run, b \in Nat : r < run =>
           /\ LinesOf(r, b, "maker")' = LinesOf(r, b, "maker")
           /\ LinesOf(r, b, "taker")' = LinesOf(r, b, "taker")
           /\ TapedOf(r, b)' = TapedOf(r, b),
         \A i \in DOMAIN orders_file' : orders_file'[i].ts # run =>
           i \in DOMAIN orders_file /\ orders_file'[i] = orders_file[i]
  PROVE  EndedRuns'
<1>1. run \in Nat
  BY DEF LossInv, JournalTypeOK
<1>2. ASSUME NEW r \in 1..run, r < run PROVE LeftBy(r)'
  <2>1. LeftBy(r) /\ r # run
    BY <1>1, <1>2 DEF LossInv, EndedRuns
  <2> QED
    BY <1>2, <2>1 DEF LeftBy
<1> QED
  BY <1>2 DEF EndedRuns

\* A line of the order in progress (Fill), or the one line of another (Answer),
\* or the first (Accept) or last line of it (Complete).
LEMMA EmitKeeps ==
  ASSUME LossInv, stage # "down", stage' # "down", run' = run, UNCHANGED trades_file,
         NEW b \in Nat, b = counters.batch \/ b = Batch,
         NEW kind \in {"answer", "new", "maker", "taker"}, Emit(b, kind)
  PROVE  /\ orders_file' \in Seq(OrderLine)
         /\ counters' \in [event : Nat, batch : Nat \ {0}, trade : Nat]
         /\ NumbersDrawn' /\ TradesDistinct' /\ EndedRuns'
<1>1. JournalTypeOK /\ NumbersDrawn /\ TradesDistinct /\ run \in Nat
  BY DEF LossInv, JournalTypeOK
<1>2. counters \in [event : Nat, batch : Nat \ {0}, trade : Nat]
  BY <1>1 DEF JournalTypeOK
<1>3. orders_file' \in Seq(OrderLine)
  BY <1>1, EmitAppends
<1>4. /\ counters' \in [event : Nat, batch : Nat \ {0}, trade : Nat]
      /\ counters'.batch = b + 1 /\ counters'.trade = counters.trade
  BY <1>1, EmitAppends
<1>5. \A i \in DOMAIN orders_file' :
        \/ i \in DOMAIN orders_file /\ orders_file'[i] = orders_file[i]
        \/ orders_file'[i].ts = run /\ orders_file'[i].batch_id = b
  BY <1>1, EmitLines
<1>6. counters.batch <= b + 1
  BY <1>2 DEF Batch
<1>7. NumbersDrawn'
  <2>1. \A i \in DOMAIN orders_file : orders_file[i].batch_id \in Nat
    <3>1. orders_file \in Seq(OrderLine)
      BY <1>1 DEF JournalTypeOK
    <3>2. \A i \in DOMAIN orders_file : orders_file[i] \in OrderLine
      BY <3>1, ElementOfSeq, LenProperties
    <3> QED
      BY <3>2 DEF OrderLine
  <2>2. \A i \in DOMAIN orders_file' :
          /\ orders_file'[i].ts <= run
          /\ orders_file'[i].ts = run => orders_file'[i].batch_id < b + 1
    <3>1. \A x \in Nat : x < counters.batch => x < b + 1
      BY <1>2, <1>6
    <3>2. \A i \in DOMAIN orders_file :
            /\ orders_file[i].ts <= run
            /\ orders_file[i].ts = run => orders_file[i].batch_id < b + 1
      BY <1>1, <2>1, <3>1 DEF NumbersDrawn
    <3>3. b < b + 1 /\ run <= run
      BY <1>1
    <3> QED
      BY <1>5, <3>2, <3>3
  <2>3. counters'.batch = b + 1 /\ counters'.trade = counters.trade
    BY <1>4
  <2> QED
    BY <1>1, <2>2, <2>3 DEF NumbersDrawn
<1>8. TradesDistinct'
  BY <1>1 DEF TradesDistinct
<1>9. EndedRuns'
  <2>0. \A r \in Nat, a \in Nat : \A type \in {"answer", "new", "maker", "taker"} :
          LinesOf(r, a, type)' = LinesOf(r, a, type)
            + (IF r = run /\ a = b /\ type = kind THEN 1 ELSE 0)
    BY <1>1, EmitCount
  <2>1. \A r \in 1..run, a \in Nat : r < run =>
           /\ LinesOf(r, a, "maker")' = LinesOf(r, a, "maker")
           /\ LinesOf(r, a, "taker")' = LinesOf(r, a, "taker")
           /\ TapedOf(r, a)' = TapedOf(r, a)
    <3> TAKE r \in 1..run, a \in Nat
    <3> HAVE r < run
    <3>1. LinesOf(r, a, "maker") \in Nat /\ LinesOf(r, a, "taker") \in Nat
      BY <1>1, CountsAreNat
    <3>2. r \in Nat /\ r # run
      BY <1>1
    <3>3. \A type \in {"answer", "new", "maker", "taker"} :
            LinesOf(r, a, type)' = LinesOf(r, a, type)
              + (IF r = run /\ a = b /\ type = kind THEN 1 ELSE 0)
      BY <2>0, <3>2
    <3>4. \A type \in {"answer", "new", "maker", "taker"} :
            LinesOf(r, a, type)' = LinesOf(r, a, type) + 0
      BY <3>2, <3>3
    <3>5. /\ LinesOf(r, a, "maker")' = LinesOf(r, a, "maker") + 0
          /\ LinesOf(r, a, "taker")' = LinesOf(r, a, "taker") + 0
      BY <3>4
    <3> QED
      BY <3>1, <3>5 DEF TapedOf, Count
  <2>2. \A i \in DOMAIN orders_file' : orders_file'[i].ts # run =>
           i \in DOMAIN orders_file /\ orders_file'[i] = orders_file[i]
    BY <1>5
  <2> QED
    BY <2>1, <2>2, EndedKept
<1> QED
  BY <1>3, <1>4, <1>7, <1>8, <1>9

\* Counts do not depend on anything but the files.
LEMMA SameFiles ==
  ASSUME NEW r, NEW b, NEW type
  PROVE  /\ UNCHANGED orders_file => LinesOf(r, b, type)' = LinesOf(r, b, type)
         /\ UNCHANGED trades_file => TapedOf(r, b)' = TapedOf(r, b)
BY DEF LinesOf, TapedOf, Count

\* Of a number that was not drawn there are no lines.
LEMMA NothingCounted ==
  ASSUME NEW r, NEW b
  PROVE  /\ (\A i \in DOMAIN orders_file : ~(orders_file[i].ts = r /\ orders_file[i].batch_id = b))
              => \A type : LinesOf(r, b, type) = 0
         /\ (\A i \in DOMAIN trades_file : trades_file[i].ts # r) => TapedOf(r, b) = 0
<1>1. Cardinality({}) = 0
  BY FS_EmptySet
<1>2. ASSUME \A i \in DOMAIN orders_file : ~(orders_file[i].ts = r /\ orders_file[i].batch_id = b),
             NEW type
      PROVE  LinesOf(r, b, type) = 0
  <2>1. {i \in DOMAIN orders_file : orders_file[i].ts = r /\ orders_file[i].batch_id = b
                                      /\ orders_file[i].type = type} = {}
    BY <1>2
  <2> QED
    BY <1>1, <2>1 DEF LinesOf, Count
<1>3. ASSUME \A i \in DOMAIN trades_file : trades_file[i].ts # r
      PROVE  TapedOf(r, b) = 0
  <2>1. {i \in DOMAIN trades_file : trades_file[i].ts = r /\ trades_file[i].taker = b} = {}
    BY <1>3
  <2> QED
    BY <1>1, <2>1 DEF TapedOf, Count
<1> QED
  BY <1>2, <1>3

LEMMA JournalFacts ==
  ASSUME LossInv
  PROVE  /\ JournalTypeOK /\ run \in Nat /\ run > 0
         /\ counters \in [event : Nat, batch : Nat \ {0}, trade : Nat]
         /\ Batch \in Nat /\ counters.batch \in Nat /\ Batch + 1 = counters.batch
         /\ Batch # counters.batch
         /\ trades \in Seq(Matched)
<1>1. JournalTypeOK
  BY DEF LossInv
<1>2. /\ run \in Nat /\ run > 0 /\ counters \in [event : Nat, batch : Nat \ {0}, trade : Nat]
      /\ trades \in Seq(Matched)
  BY <1>1 DEF JournalTypeOK
<1>3. counters.batch \in Nat /\ counters.batch > 0
  BY <1>2
<1> QED
  BY <1>1, <1>2, <1>3 DEF Batch

\* A line of its own for a refused order or a cancellation.
LEMMA AnswerKeeps == ASSUME LossInv, Answer PROVE LossInv'
<1>1. /\ JournalTypeOK /\ run \in Nat /\ counters.batch \in Nat
  BY JournalFacts
<1>2. /\ stage = "idle" /\ stage' = "idle" /\ Emit(counters.batch, "answer")
      /\ run' = run /\ trades' = trades /\ trades_file' = trades_file
  BY DEF Answer
<1>3. /\ orders_file' \in Seq(OrderLine)
      /\ counters' \in [event : Nat, batch : Nat \ {0}, trade : Nat]
      /\ NumbersDrawn' /\ TradesDistinct' /\ EndedRuns'
  BY <1>1, <1>2, EmitKeeps
<1>4. JournalTypeOK'
  BY <1>1, <1>2, <1>3 DEF JournalTypeOK
<1>5. OwnTrades'
  <2>1. trades = <<>>
    BY <1>2 DEF LossInv, OwnTrades, InProgress
  <2> QED
    BY <1>2, <2>1 DEF OwnTrades, InProgress
<1>6. ASSUME NEW b \in Nat PROVE LinesOf(run, b, "maker")' = TapedOf(run, b)' + Waiting(b)'
  <2>1. LinesOf(run, b, "maker") = TapedOf(run, b) + Waiting(b)
    BY <1>2 DEF LossInv, Balanced
  <2>2. LinesOf(run, b, "maker")' = LinesOf(run, b, "maker") + 0 /\ TapedOf(run, b)' = TapedOf(run, b)
    <3>1. LinesOf(run, b, "maker")' = LinesOf(run, b, "maker")
            + (IF run = run /\ b = counters.batch /\ "maker" = "answer" THEN 1 ELSE 0)
      BY <1>1, <1>2, EmitCount
    <3> QED
      BY <1>2, <3>1, SameFiles
  <2>3. Waiting(b) = 0 /\ Waiting(b)' = 0
    BY <1>2 DEF Waiting, InProgress
  <2>4. LinesOf(run, b, "maker") \in Nat
    BY <1>1, CountsAreNat
  <2> QED
    BY <2>1, <2>2, <2>3, <2>4
<1>7. Balanced'
  BY <1>2, <1>6 DEF Balanced
<1> QED
  BY <1>3, <1>4, <1>5, <1>7 DEF LossInv

\* An order is accepted: nothing has been written of its batch before.
LEMMA AcceptKeeps == ASSUME LossInv, Accept PROVE LossInv'
<1>1. /\ JournalTypeOK /\ run \in Nat /\ counters.batch \in Nat
  BY JournalFacts
<1>2. /\ stage = "idle" /\ stage' = "match" /\ Emit(counters.batch, "new")
      /\ run' = run /\ trades' = trades /\ trades_file' = trades_file
  BY DEF Accept
<1>3. /\ orders_file' \in Seq(OrderLine)
      /\ counters' \in [event : Nat, batch : Nat \ {0}, trade : Nat]
      /\ NumbersDrawn' /\ TradesDistinct' /\ EndedRuns'
  BY <1>1, <1>2, EmitKeeps
<1>4. JournalTypeOK'
  BY <1>1, <1>2, <1>3 DEF JournalTypeOK
<1>5. trades = <<>>
  BY <1>2 DEF LossInv, OwnTrades, InProgress
<1>6. PICK a \in Nat : a = counters.batch
  BY <1>1
<1>7. Batch' = a
  BY <1>1, <1>2, <1>6, EmitAppends DEF Batch
<1>8. LinesOf(run, a, "taker")' = 0
  <2>1. \A i \in DOMAIN orders_file : ~(orders_file[i].ts = run /\ orders_file[i].batch_id = a)
    BY <1>1, <1>6 DEF LossInv, NumbersDrawn
  <2>2. LinesOf(run, a, "taker") = 0
    BY <2>1, NothingCounted
  <2>3. LinesOf(run, a, "taker")' = LinesOf(run, a, "taker")
          + (IF run = run /\ a = counters.batch /\ "taker" = "new" THEN 1 ELSE 0)
    BY <1>1, <1>2, EmitCount
  <2> QED
    BY <2>2, <2>3
<1>9. OwnTrades'
  BY <1>2, <1>5, <1>7, <1>8 DEF OwnTrades, InProgress
<1>10. ASSUME NEW b \in Nat PROVE LinesOf(run, b, "maker")' = TapedOf(run, b)' + Waiting(b)'
  <2>1. LinesOf(run, b, "maker") = TapedOf(run, b) + Waiting(b)
    BY <1>2 DEF LossInv, Balanced
  <2>2. LinesOf(run, b, "maker")' = LinesOf(run, b, "maker") + 0 /\ TapedOf(run, b)' = TapedOf(run, b)
    <3>1. LinesOf(run, b, "maker")' = LinesOf(run, b, "maker")
            + (IF run = run /\ b = counters.batch /\ "maker" = "new" THEN 1 ELSE 0)
      BY <1>1, <1>2, EmitCount
    <3> QED
      BY <1>2, <3>1, SameFiles
  <2>3. Waiting(b) = 0 /\ Waiting(b)' = 0
    <3>1. Len(trades) = 0
      BY <1>5
    <3> QED
      BY <1>2, <3>1 DEF Waiting, InProgress
  <2>4. LinesOf(run, b, "maker") \in Nat
    BY <1>1, CountsAreNat
  <2> QED
    BY <2>1, <2>2, <2>3, <2>4
<1>11. Balanced'
  BY <1>2, <1>10 DEF Balanced
<1> QED
  BY <1>3, <1>4, <1>9, <1>11 DEF LossInv

\* A fill: one maker's line more, and one trade more that waits.
LEMMA FillKeeps == ASSUME LossInv, Fill PROVE LossInv'
<1>1. /\ JournalTypeOK /\ run \in Nat /\ Batch \in Nat /\ trades \in Seq(Matched)
      /\ counters.batch = Batch + 1
  BY JournalFacts
<1>2. /\ stage = "match" /\ stage' = "match" /\ Emit(Batch, "maker")
      /\ run' = run /\ trades_file' = trades_file
  BY DEF Fill
<1>3. /\ orders_file' \in Seq(OrderLine)
      /\ counters' \in [event : Nat, batch : Nat \ {0}, trade : Nat]
      /\ NumbersDrawn' /\ TradesDistinct' /\ EndedRuns'
  BY <1>1, <1>2, EmitKeeps
<1>4. PICK t \in Matched : t.taker = Batch /\ trades' = Append(trades, t)
  <2>1. PICK p \in Party : trades' = Append(trades, [taker |-> Batch, users |-> p])
    BY DEF Fill
  <2> QED
    BY <1>1, <2>1 DEF Matched
<1> DEFINE n == Len(trades)
<1>5. /\ n \in Nat /\ DOMAIN trades = 1..n /\ trades' \in Seq(Matched)
      /\ DOMAIN trades' = 1..(n + 1) /\ Len(trades') = n + 1
      /\ (\A i \in 1..n : trades'[i] = trades[i]) /\ trades'[n + 1] = t
  BY <1>1, <1>4, AppendProperties, LenProperties
<1> HIDE DEF n
<1>6. JournalTypeOK'
  BY <1>1, <1>2, <1>3, <1>5 DEF JournalTypeOK
<1>7. PICK a \in Nat : a = Batch
  BY <1>1
<1>8. Batch' = a
  BY <1>1, <1>2, <1>7, EmitAppends DEF Batch
<1>9. OwnTrades'
  <2>1. LinesOf(run, a, "taker") = 0
    BY <1>2, <1>7 DEF LossInv, OwnTrades, InProgress
  <2>2. LinesOf(run, a, "taker")' = LinesOf(run, a, "taker")
          + (IF run = run /\ a = Batch /\ "taker" = "maker" THEN 1 ELSE 0)
    BY <1>1, <1>2, EmitCount
  <2>3. LinesOf(run, a, "taker")' = 0
    BY <2>1, <2>2
  <2>4. \A i \in DOMAIN trades' : trades'[i].taker = a
    <3>1. \A i \in 1..n : trades[i].taker = a
      BY <1>5, <1>7 DEF LossInv, OwnTrades
    <3>2. 1..(n + 1) = 1..n \cup {n + 1}
      BY <1>5
    <3> QED
      BY <1>4, <1>5, <1>7, <3>1, <3>2
  <2> QED
    BY <1>2, <1>8, <2>3, <2>4 DEF OwnTrades, InProgress
<1>10. ASSUME NEW b \in Nat PROVE LinesOf(run, b, "maker")' = TapedOf(run, b)' + Waiting(b)'
  <2>1. LinesOf(run, b, "maker") = TapedOf(run, b) + Waiting(b)
    BY <1>2 DEF LossInv, Balanced
  <2>2. LinesOf(run, b, "maker")' = LinesOf(run, b, "maker") + (IF b = a THEN 1 ELSE 0)
    <3>1. LinesOf(run, b, "maker")' = LinesOf(run, b, "maker")
            + (IF run = run /\ b = Batch /\ "maker" = "maker" THEN 1 ELSE 0)
      BY <1>1, <1>2, EmitCount
    <3> QED
      BY <1>7, <3>1
  <2>3. TapedOf(run, b)' = TapedOf(run, b)
    BY <1>2, SameFiles
  <2>4. Waiting(b) = (IF b = a THEN n ELSE 0) /\ Waiting(b)' = (IF b = a THEN n + 1 ELSE 0)
    BY <1>2, <1>5, <1>7, <1>8 DEF Waiting, InProgress, n
  <2>5. LinesOf(run, b, "maker") \in Nat /\ TapedOf(run, b) \in Nat
    BY <1>1, CountsAreNat
  <2> QED
    BY <1>5, <2>1, <2>2, <2>3, <2>4, <2>5
<1>11. Balanced'
  BY <1>2, <1>10 DEF Balanced
<1> QED
  BY <1>3, <1>6, <1>9, <1>11 DEF LossInv

\* A trade is journaled: it no longer waits.
LEMMA JournalKeeps == ASSUME LossInv, Journal PROVE LossInv'
<1>1. /\ JournalTypeOK /\ run \in Nat /\ Batch \in Nat /\ trades \in Seq(Matched)
      /\ counters \in [event : Nat, batch : Nat \ {0}, trade : Nat]
  BY JournalFacts
<1>2. /\ stage \in {"match", "emit"} /\ stage' = "tell" /\ trades # <<>>
      /\ run' = run /\ trades' = trades /\ orders_file' = orders_file
      /\ counters' = [counters EXCEPT !.trade = @ + 1]
  BY DEF Journal
<1>3. /\ counters' \in [event : Nat, batch : Nat \ {0}, trade : Nat]
      /\ counters'.batch = counters.batch /\ counters'.trade = counters.trade + 1
  BY <1>1, <1>2
<1>4. PICK t \in TradeLine : /\ t.ts = run /\ t.trade_id = counters.trade
                             /\ trades_file' = Append(trades_file, t)
  BY <1>1, JournalCounts
<1> DEFINE n == Len(trades_file)
<1>5. /\ n \in Nat /\ DOMAIN trades_file = 1..n /\ trades_file' \in Seq(TradeLine)
      /\ DOMAIN trades_file' = 1..(n + 1)
      /\ (\A i \in 1..n : trades_file'[i] = trades_file[i]) /\ trades_file'[n + 1] = t
  BY <1>1, <1>4, AppendProperties, LenProperties DEF JournalTypeOK
<1> HIDE DEF n
<1>6. DOMAIN trades_file' = DOMAIN trades_file \cup {n + 1} /\ n + 1 \notin DOMAIN trades_file
  BY <1>5
<1>7. JournalTypeOK'
  BY <1>1, <1>2, <1>3, <1>5 DEF JournalTypeOK
<1>8. \A i \in DOMAIN trades_file : /\ trades_file[i].ts <= run
                                    /\ trades_file[i].ts = run => trades_file[i].trade_id < counters.trade
                                    /\ trades_file[i].trade_id \in Nat
  <2>1. \A i \in DOMAIN trades_file : trades_file[i] \in TradeLine
    BY <1>1, ElementOfSeq, LenProperties DEF JournalTypeOK
  <2>2. \A i \in DOMAIN trades_file : trades_file[i].trade_id \in Nat
    BY <2>1 DEF TradeLine
  <2> QED
    BY <2>2 DEF LossInv, NumbersDrawn
<1>9. counters.trade \in Nat
  BY <1>1
<1>10. NumbersDrawn'
  <2>1. \A i \in DOMAIN trades_file' :
          /\ trades_file'[i].ts <= run
          /\ trades_file'[i].ts = run => trades_file'[i].trade_id < counters.trade + 1
    BY <1>1, <1>4, <1>5, <1>6, <1>8, <1>9
  <2>2. \A i \in DOMAIN orders_file :
          /\ orders_file[i].ts <= run
          /\ orders_file[i].ts = run => orders_file[i].batch_id < counters.batch
    BY DEF LossInv, NumbersDrawn
  <2> QED
    BY <1>2, <1>3, <2>1, <2>2 DEF NumbersDrawn
<1>11. TradesDistinct'
  <2>1. \A i \in DOMAIN trades_file :
          ~(trades_file[i].ts = run /\ trades_file[i].trade_id = counters.trade)
    BY <1>8, <1>9
  <2>2. \A i, j \in DOMAIN trades_file :
          trades_file[i].trade_id = trades_file[j].trade_id
            /\ trades_file[i].ts = trades_file[j].ts => i = j
    BY DEF LossInv, TradesDistinct
  <2> QED
    BY <1>4, <1>5, <1>6, <2>1, <2>2 DEF TradesDistinct
<1>12. PICK a \in Nat : a = Batch
  BY <1>1
<1>13. Batch' = a
  BY <1>3, <1>12 DEF Batch
<1>14. Head(trades).taker = a
  <2>1. Head(trades) = trades[1] /\ 1 \in DOMAIN trades
    BY <1>1, <1>2, HeadTailProperties, LenProperties, EmptySeq
  <2> QED
    BY <1>12, <2>1 DEF LossInv, OwnTrades
<1>15. OwnTrades'
  <2>1. LinesOf(run, a, "taker") = 0
    BY <1>2, <1>12 DEF LossInv, OwnTrades, InProgress
  <2>2. LinesOf(run, a, "taker")' = 0
    BY <1>2, <2>1, SameFiles
  <2>3. \A i \in DOMAIN trades : trades[i].taker = a
    BY <1>12 DEF LossInv, OwnTrades
  <2> QED
    BY <1>2, <1>13, <2>2, <2>3 DEF OwnTrades, InProgress
<1>16. Len(trades) \in Nat
  BY <1>1, LenProperties
<1>17. ASSUME NEW b \in Nat PROVE LinesOf(run, b, "maker")' = TapedOf(run, b)' + Waiting(b)'
  <2>1. LinesOf(run, b, "maker") = TapedOf(run, b) + Waiting(b)
    BY <1>2 DEF LossInv, Balanced
  <2>2. TapedOf(run, b)' = TapedOf(run, b) + (IF b = a THEN 1 ELSE 0)
    <3>1. PICK r \in Nat : r = run
      BY <1>1
    <3>2. TapedOf(r, b)' = TapedOf(r, b) + (IF r = run /\ b = Head(trades).taker THEN 1 ELSE 0)
      BY <1>1, JournalCounts
    <3> QED
      BY <1>2, <1>14, <3>1, <3>2
  <2>3. LinesOf(run, b, "maker")' = LinesOf(run, b, "maker")
    BY <1>2, SameFiles
  <2>4. /\ Waiting(b) = (IF b = a THEN Len(trades) ELSE 0)
        /\ Waiting(b)' = (IF b = a THEN Len(trades) - 1 ELSE 0)
    BY <1>2, <1>12, <1>13, <1>16 DEF Waiting, InProgress
  <2>5. LinesOf(run, b, "maker") \in Nat /\ TapedOf(run, b) \in Nat
    BY <1>1, CountsAreNat
  <2> QED
    BY <1>16, <2>1, <2>2, <2>3, <2>4, <2>5
<1>18. Balanced'
  BY <1>2, <1>17 DEF Balanced
<1>19. EndedRuns'
  <2>1. \A r \in 1..run, b \in Nat : r < run =>
           /\ LinesOf(r, b, "maker")' = LinesOf(r, b, "maker")
           /\ LinesOf(r, b, "taker")' = LinesOf(r, b, "taker")
           /\ TapedOf(r, b)' = TapedOf(r, b)
    <3> TAKE r \in 1..run, b \in Nat
    <3> HAVE r < run
    <3>1. r \in Nat /\ r # run
      BY <1>1
    <3>2. TapedOf(r, b)' = TapedOf(r, b) + (IF r = run /\ b = Head(trades).taker THEN 1 ELSE 0)
      BY <1>1, <3>1, JournalCounts
    <3>3. TapedOf(r, b) \in Nat
      BY <1>1, CountsAreNat
    <3>4. TapedOf(r, b)' = TapedOf(r, b)
      BY <3>1, <3>2, <3>3
    <3> QED
      BY <1>2, <3>4, SameFiles
  <2> QED
    BY <1>2, <2>1, EndedKept
<1> QED
  BY <1>7, <1>10, <1>11, <1>15, <1>18, <1>19 DEF LossInv

\* A trade is broadcast, and forgotten by the loop of emit_trades.
LEMMA TellKeeps == ASSUME LossInv, Tell PROVE LossInv'
<1>1. /\ JournalTypeOK /\ run \in Nat /\ Batch \in Nat /\ trades \in Seq(Matched)
  BY JournalFacts
<1>2. /\ stage = "tell" /\ stage' = "emit" /\ trades' = Tail(trades)
      /\ UNCHANGED <<run, counters, orders_file, trades_file>>
  BY DEF Tell
<1>3. trades # <<>>
  BY <1>2 DEF LossInv, OwnTrades
<1>4. /\ trades' \in Seq(Matched) /\ Len(trades') = Len(trades) - 1 /\ Len(trades) \in Nat
      /\ \A i \in DOMAIN trades' : i + 1 \in DOMAIN trades /\ trades'[i] = trades[i + 1]
  BY <1>1, <1>2, <1>3, HeadTailProperties, LenProperties, EmptySeq
<1>5. JournalTypeOK' /\ NumbersDrawn' /\ TradesDistinct'
  BY <1>1, <1>2, <1>4 DEF JournalTypeOK, LossInv, NumbersDrawn, TradesDistinct
<1>6. PICK a \in Nat : a = Batch
  BY <1>1
<1>7. Batch' = a
  BY <1>2, <1>6 DEF Batch
<1>8. OwnTrades'
  <2>1. LinesOf(run, a, "taker")' = 0
    <3>1. LinesOf(run, a, "taker") = 0
      BY <1>2, <1>6 DEF LossInv, OwnTrades, InProgress
    <3> QED
      BY <1>2, <3>1, SameFiles
  <2>2. \A i \in DOMAIN trades' : trades'[i].taker = a
    BY <1>4, <1>6 DEF LossInv, OwnTrades
  <2> QED
    BY <1>2, <1>7, <2>1, <2>2 DEF OwnTrades, InProgress
<1>9. ASSUME NEW b \in Nat PROVE LinesOf(run, b, "maker")' = TapedOf(run, b)' + Waiting(b)'
  <2>1. LinesOf(run, b, "maker") = TapedOf(run, b) + Waiting(b)
    BY <1>2 DEF LossInv, Balanced
  <2>2. TapedOf(run, b)' = TapedOf(run, b) /\ LinesOf(run, b, "maker")' = LinesOf(run, b, "maker")
    BY <1>2, SameFiles
  <2>3. Waiting(b)' = Waiting(b)
    BY <1>2, <1>4, <1>6, <1>7 DEF Waiting, InProgress
  <2> QED
    BY <2>1, <2>2, <2>3
<1>10. Balanced'
  BY <1>2, <1>9 DEF Balanced
<1>11. EndedRuns'
  <2>1. \A r \in 1..run, b \in Nat : r < run =>
           /\ LinesOf(r, b, "maker")' = LinesOf(r, b, "maker")
           /\ LinesOf(r, b, "taker")' = LinesOf(r, b, "taker")
           /\ TapedOf(r, b)' = TapedOf(r, b)
    BY <1>2 DEF LinesOf, TapedOf, Count
  <2> QED
    BY <1>2, <2>1, EndedKept
<1> QED
  BY <1>5, <1>8, <1>10, <1>11 DEF LossInv

\* The taker's line is written when none of its trades waits.
LEMMA CompleteKeeps == ASSUME LossInv, Complete PROVE LossInv'
<1>1. /\ JournalTypeOK /\ run \in Nat /\ Batch \in Nat /\ Batch + 1 = counters.batch
  BY JournalFacts
<1>2. /\ stage \in {"match", "emit"} /\ stage' = "idle" /\ trades = <<>>
      /\ UNCHANGED <<run, trades, trades_file>>
  BY DEF Complete
<1>3. Len(trades) = 0
  BY <1>2
<1>4. \A b \in Nat : Waiting(b) = 0 /\ Waiting(b)' = 0
  BY <1>2, <1>3 DEF Waiting, InProgress
<1>5. OwnTrades'
  BY <1>2 DEF OwnTrades, InProgress
<1>6. CASE stage = "emit"
  <2>1. Emit(Batch, "taker")
    BY <1>6 DEF Complete
  <2>2. /\ orders_file' \in Seq(OrderLine)
        /\ counters' \in [event : Nat, batch : Nat \ {0}, trade : Nat]
        /\ NumbersDrawn' /\ TradesDistinct' /\ EndedRuns'
    BY <1>1, <1>2, <2>1, EmitKeeps
  <2>3. JournalTypeOK'
    BY <1>1, <1>2, <2>2 DEF JournalTypeOK
  <2>4. ASSUME NEW b \in Nat PROVE LinesOf(run, b, "maker")' = TapedOf(run, b)' + Waiting(b)'
    <3>1. LinesOf(run, b, "maker") = TapedOf(run, b) + Waiting(b)
      BY <1>2 DEF LossInv, Balanced
    <3>2. LinesOf(run, b, "maker")' = LinesOf(run, b, "maker")
            + (IF run = run /\ b = Batch /\ "maker" = "taker" THEN 1 ELSE 0)
      BY <1>1, <1>2, <2>1, EmitCount
    <3>3. TapedOf(run, b)' = TapedOf(run, b)
      BY <1>2, SameFiles
    <3>4. LinesOf(run, b, "maker") \in Nat
      BY <1>1, CountsAreNat
    <3> QED
      BY <1>4, <3>1, <3>2, <3>3, <3>4
  <2> QED
    BY <1>2, <1>5, <2>2, <2>3, <2>4 DEF LossInv, Balanced
<1>7. CASE stage = "match"
  <2>1. UNCHANGED <<counters, orders_file>>
    BY <1>7 DEF Complete
  <2>2. JournalTypeOK' /\ NumbersDrawn' /\ TradesDistinct'
    BY <1>1, <1>2, <2>1 DEF JournalTypeOK, LossInv, NumbersDrawn, TradesDistinct
  <2>3. Balanced'
    <3>1. ASSUME NEW b \in Nat PROVE LinesOf(run, b, "maker")' = TapedOf(run, b)' + Waiting(b)'
      <4>1. LinesOf(run, b, "maker") = TapedOf(run, b) + Waiting(b)
        BY <1>2 DEF LossInv, Balanced
      <4>2. TapedOf(run, b)' = TapedOf(run, b) /\ LinesOf(run, b, "maker")' = LinesOf(run, b, "maker")
        BY <1>2, <2>1, SameFiles
      <4> QED
        BY <1>4, <4>1, <4>2
    <3> QED
      BY <3>1 DEF Balanced
  <2>4. EndedRuns'
    <3>1. \A r \in 1..run, b \in Nat : r < run =>
             /\ LinesOf(r, b, "maker")' = LinesOf(r, b, "maker")
             /\ LinesOf(r, b, "taker")' = LinesOf(r, b, "taker")
             /\ TapedOf(r, b)' = TapedOf(r, b)
      BY <1>2, <2>1 DEF LinesOf, TapedOf, Count
    <3> QED
      BY <1>2, <2>1, <3>1, EndedKept
  <2> QED
    BY <1>5, <2>2, <2>3, <2>4 DEF LossInv
<1> QED
  BY <1>2, <1>6, <1>7

\* What the run in progress would leave behind if it ended now.
LEMMA RunningLeaves == ASSUME LossInv, stage # "down" PROVE LeftBy(run)
<1>1. /\ JournalTypeOK /\ run \in Nat /\ Batch \in Nat /\ Batch + 1 = counters.batch
      /\ trades \in Seq(Matched)
  BY JournalFacts
<1>2. Len(trades) \in Nat
  BY <1>1, LenProperties
<1>3. stage = "tell" => Len(trades) > 0
  BY <1>1, LenProperties, EmptySeq DEF LossInv, OwnTrades
<1>4. ASSUME NEW b \in Nat
      PROVE  /\ TapedOf(run, b) <= LinesOf(run, b, "maker")
             /\ TapedOf(run, b) < LinesOf(run, b, "maker") => b = Batch /\ InProgress
  <2>1. LinesOf(run, b, "maker") = TapedOf(run, b) + Waiting(b)
    BY DEF LossInv, Balanced
  <2>2. Waiting(b) \in Nat /\ (Waiting(b) # 0 => b = Batch /\ InProgress)
    BY <1>2, <1>3 DEF Waiting
  <2>3. TapedOf(run, b) \in Nat /\ LinesOf(run, b, "maker") \in Nat
    BY <1>1, CountsAreNat
  <2> QED
    BY <2>1, <2>2, <2>3
<1>5. InProgress => LinesOf(run, Batch, "taker") = 0
  BY DEF LossInv, OwnTrades
<1>6. \A i \in DOMAIN orders_file :
        orders_file[i].ts = run => orders_file[i].batch_id <= Batch
  <2>1. \A i \in DOMAIN orders_file : orders_file[i].batch_id \in Nat
    <3>1. \A i \in DOMAIN orders_file : orders_file[i] \in OrderLine
      BY <1>1, ElementOfSeq, LenProperties DEF JournalTypeOK
    <3> QED
      BY <3>1 DEF OrderLine
  <2>2. \A i \in DOMAIN orders_file :
          orders_file[i].ts = run => orders_file[i].batch_id < Batch + 1
    BY <1>1 DEF LossInv, NumbersDrawn
  <2> QED
    BY <1>1, <2>1, <2>2
<1> QED
  BY <1>4, <1>5, <1>6 DEF LeftBy

\* What a run has left stays as long as the files do.
LEMMA LeftKept ==
  ASSUME NEW r, LeftBy(r), UNCHANGED <<orders_file, trades_file>> PROVE LeftBy(r)'
<1>1. \A b : /\ TapedOf(r, b)' = TapedOf(r, b)
            /\ LinesOf(r, b, "maker")' = LinesOf(r, b, "maker")
            /\ LinesOf(r, b, "taker")' = LinesOf(r, b, "taker")
  BY SameFiles
<1> QED
  BY <1>1 DEF LeftBy

\* A crash ends the run as it stands.
LEMMA CrashKeeps == ASSUME LossInv, Crash PROVE LossInv'
<1>1. JournalTypeOK /\ run \in Nat
  BY JournalFacts
<1>2. /\ stage # "down" /\ stage' = "down" /\ trades' = <<>>
      /\ UNCHANGED <<run, counters, orders_file, trades_file>>
  BY DEF Crash
<1>3. JournalTypeOK' /\ NumbersDrawn' /\ TradesDistinct'
  BY <1>1, <1>2 DEF JournalTypeOK, LossInv, NumbersDrawn, TradesDistinct
<1>4. OwnTrades' /\ Balanced'
  BY <1>2 DEF OwnTrades, InProgress, Balanced
<1>5. EndedRuns'
  <2>1. \A r \in 1..run : LeftBy(r)
    BY <1>1, RunningLeaves, <1>2 DEF LossInv, EndedRuns
  <2>2. \A r \in 1..run : LeftBy(r)'
    BY <1>2, <2>1, LeftKept
  <2> QED
    BY <1>2, <2>2 DEF EndedRuns
<1> QED
  BY <1>3, <1>4, <1>5 DEF LossInv

\* The next run begins with nothing of its own in the files.
LEMMA StartKeeps == ASSUME LossInv, Start PROVE LossInv'
<1>1. JournalTypeOK /\ run \in Nat /\ run > 0
  BY JournalFacts
<1>2. /\ stage = "down" /\ run' = run + 1 /\ stage' = "idle" /\ counters' = FreshCounters
      /\ UNCHANGED <<trades, orders_file, trades_file>>
  BY DEF Start
<1>3. trades = <<>>
  BY <1>2 DEF LossInv, OwnTrades, InProgress
<1>4. JournalTypeOK'
  BY <1>1, <1>2 DEF JournalTypeOK, FreshCounters
<1>5. /\ \A i \in DOMAIN orders_file : orders_file[i].ts \in Nat /\ orders_file[i].ts < run + 1
      /\ \A i \in DOMAIN trades_file : trades_file[i].ts \in Nat /\ trades_file[i].ts < run + 1
  <2>1. /\ \A i \in DOMAIN orders_file : orders_file[i].ts \in Nat
        /\ \A i \in DOMAIN trades_file : trades_file[i].ts \in Nat
    <3>1. /\ \A i \in DOMAIN orders_file : orders_file[i] \in OrderLine
          /\ \A i \in DOMAIN trades_file : trades_file[i] \in TradeLine
      BY <1>1, ElementOfSeq, LenProperties DEF JournalTypeOK
    <3> QED
      BY <3>1 DEF OrderLine, TradeLine
  <2>2. /\ \A i \in DOMAIN orders_file : orders_file[i].ts <= run
        /\ \A i \in DOMAIN trades_file : trades_file[i].ts <= run
    BY DEF LossInv, NumbersDrawn
  <2> QED
    BY <1>1, <2>1, <2>2
<1>6. /\ \A i \in DOMAIN orders_file : orders_file[i].ts # run + 1 /\ orders_file[i].ts <= run + 1
      /\ \A i \in DOMAIN trades_file : trades_file[i].ts # run + 1 /\ trades_file[i].ts <= run + 1
  <2>1. \A x \in Nat : x < run + 1 => x # run + 1 /\ x <= run + 1
    BY <1>1
  <2> QED
    BY <1>5, <2>1
<1>7. NumbersDrawn' /\ TradesDistinct'
  BY <1>2, <1>6 DEF NumbersDrawn, LossInv, TradesDistinct
<1>8. OwnTrades'
  BY <1>2, <1>3 DEF OwnTrades, InProgress
<1>9. PICK r \in Nat : r = run + 1
  BY <1>1
<1>10. ASSUME NEW b \in Nat PROVE LinesOf(run, b, "maker")' = TapedOf(run, b)' + Waiting(b)'
  <2>1. LinesOf(r, b, "maker") = 0 /\ TapedOf(r, b) = 0
    BY <1>6, <1>9, NothingCounted
  <2>2. LinesOf(r, b, "maker")' = 0 /\ TapedOf(r, b)' = 0
    BY <1>2, <2>1, SameFiles
  <2>3. Waiting(b)' = 0
    BY <1>2 DEF Waiting, InProgress
  <2> QED
    BY <1>2, <1>9, <2>2, <2>3
<1>11. Balanced'
  BY <1>10 DEF Balanced
<1>12. EndedRuns'
  <2>1. \A q \in 1..run : LeftBy(q)
    BY <1>2 DEF LossInv, EndedRuns
  <2>2. \A q \in 1..run : LeftBy(q)'
    BY <1>2, <2>1, LeftKept
  <2>3. \A q \in 1..(run + 1) : q < run + 1 => q \in 1..run
    BY <1>1
  <2> QED
    BY <1>2, <2>2, <2>3 DEF EndedRuns
<1> QED
  BY <1>4, <1>7, <1>8, <1>11, <1>12 DEF LossInv

\* Nothing has been written when the first run starts.
LEMMA LossInit == JournalsInit => LossInv
<1> SUFFICES ASSUME JournalsInit PROVE LossInv
  OBVIOUS
<1>1. /\ run = 1 /\ stage = "idle" /\ trades = <<>> /\ counters = FreshCounters
      /\ orders_file = <<>> /\ trades_file = <<>>
  BY DEF JournalsInit
<1>2. JournalTypeOK
  BY <1>1 DEF JournalTypeOK, FreshCounters
<1>3. NumbersDrawn /\ TradesDistinct /\ OwnTrades /\ EndedRuns
  BY <1>1 DEF NumbersDrawn, TradesDistinct, OwnTrades, InProgress, EndedRuns
<1>4. Balanced
  <2>1. \A b : LinesOf(run, b, "maker") = 0 /\ TapedOf(run, b) = 0
    BY <1>1, NothingCounted
  <2> QED
    BY <1>1, <2>1 DEF Balanced, Waiting, InProgress
<1> QED
  BY <1>2, <1>3, <1>4 DEF LossInv

\* Every step of the server, its crashes included, keeps the books.
LEMMA LossStep == LossInv /\ [JournalsNext]_journalVars => LossInv'
<1>1. ASSUME LossInv, UNCHANGED journalVars PROVE LossInv'
  <2>1. UNCHANGED <<run, stage, trades, counters, orders_file, trades_file>>
    BY <1>1 DEF journalVars
  <2>2. JournalTypeOK' /\ NumbersDrawn' /\ TradesDistinct'
    BY <1>1, <2>1 DEF LossInv, JournalTypeOK, NumbersDrawn, TradesDistinct
  <2>3. \A r, b, type : LinesOf(r, b, type)' = LinesOf(r, b, type) /\ TapedOf(r, b)' = TapedOf(r, b)
    BY <2>1, SameFiles
  <2>4. OwnTrades'
    BY <1>1, <2>1 DEF LossInv, OwnTrades, InProgress, Batch, LinesOf, Count
  <2>5. Balanced'
    BY <1>1, <2>1 DEF LossInv, Balanced, Waiting, InProgress, Batch, LinesOf, TapedOf, Count
  <2>6. EndedRuns'
    <3>1. \A r \in 1..run : r < run \/ stage = "down" => LeftBy(r)'
      BY <1>1, <2>1, LeftKept DEF LossInv, EndedRuns
    <3> QED
      BY <2>1, <3>1 DEF EndedRuns
  <2> QED
    BY <2>2, <2>4, <2>5, <2>6 DEF LossInv
<1>2. ASSUME LossInv, Get PROVE LossInv'
  BY <1>1, <1>2 DEF Get
<1> QED
  BY <1>1, <1>2, AnswerKeeps, AcceptKeeps, FillKeeps, JournalKeeps, TellKeeps, CompleteKeeps,
     CrashKeeps, StartKeeps DEF JournalsNext

\* The inductive invariant of the two files.
THEOREM LossInvariant == JournalsSpec => []LossInv
BY LossInit, LossStep, PTL DEF JournalsSpec

\* However often and wherever the server dies, trades.jsonl lacks only trades of
\* the one order each run was working on, one without a taker's line, and no two
\* trades have the same trade_id and ts: process_order, emit_trades and the sinks.
THEOREM LossIsBounded == JournalsSpec => []LossIsOneOrder
<1>1. LossInv => LossIsOneOrder
  <2> SUFFICES ASSUME LossInv PROVE LossIsOneOrder
    OBVIOUS
  <2>1. JournalTypeOK /\ run \in Nat /\ orders_file \in Seq(OrderLine)
    BY JournalFacts DEF JournalTypeOK
  <2>2. \A r \in 1..run : LeftBy(r)
    BY <2>1, RunningLeaves DEF LossInv, EndedRuns
  <2>3. ASSUME NEW r \in 1..run, NEW b \in 1..MaxBatches,
               TapedOf(r, b) < LinesOf(r, b, "maker"), r = run
        PROVE  stage # "idle"
    <3>1. b \in Nat
      OBVIOUS
    <3>2. ASSUME stage = "idle" PROVE FALSE
      <4>1. LinesOf(run, b, "maker") = TapedOf(run, b) + Waiting(b)
        BY <3>1, <3>2 DEF LossInv, Balanced
      <4>2. Waiting(b) = 0
        BY <3>2 DEF Waiting, InProgress
      <4>3. TapedOf(run, b) \in Nat /\ LinesOf(run, b, "maker") \in Nat
        BY <2>1, CountsAreNat
      <4> QED
        BY <2>3, <4>1, <4>2, <4>3
    <3> QED
      BY <3>2
  <2>4. ASSUME NEW r \in 1..run, NEW b \in 1..MaxBatches
        PROVE  /\ TapedOf(r, b) <= LinesOf(r, b, "maker")
               /\ TapedOf(r, b) < LinesOf(r, b, "maker") =>
                    /\ LinesOf(r, b, "taker") = 0
                    /\ \A e \in ToSet(orders_file) : e.ts = r => e.batch_id <= b
                    /\ r = run => stage # "idle"
    <3>1. b \in Nat /\ LeftBy(r)
      BY <2>2
    <3> QED
      BY <2>3, <3>1 DEF LeftBy, ToSet
  <2>5. TradesDistinct
    BY DEF LossInv
  <2> QED
    BY <2>4, <2>5 DEF LossIsOneOrder, TradesDistinct
<1> QED
  BY <1>1, LossInvariant, PTL

LEMMA PageStepsServer == [ClientNext]_clientVars => [JournalsNext]_journalVars
<1> SUFFICES ASSUME [ClientNext]_clientVars PROVE [JournalsNext]_journalVars
  OBVIOUS
<1>1. CASE ServerAlone \/ Broadcast \/ ServerDies
  BY <1>1 DEF ServerAlone, Broadcast, ServerDies, JournalsNext
<1>2. CASE Mount \/ Unmount \/ Reconnect
  BY <1>2 DEF Mount, Unmount, Reconnect
<1>3. ASSUME NEW s \in Sock, Open(s) \/ Lose(s) \/ OnClose(s) \/ Receive(s)
      PROVE  UNCHANGED journalVars
  BY <1>3 DEF Open, Lose, OnClose, Receive
<1>4. ASSUME NEW r \in Request, Send(r) \/ \E s \in Sock : Reply(r, s)
      PROVE  UNCHANGED journalVars
  BY <1>4 DEF Send, Reply
<1>5. CASE ServeSeed \/ SeedFails \/ MergeSeed
  BY <1>5 DEF ServeSeed, SeedFails, MergeSeed
<1>6. CASE UNCHANGED clientVars
  BY <1>6 DEF clientVars
<1> QED
  BY <1>1, <1>2, <1>3, <1>4, <1>5, <1>6 DEF ClientNext

\* The page, its connections and the fetch leave the server's journals alone: with
\* a page the server does to them what it does without one.
THEOREM PageImplementsJournals == ClientSpec => JournalsSpec
<1>1. ClientInit => JournalsInit
  BY DEF ClientInit
<1> QED
  BY <1>1, PageStepsServer, PTL DEF ClientSpec, JournalsSpec

-----------------------------------------------------------------------------
(* What the readers make of a file (ReadLast, Merged, GroupBatches): what   *)
(* each has read after k lines. Each is a fold, for which FoldExists finds  *)
(* the function it is defined by.                                           *)

\* One line more for read_last_trades_jsonl.
Kept(buffer, line, wanted, limit) ==
  IF line \notin wanted THEN buffer
  ELSE IF Len(buffer) = limit THEN Append(Tail(buffer), line)
  ELSE Append(buffer, line)

LEMMA KeptType ==
  ASSUME NEW L, NEW buffer \in Seq(L), NEW line \in L, NEW wanted, NEW limit \in Nat \ {0}
  PROVE  Kept(buffer, line, wanted, limit) \in Seq(L)
<1>1. Len(buffer) = limit => Tail(buffer) \in Seq(L)
  <2>1. Len(buffer) = limit => buffer # <<>>
    BY LenProperties
  <2> QED
    BY <2>1, HeadTailProperties
<1>2. \A b \in Seq(L) : Append(b, line) \in Seq(L)
  BY AppendProperties
<1> QED
  BY <1>1, <1>2 DEF Kept

\* The buffer after each number of lines.
IsReading(read, L, file, wanted, limit) ==
  /\ read \in [0..Len(file) -> Seq(L)] /\ read[0] = <<>>
  /\ \A k \in 1..Len(file) : read[k] = Kept(read[k - 1], file[k], wanted, limit)
  /\ ReadLast(file, wanted, limit) = Reverse(read[Len(file)])

LEMMA ReadLastUnfolds ==
  ASSUME NEW L, NEW file \in Seq(L), NEW wanted, NEW limit \in Nat \ {0}
  PROVE  \E read : IsReading(read, L, file, wanted, limit)
<1> DEFINE n == Len(file)
           V == Seq(L)
           F == [k \in 1..n |-> [b \in V |-> Kept(b, file[k], wanted, limit)]]
           IsIt(h) == h = [t \in SUBSET (1..n) |->
                             IF t = {} THEN <<>>
                             ELSE Kept(h[t \ {Max(t)}], file[Max(t)], wanted, limit)]
           H == CHOOSE h : IsIt(h)
<1>1. n \in Nat /\ DOMAIN file = 1..n /\ <<>> \in V /\ \A k \in 1..n : file[k] \in L
  BY LenProperties, ElementOfSeq, EmptySeq
<1>2. \A k \in 1..n, b \in V : Kept(b, file[k], wanted, limit) \in V
  BY <1>1, KeptType
<1>3. \E h : IsIt(h)
  <2>1. F \in [1..n -> [V -> V]]
    BY <1>2
  <2> HIDE DEF n, V
  <2>2. PICK h \in [SUBSET (1..n) -> V] : IsFoldOf(h, n, <<>>, F)
    <3> HIDE DEF F
    <3> QED
      BY <1>1, <2>1, FoldExists
  <2>3. ASSUME NEW t \in SUBSET (1..n), t # {}
        PROVE  h[t] = Kept(h[t \ {Max(t)}], file[Max(t)], wanted, limit)
    <3>1. Max(t) \in 1..n /\ t \ {Max(t)} \in SUBSET (1..n)
      BY <1>1, <2>3, Greatest
    <3>2. h[t] = F[Max(t)][h[t \ {Max(t)}]] /\ h[t \ {Max(t)}] \in V
      BY <2>2, <2>3, <3>1 DEF IsFoldOf
    <3> QED
      BY <3>1, <3>2
  <2>4. h[{}] = <<>>
    BY <2>2 DEF IsFoldOf
  <2>5. IsIt(h)
    BY <2>2, <2>3, <2>4
  <2> QED
    BY <2>5
<1>4. IsIt(H)
  BY <1>3
<1>5. ReadLast(file, wanted, limit) = Reverse(H[1..n])
  BY <1>1 DEF ReadLast, FoldLeft, MapThenFoldSet, Kept
<1> HIDE DEF H, n, V
<1>6. H[1..0] = <<>>
  <2>1. 1..0 = {}
    OBVIOUS
  <2> QED
    BY <1>4, <2>1
<1>7. ASSUME NEW k \in 1..n
      PROVE  H[1..k] = Kept(H[1..(k - 1)], file[k], wanted, limit)
  <2> DEFINE t == 1..k
  <2>1. t \in SUBSET (1..n) /\ t # {} /\ Max(t) = k /\ t \ {k} = 1..(k - 1)
    BY <1>1, NumbersUpTo
  <2> HIDE DEF t
  <2>2. H[t] = Kept(H[t \ {Max(t)}], file[Max(t)], wanted, limit)
    BY <1>4, <2>1
  <2> QED
    BY <2>1, <2>2 DEF t
<1> DEFINE read == [k \in 0..n |-> H[1..k]]
<1>8. \A k \in 0..n : H[1..k] \in V
  <2> DEFINE G == {k \in 0..n : H[1..k] \in V}
  <2>1. 0 \in G
    BY <1>1, <1>6
  <2>2. \A k \in 1..n : k - 1 \in G => k \in G
    BY <1>1, <1>2, <1>7
  <2> HIDE DEF G
  <2>3. \A k \in 0..n : k \in G
    BY <1>1, <2>1, <2>2, UpTo
  <2> QED
    BY <2>3 DEF G
<1>9. /\ read \in [0..n -> V] /\ read[0] = <<>> /\ read[n] = H[1..n]
      /\ \A k \in 1..n : read[k] = Kept(read[k - 1], file[k], wanted, limit)
  BY <1>1, <1>6, <1>7, <1>8
<1> HIDE DEF read
<1>10. IsReading(read, L, file, wanted, limit)
  BY <1>5, <1>9 DEF IsReading, n, V
<1> QED
  BY <1>10

\* The buffer b after k lines: at has the numbers of its lines. They are wanted and
\* in the order of the file; of the others that are wanted, none is newer.
LastOf(b, at, k, file, wanted, limit) ==
  /\ Len(b) <= limit
  /\ at \in [1..Len(b) -> 1..k]
  /\ \A i, j \in 1..Len(b) : i < j => at[i] < at[j]
  /\ \A i \in 1..Len(b) : b[i] = file[at[i]] /\ file[at[i]] \in wanted
  /\ \A p \in 1..k : file[p] \in wanted =>
       \/ \E i \in 1..Len(b) : at[i] = p
       \/ Len(b) = limit /\ \A i \in 1..Len(b) : p < at[i]

LEMMA KeptIsLast ==
  ASSUME NEW L, NEW file \in Seq(L), NEW wanted, NEW limit \in Nat \ {0},
         NEW k \in 1..Len(file), NEW b \in Seq(L), NEW at, LastOf(b, at, k - 1, file, wanted, limit)
  PROVE  \E now : LastOf(Kept(b, file[k], wanted, limit), now, k, file, wanted, limit)
<1> DEFINE m == Len(b)
           line == file[k]
<1>1. k \in Nat /\ k >= 1 /\ m \in Nat /\ line \in L
  BY LenProperties, ElementOfSeq
<1>2. \A i \in 1..m : at[i] \in 1..(k - 1)
  BY DEF LastOf
<1>3. \A p \in 1..k : p = k \/ p \in 1..(k - 1)
  BY <1>1
<1>4. CASE line \notin wanted
  <2>1. Kept(b, line, wanted, limit) = b
    BY <1>4 DEF Kept
  <2>2. at \in [1..m -> 1..k]
    BY <1>1 DEF LastOf
  <2>3. LastOf(b, at, k, file, wanted, limit)
    BY <1>3, <1>4, <2>2 DEF LastOf
  <2> QED
    BY <2>1, <2>3
<1>5. CASE line \in wanted /\ m = limit
  <2> DEFINE c == Append(Tail(b), line)
             now == [i \in 1..m |-> IF i = m THEN k ELSE at[i + 1]]
  <2>1. Kept(b, line, wanted, limit) = c
    BY <1>5 DEF Kept
  <2>2. m >= 1 /\ b # <<>>
    BY <1>5, LenProperties
  <2>3. Tail(b) \in Seq(L) /\ Len(Tail(b)) = m - 1 /\ \A i \in 1..(m - 1) : Tail(b)[i] = b[i + 1]
    BY <2>2, HeadTailProperties
  <2>4. Len(c) = m /\ c[m] = line /\ \A i \in 1..(m - 1) : c[i] = b[i + 1]
    BY <1>1, <2>2, <2>3, AppendProperties
  <2>5. \A i \in 1..m : i = m \/ (i \in 1..(m - 1) /\ i + 1 \in 1..m)
    BY <1>1
  <2>6. now \in [1..m -> 1..k]
    BY <1>1, <1>2, <2>5
  <2>7. \A i, j \in 1..m : i < j => now[i] < now[j]
    <3>1. ASSUME NEW i \in 1..m, NEW j \in 1..m, i < j PROVE now[i] < now[j]
      <4>1. i \in 1..(m - 1) /\ i + 1 \in 1..m /\ now[i] = at[i + 1]
        BY <1>1, <3>1
      <4>2. CASE j = m
        BY <1>1, <1>2, <4>1, <4>2
      <4>3. CASE j # m
        BY <1>1, <2>5, <3>1, <4>1, <4>3 DEF LastOf
      <4> QED
        BY <4>2, <4>3
    <3> QED
      BY <3>1
  <2>8. \A i \in 1..m : c[i] = file[now[i]] /\ file[now[i]] \in wanted
    BY <1>5, <2>4, <2>5 DEF LastOf
  <2>9. ASSUME NEW p \in 1..k, file[p] \in wanted
        PROVE  (\E i \in 1..m : now[i] = p) \/ \A i \in 1..m : p < now[i]
    <3>1. CASE p = k
      BY <2>2, <3>1
    <3>2. CASE \E i \in 1..m : at[i] = p
      <4>1. PICK i \in 1..m : at[i] = p
        BY <3>2
      <4>2. CASE i = 1
        <5>1. \A j \in 1..m : now[j] > p
          <6>1. ASSUME NEW j \in 1..m PROVE now[j] > p
            <7>1. CASE j = m
              BY <1>1, <1>2, <4>1, <7>1
            <7>2. CASE j # m
              BY <1>1, <1>2, <2>5, <4>1, <4>2, <7>2 DEF LastOf
            <7> QED
              BY <7>1, <7>2
          <6> QED
            BY <6>1
        <5>2. \A j \in 1..m : now[j] \in Nat /\ p \in Nat
          BY <2>6
        <5> QED
          BY <5>1, <5>2
      <4>3. CASE i # 1
        <5>1. i - 1 \in 1..m /\ i - 1 # m /\ now[i - 1] = at[i]
          BY <1>1, <4>3
        <5> QED
          BY <4>1, <5>1
      <4> QED
        BY <4>2, <4>3
    <3>3. CASE p \in 1..(k - 1) /\ \A i \in 1..m : p < at[i]
      BY <1>1, <2>5, <3>3
    <3> QED
      BY <1>3, <2>9, <3>1, <3>2, <3>3 DEF LastOf
  <2> HIDE DEF c, now
  <2>10. LastOf(c, now, k, file, wanted, limit)
    BY <1>5, <2>4, <2>6, <2>7, <2>8, <2>9 DEF LastOf
  <2> QED
    BY <2>1, <2>10
<1>6. CASE line \in wanted /\ m # limit
  <2> DEFINE c == Append(b, line)
             now == [i \in 1..(m + 1) |-> IF i = m + 1 THEN k ELSE at[i]]
  <2>1. Kept(b, line, wanted, limit) = c
    BY <1>6 DEF Kept
  <2>2. Len(c) = m + 1 /\ c[m + 1] = line /\ \A i \in 1..m : c[i] = b[i]
    BY <1>1, AppendProperties
  <2>3. \A i \in 1..(m + 1) : i = m + 1 \/ (i \in 1..m /\ i # m + 1)
    BY <1>1
  <2>4. now \in [1..(m + 1) -> 1..k]
    BY <1>1, <1>2, <2>3
  <2>5. \A i, j \in 1..(m + 1) : i < j => now[i] < now[j]
    <3>1. ASSUME NEW i \in 1..(m + 1), NEW j \in 1..(m + 1), i < j PROVE now[i] < now[j]
      <4>1. i \in 1..m /\ now[i] = at[i]
        BY <1>1, <3>1
      <4>2. CASE j = m + 1
        BY <1>1, <1>2, <4>1, <4>2
      <4>3. CASE j # m + 1
        BY <2>3, <3>1, <4>1, <4>3 DEF LastOf
      <4> QED
        BY <4>2, <4>3
    <3> QED
      BY <3>1
  <2>6. \A i \in 1..(m + 1) : c[i] = file[now[i]] /\ file[now[i]] \in wanted
    BY <1>6, <2>2, <2>3 DEF LastOf
  <2>7. m < limit
    BY <1>1, <1>6 DEF LastOf
  <2>8. ASSUME NEW p \in 1..k, file[p] \in wanted PROVE \E i \in 1..(m + 1) : now[i] = p
    <3>1. CASE p = k
      <4>1. m + 1 \in 1..(m + 1) /\ now[m + 1] = k
        BY <1>1
      <4> QED
        BY <3>1, <4>1
    <3>2. CASE p \in 1..(k - 1)
      <4>1. PICK i \in 1..m : at[i] = p
        BY <1>6, <2>8, <3>2 DEF LastOf
      <4>2. i \in 1..(m + 1) /\ now[i] = p
        BY <1>1, <4>1
      <4> QED
        BY <4>2
    <3> QED
      BY <1>3, <3>1, <3>2
  <2>9. m + 1 <= limit
    BY <1>1, <2>7
  <2> HIDE DEF c, now
  <2>10. LastOf(c, now, k, file, wanted, limit)
    BY <2>2, <2>4, <2>5, <2>6, <2>8, <2>9 DEF LastOf
  <2> QED
    BY <2>1, <2>10
<1> QED
  BY <1>4, <1>5, <1>6

\* An answer has wanted lines of the file, the newest first, each once, and
\* lacks none but older ones when it is full.
LEMMA ReadLastIs ==
  ASSUME NEW L, NEW file \in Seq(L), NEW wanted, NEW limit \in Nat \ {0}
  PROVE  LET r == ReadLast(file, wanted, limit)
         IN  /\ r \in Seq(L) /\ Len(r) <= limit
             /\ \E at \in [1..Len(r) -> 1..Len(file)] :
                  /\ \A i, j \in 1..Len(r) : i < j => at[j] < at[i]
                  /\ \A i \in 1..Len(r) : r[i] = file[at[i]] /\ file[at[i]] \in wanted
                  /\ \A p \in 1..Len(file) : file[p] \in wanted =>
                       \/ \E i \in 1..Len(r) : at[i] = p
                       \/ Len(r) = limit /\ \A i \in 1..Len(r) : p < at[i]
<1> DEFINE n == Len(file)
<1>0. PICK read : IsReading(read, L, file, wanted, limit)
  BY ReadLastUnfolds
<1>1. /\ read \in [0..n -> Seq(L)] /\ read[0] = <<>>
      /\ \A k \in 1..n : read[k] = Kept(read[k - 1], file[k], wanted, limit)
      /\ ReadLast(file, wanted, limit) = Reverse(read[n])
  BY <1>0 DEF IsReading
<1>2. n \in Nat
  BY LenProperties
<1> DEFINE G == {k \in 0..n : \E at : LastOf(read[k], at, k, file, wanted, limit)}
<1>3. 0 \in G
  <2>1. Len(<<>>) = 0 /\ 1..0 = {} /\ 0 \in 0..n
    BY <1>2
  <2> DEFINE none == [i \in {} |-> 0]
             b == read[0]
  <2>2. /\ 1..Len(b) = {} /\ Len(b) <= limit
        /\ \A i \in 1..Len(b) : FALSE
        /\ \A p \in 1..0 : FALSE
    BY <1>1, <2>1
  <2>3. none \in [{} -> 1..0]
    OBVIOUS
  <2>4. none \in [1..Len(b) -> 1..0]
    BY <2>2, <2>3, Zenon
  <2> HIDE DEF none, b
  <2>5. LastOf(b, none, 0, file, wanted, limit)
    BY <2>2, <2>4, Zenon DEF LastOf
  <2> QED
    BY <2>1, <2>5 DEF b
<1>4. ASSUME NEW k \in 1..n, k - 1 \in G PROVE k \in G
  <2>1. k \in 1..Len(file) /\ read[k - 1] \in Seq(L) /\ k \in 0..n
    BY <1>1, <1>2
  <2>2. PICK at : LastOf(read[k - 1], at, k - 1, file, wanted, limit)
    BY <1>4
  <2>3. \E now : LastOf(Kept(read[k - 1], file[k], wanted, limit), now, k, file, wanted, limit)
    BY <2>1, <2>2, KeptIsLast
  <2> QED
    BY <1>1, <2>1, <2>3
<1>5. \A k \in 0..n : k \in G
  <2> HIDE DEF G, n
  <2> QED
    BY <1>2, <1>3, <1>4, UpTo
<1> DEFINE b == read[n]
           m == Len(b)
           r == ReadLast(file, wanted, limit)
<1>6. b \in Seq(L) /\ m \in Nat
  BY <1>1, <1>2, LenProperties
<1>7. PICK at : LastOf(b, at, n, file, wanted, limit)
  BY <1>2, <1>5
<1>8. r \in Seq(L) /\ Len(r) = m /\ \A i \in 1..m : r[i] = b[m - i + 1]
  <2>1. r = [i \in 1..m |-> b[m - i + 1]]
    BY <1>1 DEF Reverse
  <2>2. \A i \in 1..m : m - i + 1 \in 1..m
    BY <1>6
  <2>3. \A i \in 1..m : b[m - i + 1] \in L
    BY <1>6, <2>2, ElementOfSeq
  <2> HIDE DEF m, b, r
  <2>4. r \in Seq(L)
    BY <1>6, <2>1, <2>3
  <2>5. Len(r) = m
    BY <1>6, <2>1, <2>4, LenProperties
  <2> QED
    BY <2>1, <2>4, <2>5
<1> DEFINE back == [i \in 1..m |-> at[m - i + 1]]
<1> HIDE DEF n, b, m, r
<1>9. \A i \in 1..m : m - i + 1 \in 1..m
  BY <1>6
<1>10. back \in [1..m -> 1..n]
  BY <1>7, <1>9 DEF LastOf, m
<1>11. \A i, j \in 1..m : i < j => back[j] < back[i]
  <2>1. \A i, j \in 1..m : i < j => m - j + 1 < m - i + 1
    BY <1>6
  <2> QED
    BY <1>7, <1>9, <2>1 DEF LastOf, m
<1>12. \A i \in 1..m : r[i] = file[back[i]] /\ file[back[i]] \in wanted
  BY <1>7, <1>8, <1>9 DEF LastOf, m
<1>13. ASSUME NEW p \in 1..n, file[p] \in wanted
       PROVE  (\E i \in 1..m : back[i] = p) \/ (m = limit /\ \A i \in 1..m : p < back[i])
  <2>1. CASE \E i \in 1..m : at[i] = p
    <3>1. PICK i \in 1..m : at[i] = p
      BY <2>1
    <3>2. m - i + 1 \in 1..m /\ m - (m - i + 1) + 1 = i
      BY <1>6
    <3>3. back[m - i + 1] = p
      BY <3>1, <3>2
    <3> QED
      BY <3>2, <3>3
  <2>2. CASE m = limit /\ \A i \in 1..m : p < at[i]
    BY <1>9, <2>2
  <2> QED
    BY <1>7, <1>13, <2>1, <2>2 DEF LastOf, m
<1>14. m <= limit
  BY <1>7 DEF LastOf, m
<1> HIDE DEF back
<1>15. \E now \in [1..m -> 1..n] :
         /\ \A i, j \in 1..m : i < j => now[j] < now[i]
         /\ \A i \in 1..m : r[i] = file[now[i]] /\ file[now[i]] \in wanted
         /\ \A p \in 1..n : file[p] \in wanted =>
              \/ \E i \in 1..m : now[i] = p
              \/ m = limit /\ \A i \in 1..m : p < now[i]
  <2>1. \A p \in 1..n : file[p] \in wanted =>
          (\E i \in 1..m : back[i] = p) \/ (m = limit /\ \A i \in 1..m : p < back[i])
    BY <1>13
  <2> QED
    BY <1>10, <1>11, <1>12, <2>1
<1> HIDE DEF r, n
<1>16. LET q == r IN /\ q \in Seq(L) /\ Len(q) <= limit
             /\ \E now \in [1..Len(q) -> 1..n] :
                  /\ \A i, j \in 1..Len(q) : i < j => now[j] < now[i]
                  /\ \A i \in 1..Len(q) : q[i] = file[now[i]] /\ file[now[i]] \in wanted
                  /\ \A p \in 1..n : file[p] \in wanted =>
                       \/ \E i \in 1..Len(q) : now[i] = p
                       \/ Len(q) = limit /\ \A i \in 1..Len(q) : p < now[i]
  BY <1>8, <1>14, <1>15
<1> QED
  BY <1>16 DEF r, n

-----------------------------------------------------------------------------
(* Trades of a user.                                                       *)

\* trades.jsonl is in the order the trades happened in, over all runs.
TapeOrdered ==
  \A i, j \in DOMAIN trades_file : i < j => Older(trades_file[i], trades_file[j])

LEMMA TapeOrderedStep ==
  ASSUME LossInv, TapeOrdered, [JournalsNext]_journalVars
  PROVE  TapeOrdered'
<1>1. CASE UNCHANGED trades_file
  BY <1>1 DEF TapeOrdered
<1>2. CASE Journal
  <2> DEFINE new == [taker |-> Head(trades).taker, users |-> Head(trades).users,
                     trade_id |-> counters.trade, ts |-> run]
             n == Len(trades_file)
  <2>1. trades_file' = Append(trades_file, new)
    BY <1>2 DEF Journal
  <2>2. /\ trades_file \in Seq(TradeLine) /\ n \in Nat /\ DOMAIN trades_file = 1..n
        /\ run \in Nat /\ counters.trade \in Nat
    BY LenProperties DEF LossInv, JournalTypeOK
  <2>3. \A i \in 1..n : trades_file[i].ts \in Nat /\ trades_file[i].trade_id \in Nat
    <3>1. \A i \in 1..n : trades_file[i] \in TradeLine
      BY <2>2, ElementOfSeq
    <3> QED
      BY <3>1 DEF TradeLine
  <2>4. new \in TradeLine
    <3>1. trades \in Seq(Matched) /\ trades # <<>>
      BY <1>2 DEF Journal, LossInv, JournalTypeOK
    <3>2. Head(trades) \in Matched
      BY <3>1, HeadTailProperties
    <3> QED
      BY <2>2, <3>2 DEF Matched, TradeLine
  <2>5. new.ts = run /\ new.trade_id = counters.trade
    OBVIOUS
  <2> HIDE DEF new, n
  <2>6. \A i \in 1..n : Older(trades_file[i], new)
    BY <2>2, <2>3, <2>5 DEF Older, LossInv, NumbersDrawn
  <2>7. /\ DOMAIN trades_file' = 1..(n + 1) /\ trades_file'[n + 1] = new
        /\ \A i \in 1..n : trades_file'[i] = trades_file[i]
    BY <2>1, <2>2, <2>4, AppendProperties, LenProperties DEF n
  <2>8. ASSUME NEW i \in 1..(n + 1), NEW j \in 1..(n + 1), i < j
        PROVE  Older(trades_file'[i], trades_file'[j])
    <3>1. i \in 1..n /\ trades_file'[i] = trades_file[i]
      BY <2>2, <2>7, <2>8
    <3>2. CASE j = n + 1
      BY <2>6, <2>7, <3>1, <3>2
    <3>3. CASE j # n + 1
      <4>1. j \in 1..n /\ trades_file'[j] = trades_file[j]
        BY <2>2, <2>7, <3>3
      <4> QED
        BY <2>2, <2>8, <3>1, <4>1 DEF TapeOrdered
    <3> QED
      BY <3>2, <3>3
  <2>9. \A i, j \in DOMAIN trades_file' : i < j => Older(trades_file'[i], trades_file'[j])
    BY <2>7, <2>8
  <2> QED
    BY <2>9 DEF TapeOrdered
<1>3. JournalsNext /\ ~Journal => UNCHANGED trades_file
  BY DEF JournalsNext, Answer, Accept, Fill, Tell, Complete, Get, Crash, Start, journalVars
<1> QED
  BY <1>1, <1>2, <1>3 DEF journalVars

LEMMA TapeInvariant == JournalsSpec => []TapeOrdered
<1>1. JournalsInit => TapeOrdered
  BY DEF JournalsInit, TapeOrdered
<1> QED
  BY <1>1, TapeOrderedStep, LossInvariant, PTL DEF JournalsSpec

LEMMA LimitIsPositive == \A limit \in Nat : EffectiveLimit(limit) \in Nat \ {0}
BY DEF EffectiveLimit

\* Whatever the limit and however often the server was restarted, the answer of GET
\* /user/trades lacks a trade of the user only when it is full of newer ones; it is
\* in the order the trades happened in and has none twice.
THEOREM UserTradesAreComplete == JournalsSpec => []UserTradesComplete
<1>1. ASSUME LossInv, TapeOrdered,
             NEW uid \in UNION {{p[1], p[2], 1} : p \in Party}, NEW limit \in 0..Len(trades_file)
      PROVE  LET answer == UserTrades(uid, limit)
             IN  /\ \A t \in Own(uid) \ ToSet(answer) :
                      /\ Len(answer) = EffectiveLimit(limit)
                      /\ \A u \in ToSet(answer) : Older(t, u)
                 /\ \A i, j \in DOMAIN answer : i < j => Older(answer[j], answer[i])
                 /\ \A t \in ToSet(answer) : /\ t \in ToSet(trades_file)
                                            /\ \E i \in {1, 2} : BeginsWith(t.users[i], uid)
  <2> DEFINE r == UserTrades(uid, limit)
             file == trades_file
             wanted == {line \in ToSet(file) : Involves(line, uid)}
             full == EffectiveLimit(limit)
  <2>1. file \in Seq(TradeLine) /\ Len(file) \in Nat /\ DOMAIN file = 1..Len(file) /\ limit \in Nat
    BY <1>1, LenProperties DEF LossInv, JournalTypeOK
  <2>2. full \in Nat \ {0}
    BY <2>1, LimitIsPositive
  <2>3. r = ReadLast(file, wanted, full)
    BY DEF UserTrades
  <2> HIDE DEF r, wanted, full
  <2>4. /\ r \in Seq(TradeLine)
        /\ \E at \in [1..Len(r) -> 1..Len(file)] :
             /\ \A i, j \in 1..Len(r) : i < j => at[j] < at[i]
             /\ \A i \in 1..Len(r) : r[i] = file[at[i]] /\ file[at[i]] \in wanted
             /\ \A p \in 1..Len(file) : file[p] \in wanted =>
                  \/ \E i \in 1..Len(r) : at[i] = p
                  \/ Len(r) = full /\ \A i \in 1..Len(r) : p < at[i]
    BY <2>1, <2>2, <2>3, ReadLastIs
  <2>5. PICK at \in [1..Len(r) -> 1..Len(file)] :
             /\ \A i, j \in 1..Len(r) : i < j => at[j] < at[i]
             /\ \A i \in 1..Len(r) : r[i] = file[at[i]] /\ file[at[i]] \in wanted
             /\ \A p \in 1..Len(file) : file[p] \in wanted =>
                  \/ \E i \in 1..Len(r) : at[i] = p
                  \/ Len(r) = full /\ \A i \in 1..Len(r) : p < at[i]
    BY <2>4
  <2>6. DOMAIN r = 1..Len(r) /\ Len(r) \in Nat
    BY <2>4, LenProperties
  <2>7. \A p, q \in 1..Len(file) : p < q => Older(file[p], file[q])
    BY <1>1, <2>1 DEF TapeOrdered
  <2>8. \A i, j \in DOMAIN r : i < j => Older(r[j], r[i])
    <3>1. ASSUME NEW i \in 1..Len(r), NEW j \in 1..Len(r), i < j PROVE Older(r[j], r[i])
      <4>1. at[j] < at[i] /\ at[i] \in 1..Len(file) /\ at[j] \in 1..Len(file)
        BY <2>5, <3>1
      <4>2. Older(file[at[j]], file[at[i]])
        BY <2>7, <4>1
      <4> QED
        BY <2>5, <4>2
    <3> QED
      BY <2>6, <3>1
  <2>9. ASSUME NEW t \in ToSet(r)
        PROVE  t \in ToSet(file) /\ \E i \in {1, 2} : BeginsWith(t.users[i], uid)
    <3>1. t \in wanted
      BY <2>5, <2>6, <2>9 DEF ToSet
    <3> QED
      BY <3>1 DEF wanted, Involves
  <2>10. ASSUME NEW t \in Own(uid), t \notin ToSet(r)
         PROVE  Len(r) = full /\ \A u \in ToSet(r) : Older(t, u)
    <3>1. t \in ToSet(file) /\ uid \in {t.users[1], t.users[2]}
      BY DEF Own
    <3>2. PICK p \in 1..Len(file) : t = file[p]
      BY <2>1, <3>1 DEF ToSet
    <3>3. t.users \in Party
      <4>1. t \in TradeLine
        BY <2>1, <3>2, ElementOfSeq
      <4> QED
        BY <4>1 DEF TradeLine
    <3>4. t.users[1] \in Nat /\ t.users[2] \in Nat
      BY <3>3, JournalsAssumption
    <3>5. uid \in Nat /\ BeginsWith(uid, uid)
      <4>1. uid \in Nat
        BY <3>1, <3>4
      <4>2. uid \div 1 = uid
        BY <4>1
      <4> QED
        BY <4>1, <4>2 DEF BeginsWith
    <3>6. t \in wanted
      BY <3>1, <3>5 DEF wanted, Involves
    <3>7. ~\E i \in 1..Len(r) : at[i] = p
      <4>1. ASSUME NEW i \in 1..Len(r), at[i] = p PROVE FALSE
        <5>1. r[i] = t /\ i \in DOMAIN r
          BY <2>5, <2>6, <3>2, <4>1
        <5> QED
          BY <2>10, <5>1 DEF ToSet
      <4> QED
        BY <4>1
    <3>8. Len(r) = full /\ \A i \in 1..Len(r) : p < at[i]
      BY <2>5, <3>2, <3>6, <3>7
    <3>9. ASSUME NEW u \in ToSet(r) PROVE Older(t, u)
      <4>1. PICK i \in 1..Len(r) : u = r[i]
        BY <2>6, <3>9 DEF ToSet
      <4>2. at[i] \in 1..Len(file) /\ u = file[at[i]]
        BY <2>5, <4>1
      <4> QED
        BY <2>7, <3>2, <3>8, <4>2
    <3> QED
      BY <3>8, <3>9
  <2> QED
    BY <2>8, <2>9, <2>10 DEF r, full
<1>2. LossInv /\ TapeOrdered => UserTradesComplete
  BY <1>1 DEF UserTradesComplete
<1> QED
  BY <1>2, LossInvariant, TapeInvariant, PTL

-----------------------------------------------------------------------------
(* The tape of the page.                                                   *)

\* One trade of the answer for the tape.
Added(list, t, seen) == IF <<t.trade_id, t.ts>> \in seen THEN list ELSE Append(list, t)

SeenOn(live) == {<<t.trade_id, t.ts>> : t \in ToSet(live)}

\* The tape after each number of trades of the answer.
IsMerging(read, L, live, older) ==
  /\ read \in [0..Len(older) -> Seq(L)] /\ read[0] = live
  /\ \A k \in 1..Len(older) : read[k] = Added(read[k - 1], older[k], SeenOn(live))
  /\ Merged(live, older) = Shown(read[Len(older)])

LEMMA MergedUnfolds ==
  ASSUME NEW L, NEW live \in Seq(L), NEW older \in Seq(L)
  PROVE  \E read : IsMerging(read, L, live, older)
<1> DEFINE n == Len(older)
           V == Seq(L)
           seen == SeenOn(live)
           F == [k \in 1..n |-> [b \in V |-> Added(b, older[k], seen)]]
           IsIt(h) == h = [t \in SUBSET (1..n) |->
                             IF t = {} THEN live
                             ELSE Added(h[t \ {Max(t)}], older[Max(t)], seen)]
           H == CHOOSE h : IsIt(h)
<1>1. n \in Nat /\ DOMAIN older = 1..n /\ live \in V /\ \A k \in 1..n : older[k] \in L
  BY LenProperties, ElementOfSeq
<1>2. \A k \in 1..n, b \in V : Added(b, older[k], seen) \in V
  BY <1>1, AppendProperties DEF Added
<1>3. \E h : IsIt(h)
  <2>1. F \in [1..n -> [V -> V]]
    BY <1>2
  <2> HIDE DEF n, V, seen
  <2>2. PICK h \in [SUBSET (1..n) -> V] : IsFoldOf(h, n, live, F)
    <3> HIDE DEF F
    <3> QED
      BY <1>1, <2>1, FoldExists
  <2>3. ASSUME NEW t \in SUBSET (1..n), t # {}
        PROVE  h[t] = Added(h[t \ {Max(t)}], older[Max(t)], seen)
    <3>1. Max(t) \in 1..n /\ t \ {Max(t)} \in SUBSET (1..n)
      BY <1>1, <2>3, Greatest
    <3>2. h[t] = F[Max(t)][h[t \ {Max(t)}]] /\ h[t \ {Max(t)}] \in V
      BY <2>2, <2>3, <3>1 DEF IsFoldOf
    <3> QED
      BY <3>1, <3>2
  <2>4. h[{}] = live
    BY <2>2 DEF IsFoldOf
  <2>5. IsIt(h)
    BY <2>2, <2>3, <2>4
  <2> QED
    BY <2>5
<1>4. IsIt(H)
  BY <1>3
<1>5. Merged(live, older) = Shown(H[1..n])
  BY <1>1 DEF Merged, FoldLeft, MapThenFoldSet, Added, SeenOn
<1> HIDE DEF H, n, V, seen
<1>6. H[1..0] = live
  <2>1. 1..0 = {}
    OBVIOUS
  <2> QED
    BY <1>4, <2>1
<1>7. ASSUME NEW k \in 1..n
      PROVE  H[1..k] = Added(H[1..(k - 1)], older[k], seen)
  <2> DEFINE t == 1..k
  <2>1. t \in SUBSET (1..n) /\ t # {} /\ Max(t) = k /\ t \ {k} = 1..(k - 1)
    BY <1>1, NumbersUpTo
  <2> HIDE DEF t
  <2>2. H[t] = Added(H[t \ {Max(t)}], older[Max(t)], seen)
    BY <1>4, <2>1
  <2> QED
    BY <2>1, <2>2 DEF t
<1> DEFINE read == [k \in 0..n |-> H[1..k]]
<1>8. \A k \in 0..n : H[1..k] \in V
  <2> DEFINE G == {k \in 0..n : H[1..k] \in V}
  <2>1. 0 \in G
    BY <1>1, <1>6
  <2>2. \A k \in 1..n : k - 1 \in G => k \in G
    BY <1>1, <1>2, <1>7
  <2> HIDE DEF G
  <2>3. \A k \in 0..n : k \in G
    BY <1>1, <2>1, <2>2, UpTo
  <2> QED
    BY <2>3 DEF G
<1>9. /\ read \in [0..n -> V] /\ read[0] = live /\ read[n] = H[1..n]
      /\ \A k \in 1..n : read[k] = Added(read[k - 1], older[k], seen)
  BY <1>1, <1>6, <1>7, <1>8
<1> HIDE DEF read
<1>10. IsMerging(read, L, live, older)
  BY <1>5, <1>9 DEF IsMerging, n, V, seen
<1> QED
  BY <1>10

\* What a list has with an element more.
LEMMA AppendSet ==
  ASSUME NEW L, NEW s \in Seq(L), NEW e \in L
  PROVE  ToSet(Append(s, e)) = ToSet(s) \cup {e}
<1>1. /\ DOMAIN s = 1..Len(s) /\ Len(s) \in Nat
      /\ DOMAIN Append(s, e) = 1..(Len(s) + 1) /\ Append(s, e)[Len(s) + 1] = e
      /\ \A i \in 1..Len(s) : Append(s, e)[i] = s[i]
  BY LenProperties, AppendProperties
<1>2. \A i \in 1..(Len(s) + 1) : i = Len(s) + 1 \/ i \in 1..Len(s)
  BY <1>1
<1>3. 1..Len(s) \subseteq 1..(Len(s) + 1) /\ Len(s) + 1 \in 1..(Len(s) + 1)
  BY <1>1
<1>4. ASSUME NEW x \in ToSet(Append(s, e)) PROVE x \in ToSet(s) \cup {e}
  BY <1>1, <1>2, <1>4 DEF ToSet
<1>5. ASSUME NEW x \in ToSet(s) \cup {e} PROVE x \in ToSet(Append(s, e))
  BY <1>1, <1>3, <1>5 DEF ToSet
<1> QED
  BY <1>4, <1>5

\* Everything on the tape stays, in its place; of the answer everything joins it
\* but what has the numbers of a trade that is there.
LEMMA MergedIs ==
  ASSUME NEW L, NEW live \in Seq(L), NEW older \in Seq(L)
  PROVE  \E list \in Seq(L) :
           /\ Merged(live, older) = Shown(list)
           /\ ToSet(live) \subseteq ToSet(list)
           /\ ToSet(list) \subseteq ToSet(live) \cup ToSet(older)
           /\ \A t \in ToSet(older) : t \in ToSet(list) \/ <<t.trade_id, t.ts>> \in SeenOn(live)
<1> DEFINE n == Len(older)
           seen == SeenOn(live)
<1>1. PICK read : IsMerging(read, L, live, older)
  BY MergedUnfolds
<1>2. /\ read \in [0..n -> Seq(L)] /\ read[0] = live
      /\ \A k \in 1..n : read[k] = Added(read[k - 1], older[k], seen)
      /\ Merged(live, older) = Shown(read[n])
  BY <1>1 DEF IsMerging
<1>3. n \in Nat /\ DOMAIN older = 1..n /\ \A k \in 1..n : older[k] \in L /\ older[k] \in ToSet(older)
  BY LenProperties, ElementOfSeq DEF ToSet
<1> DEFINE G == {k \in 0..n :
                   /\ ToSet(live) \subseteq ToSet(read[k])
                   /\ ToSet(read[k]) \subseteq ToSet(live) \cup ToSet(older)
                   /\ \A j \in 1..k : \/ older[j] \in ToSet(read[k])
                                      \/ <<older[j].trade_id, older[j].ts>> \in seen}
<1> HIDE DEF n, seen
<1>4. 0 \in G
  BY <1>2, <1>3
<1>5. ASSUME NEW k \in 1..n, k - 1 \in G PROVE k \in G
  <2>1. /\ k - 1 \in 0..n /\ k \in 0..n /\ read[k - 1] \in Seq(L)
        /\ \A j \in 1..k : j = k \/ j \in 1..(k - 1)
    BY <1>2, <1>3
  <2>2. CASE <<older[k].trade_id, older[k].ts>> \in seen
    <3>1. read[k] = read[k - 1]
      BY <1>2, <2>2 DEF Added
    <3> QED
      BY <1>5, <2>1, <2>2, <3>1
  <2>3. CASE <<older[k].trade_id, older[k].ts>> \notin seen
    <3>1. read[k] = Append(read[k - 1], older[k])
      BY <1>2, <2>3 DEF Added
    <3>2. ToSet(read[k]) = ToSet(read[k - 1]) \cup {older[k]}
      BY <1>3, <2>1, <3>1, AppendSet
    <3> QED
      BY <1>3, <1>5, <2>1, <3>2
  <2> QED
    BY <2>2, <2>3
<1>6. n \in G
  <2> HIDE DEF G
  <2>1. \A k \in 0..n : k \in G
    BY <1>3, <1>4, <1>5, UpTo
  <2> QED
    BY <1>3, <2>1
<1>7. read[n] \in Seq(L)
  BY <1>2, <1>3
<1>8. \A t \in ToSet(older) : t \in ToSet(read[n]) \/ <<t.trade_id, t.ts>> \in seen
  BY <1>3, <1>6 DEF ToSet
<1> QED
  BY <1>2, <1>6, <1>7, <1>8 DEF seen

\* slice(0, MAX_TRADES): nothing is missing unless MAX_TRADES are shown.
LEMMA ShownIs ==
  ASSUME NEW L, NEW list \in Seq(L)
  PROVE  /\ Shown(list) \in Seq(L) /\ ToSet(Shown(list)) \subseteq ToSet(list)
         /\ Len(Shown(list)) = MAX_TRADES \/ Shown(list) = list
<1> DEFINE n == Len(list)
           m == Min({n, MAX_TRADES})
<1>1. n \in Nat /\ MAX_TRADES \in Nat /\ DOMAIN list = 1..n
  BY LenProperties, ClientAssumption
<1>2. m \in {n, MAX_TRADES} /\ m <= n
  <2>1. \E x \in {n, MAX_TRADES} : \A y \in {n, MAX_TRADES} : x <= y
    BY <1>1
  <2>2. m \in {n, MAX_TRADES} /\ \A y \in {n, MAX_TRADES} : m <= y
    BY <2>1 DEF Min
  <2> QED
    BY <2>2
<1>3. Shown(list) = SubSeq(list, 1, m)
  BY DEF Shown
<1> HIDE DEF m, n
<1>4. m \in Nat
  BY <1>1, <1>2
<1>5. /\ SubSeq(list, 1, m) \in Seq(L) /\ Len(SubSeq(list, 1, m)) = m
      /\ \A i \in 1..m : SubSeq(list, 1, m)[i] = list[i]
  <2>1. \A i \in 1..m : list[i] \in L
    <3>1. \A i \in 1..m : i \in 1..n
      BY <1>1, <1>2, <1>4
    <3>2. \A i \in 1..n : list[i] \in L
      BY ElementOfSeq DEF n
    <3> QED
      BY <3>1, <3>2
  <2>2. m \in Int /\ 1 \in Int /\ m - 1 + 1 = m /\ (IF 1 <= m THEN m - 1 + 1 ELSE 0) = m
    BY <1>4
  <2>3. /\ SubSeq(list, 1, m) \in Seq(L)
        /\ Len(SubSeq(list, 1, m)) = IF 1 <= m THEN m - 1 + 1 ELSE 0
        /\ \A i \in 1..(m - 1 + 1) : SubSeq(list, 1, m)[i] = list[1 + i - 1]
    BY <2>1, <2>2, SubSeqProperties
  <2>4. \A i \in 1..m : 1 + i - 1 = i
    BY <1>4
  <2> QED
    BY <2>2, <2>3, <2>4
<1>6. DOMAIN SubSeq(list, 1, m) = 1..m
  BY <1>5, LenProperties
<1>7. \A i \in 1..m : i \in 1..n
  BY <1>1, <1>2, <1>4
<1>8. ToSet(SubSeq(list, 1, m)) \subseteq ToSet(list)
  BY <1>1, <1>5, <1>6, <1>7 DEF ToSet
<1>9. m = n => SubSeq(list, 1, m) = list
  <2>1. ASSUME m = n PROVE SubSeq(list, 1, m) = list
    BY <1>5, <2>1, SeqEqual DEF n
  <2> QED
    BY <2>1
<1> QED
  BY <1>2, <1>3, <1>5, <1>8, <1>9

Message == TradeLine \cup [requestId : Request]

WireOK == /\ wire \in [Sock -> Seq(Message)]
          /\ \A s \in Sock : ToSet(wire[s]) \subseteq ToSet(trades_file) \cup [requestId : Request]

SeedOK == /\ seed \in [phase : {"none", "asked", "answered"}, trades : Seq(TradeLine)]
          /\ ToSet(seed.trades) \subseteq ToSet(trades_file)
          /\ seed.phase # "answered" => seed.trades = <<>>

TapeOK == tape \in Seq(TradeLine) /\ ToSet(tape) \subseteq ToSet(trades_file)

\* Whatever the page holds or is sent has been journaled first.
HeldInv == WireOK /\ SeedOK /\ TapeOK /\ (stage = "tell" => trades_file # <<>>)

LEMMA TapeGrows ==
  ASSUME LossInv, [JournalsNext]_journalVars
  PROVE  ToSet(trades_file) \subseteq ToSet(trades_file')
<1>1. CASE Journal
  <2> DEFINE new == [taker |-> Head(trades).taker, users |-> Head(trades).users,
                     trade_id |-> counters.trade, ts |-> run]
  <2>1. trades \in Seq(Matched) /\ trades # <<>> /\ trades_file \in Seq(TradeLine)
        /\ run \in Nat /\ counters.trade \in Nat
    BY <1>1 DEF Journal, LossInv, JournalTypeOK
  <2>2. Head(trades) \in Matched
    BY <2>1, HeadTailProperties
  <2>3. new \in TradeLine
    BY <2>1, <2>2 DEF Matched, TradeLine
  <2>4. trades_file' = Append(trades_file, new)
    BY <1>1 DEF Journal
  <2> HIDE DEF new
  <2> QED
    BY <2>1, <2>3, <2>4, AppendSet
<1>2. JournalsNext /\ ~Journal => UNCHANGED trades_file
  BY DEF JournalsNext, Answer, Accept, Fill, Tell, Complete, Get, Crash, Start, journalVars
<1> QED
  BY <1>1, <1>2 DEF journalVars

\* A trade is no answer.
LEMMA TradesAreNoAnswers ==
  /\ \A m \in TradeLine : "requestId" \notin DOMAIN m
  /\ \A m \in [requestId : Request] : "requestId" \in DOMAIN m
BY DEF TradeLine

\* What is sent over some sockets comes behind what is on its way.
LEMMA SendKeeps ==
  ASSUME WireOK, NEW socks, NEW m \in Message, m \in ToSet(trades_file) \cup [requestId : Request],
         SendTo(socks, m), UNCHANGED trades_file
  PROVE  WireOK' /\ \A s \in Sock : ToSet(wire[s]) \subseteq ToSet(wire'[s])
<1>1. wire' = [s \in Sock |-> IF s \in socks THEN Append(wire[s], m) ELSE wire[s]]
  BY DEF SendTo
<1>2. \A s \in Sock : wire[s] \in Seq(Message)
  BY DEF WireOK
<1>3. \A s \in Sock : /\ Append(wire[s], m) \in Seq(Message)
                      /\ ToSet(Append(wire[s], m)) = ToSet(wire[s]) \cup {m}
  BY <1>2, AppendProperties, AppendSet
<1>4. \A s \in Sock : /\ wire'[s] \in Seq(Message)
                      /\ ToSet(wire'[s]) = ToSet(wire[s]) \/ ToSet(wire'[s]) = ToSet(wire[s]) \cup {m}
  BY <1>1, <1>2, <1>3
<1>5. wire' \in [Sock -> Seq(Message)]
  BY <1>1, <1>4
<1> QED
  BY <1>4, <1>5 DEF WireOK

\* A socket that is closed loses what was on its way.
LEMMA CutKeeps ==
  ASSUME WireOK, NEW s, Cut(s), UNCHANGED trades_file
  PROVE  WireOK'
<1>1. wire' = [wire EXCEPT ![s] = <<>>] /\ wire \in [Sock -> Seq(Message)]
  BY DEF Cut, WireOK
<1>2. <<>> \in Seq(Message) /\ ToSet(<<>>) = {}
  BY EmptySeq DEF ToSet
<1>3. \A q \in Sock : wire'[q] = <<>> \/ wire'[q] = wire[q]
  BY <1>1
<1>4. wire' \in [Sock -> Seq(Message)]
  BY <1>1, <1>2
<1> QED
  BY <1>2, <1>3, <1>4 DEF WireOK

\* The first message of a socket, and the others.
LEMMA ReceiveFacts ==
  ASSUME HeldInv, LossInv, NEW s \in Sock, Receive(s)
  PROVE  LET m == Head(wire[s])
         IN  /\ m \in Message /\ m \in ToSet(trades_file) \cup [requestId : Request]
             /\ ToSet(wire[s]) = {m} \cup ToSet(wire'[s])
             /\ \A q \in Sock : q # s => wire'[q] = wire[q]
             /\ wire' \in [Sock -> Seq(Message)]
<1> DEFINE w == wire[s]
           m == Head(w)
<1>1. w \in Seq(Message) /\ w # <<>> /\ wire' = [wire EXCEPT ![s] = Tail(w)]
      /\ wire \in [Sock -> Seq(Message)]
  BY DEF Receive, HeldInv, WireOK
<1>2. /\ m \in Message /\ Tail(w) \in Seq(Message) /\ Len(Tail(w)) = Len(w) - 1
      /\ \A i \in 1..Len(Tail(w)) : Tail(w)[i] = w[i + 1]
  BY <1>1, HeadTailProperties
<1>3. /\ Len(w) \in Nat /\ Len(w) >= 1 /\ DOMAIN w = 1..Len(w) /\ DOMAIN Tail(w) = 1..(Len(w) - 1)
      /\ m = w[1]
  BY <1>1, <1>2, EmptySeq, LenProperties
<1>4. ToSet(w) = {m} \cup ToSet(Tail(w))
  <2>1. \A i \in 1..Len(w) : i = 1 \/ (i - 1 \in 1..(Len(w) - 1) /\ w[i] = Tail(w)[i - 1])
    BY <1>2, <1>3
  <2>2. \A i \in 1..(Len(w) - 1) : i + 1 \in 1..Len(w) /\ Tail(w)[i] = w[i + 1]
    BY <1>2, <1>3
  <2>3. ASSUME NEW x \in ToSet(w) PROVE x \in {m} \cup ToSet(Tail(w))
    BY <1>3, <2>1, <2>3 DEF ToSet
  <2>4. ASSUME NEW x \in {m} \cup ToSet(Tail(w)) PROVE x \in ToSet(w)
    BY <1>3, <2>2, <2>4 DEF ToSet
  <2> QED
    BY <2>3, <2>4
<1>5. wire'[s] = Tail(w) /\ (\A q \in Sock : q # s => wire'[q] = wire[q])
      /\ wire' \in [Sock -> Seq(Message)]
  BY <1>1, <1>2
<1>6. m \in ToSet(trades_file) \cup [requestId : Request]
  BY <1>4 DEF HeldInv, WireOK
<1> QED
  BY <1>2, <1>4, <1>5, <1>6

\* There is a trade to broadcast.
LEMMA TradeToTell ==
  ASSUME LossInv, stage = "tell" => trades_file # <<>>, [JournalsNext]_journalVars
  PROVE  (stage = "tell" => trades_file # <<>>)'
<1>1. CASE Journal
  <2>1. PICK t \in TradeLine : trades_file' = Append(trades_file, t)
    BY <1>1, JournalCounts DEF LossInv
  <2>2. trades_file \in Seq(TradeLine) /\ Len(trades_file) \in Nat
    BY LenProperties DEF LossInv, JournalTypeOK
  <2>3. Len(trades_file') = Len(trades_file) + 1
    BY <2>1, <2>2, AppendProperties
  <2> QED
    BY <2>2, <2>3, EmptySeq
<1>2. CASE JournalsNext /\ ~Journal
  BY <1>2 DEF JournalsNext, Answer, Accept, Fill, Tell, Complete, Get, Crash, Start, journalVars
<1> QED
  BY <1>1, <1>2 DEF journalVars

\* The answer of GET /trades has lines of the file.
LEMMA LatestFromFile ==
  ASSUME LossInv
  PROVE  /\ Latest(trades_file, MAX_TRADES) \in Seq(TradeLine)
         /\ ToSet(Latest(trades_file, MAX_TRADES)) \subseteq ToSet(trades_file)
<1> DEFINE full == EffectiveLimit(MAX_TRADES)
           wanted == ToSet(trades_file)
           r == ReadLast(trades_file, wanted, full)
<1>1. full \in Nat \ {0} /\ trades_file \in Seq(TradeLine) /\ Latest(trades_file, MAX_TRADES) = r
  BY ClientAssumption, LimitIsPositive DEF LossInv, JournalTypeOK, Latest
<1> HIDE DEF full, wanted
<1>2. r \in Seq(TradeLine) /\ \A i \in 1..Len(r) : r[i] \in wanted
  <2>1. /\ r \in Seq(TradeLine)
        /\ \E at \in [1..Len(r) -> 1..Len(trades_file)] :
             \A i \in 1..Len(r) : r[i] = trades_file[at[i]] /\ trades_file[at[i]] \in wanted
    BY <1>1, ReadLastIs
  <2> QED
    BY <2>1
<1> HIDE DEF r
<1>3. \A x \in ToSet(r) : x \in wanted
  BY <1>2, LenProperties DEF ToSet
<1> QED
  BY <1>1, <1>2, <1>3 DEF wanted

\* A trade in front of the others.
LEMMA InFront ==
  ASSUME NEW L, NEW s \in Seq(L), NEW m \in L
  PROVE  <<m>> \o s \in Seq(L) /\ ToSet(<<m>> \o s) = {m} \cup ToSet(s)
<1> DEFINE c == <<m>> \o s
           n == Len(s)
<1>1. n \in Nat /\ DOMAIN s = 1..n /\ <<m>> \in Seq(L) /\ Len(<<m>>) = 1 /\ <<m>>[1] = m
  BY LenProperties
<1>2. /\ c \in Seq(L) /\ Len(c) = 1 + n
      /\ \A i \in 1..(1 + n) : c[i] = IF i <= 1 THEN <<m>>[i] ELSE s[i - 1]
  BY <1>1, ConcatProperties
<1>3. DOMAIN c = 1..(1 + n)
  BY <1>2, LenProperties
<1> HIDE DEF n, c
<1>4. c[1] = m /\ 1 \in 1..(1 + n) /\ \A i \in 1..n : i + 1 \in 1..(1 + n) /\ c[i + 1] = s[i]
  <2>1. 1 \in 1..(1 + n) /\ c[1] = m
    BY <1>1, <1>2
  <2>2. ASSUME NEW i \in 1..n PROVE i + 1 \in 1..(1 + n) /\ c[i + 1] = s[i]
    <3>1. i + 1 \in 1..(1 + n) /\ ~(i + 1 <= 1) /\ i + 1 - 1 = i
      BY <1>1
    <3> QED
      BY <1>2, <3>1
  <2> QED
    BY <2>1, <2>2
<1>5. ASSUME NEW i \in 1..(1 + n) PROVE c[i] = m \/ (i - 1 \in 1..n /\ c[i] = s[i - 1])
  <2>1. CASE i = 1
    BY <1>4, <2>1
  <2>2. CASE i # 1
    <3>1. i - 1 \in 1..n /\ i - 1 + 1 = i
      BY <1>1, <2>2
    <3> QED
      BY <1>4, <3>1
  <2> QED
    BY <2>1, <2>2
<1>6. ASSUME NEW x \in ToSet(c) PROVE x \in {m} \cup ToSet(s)
  BY <1>1, <1>3, <1>5, <1>6 DEF ToSet
<1>7. ASSUME NEW x \in {m} \cup ToSet(s) PROVE x \in ToSet(c)
  BY <1>1, <1>3, <1>4, <1>7 DEF ToSet
<1> QED
  BY <1>2, <1>6, <1>7 DEF c

\* Nothing but the journal changes, if that.
LEMMA HeldStands ==
  ASSUME LossInv, HeldInv, [JournalsNext]_journalVars, UNCHANGED <<wire, seed, tape>>
  PROVE  HeldInv'
<1>1. ToSet(trades_file) \subseteq ToSet(trades_file')
  BY TapeGrows
<1>2. (stage = "tell" => trades_file # <<>>)'
  BY TradeToTell DEF HeldInv
<1> QED
  BY <1>1, <1>2 DEF HeldInv, WireOK, SeedOK, TapeOK

LEMMA HeldInit == ClientInit => HeldInv
<1> SUFFICES ASSUME ClientInit PROVE HeldInv
  OBVIOUS
<1>1. <<>> \in Seq(TradeLine) /\ <<>> \in Seq(Message) /\ ToSet(<<>>) = {}
  BY EmptySeq DEF ToSet
<1> QED
  BY <1>1 DEF ClientInit, JournalsInit, HeldInv, WireOK, SeedOK, TapeOK, NoSeed

\* The newest trade goes to every connection.
LEMMA BroadcastFacts ==
  ASSUME LossInv, HeldInv, Broadcast
  PROVE  /\ WireOK' /\ \A s \in Sock : ToSet(wire[s]) \subseteq ToSet(wire'[s])
         /\ UNCHANGED <<seed, tape, trades_file>>
<1> DEFINE m == Last(trades_file)
<1>1. /\ trades_file # <<>> /\ trades_file \in Seq(TradeLine) /\ SendTo(clients, m)
      /\ UNCHANGED <<seed, tape, trades_file>>
  BY DEF Broadcast, Tell, HeldInv, LossInv, JournalTypeOK, pageVars, tapeVars
<1>2. m = trades_file[Len(trades_file)]
  BY DEF Last
<1>3. Len(trades_file) \in DOMAIN trades_file
  BY <1>1, EmptySeq, LenProperties
<1> HIDE DEF m
<1>4. m \in ToSet(trades_file) /\ m \in Message
  <2>1. m \in TradeLine
    BY <1>1, <1>2, <1>3, ElementOfSeq, LenProperties
  <2> QED
    BY <1>2, <1>3, <2>1 DEF ToSet, Message
<1> QED
  BY <1>1, <1>4, SendKeeps DEF HeldInv

\* The answer of a request goes to its connection.
LEMMA ReplyFacts ==
  ASSUME HeldInv, NEW r \in Request, NEW s \in Sock, Reply(r, s)
  PROVE  /\ WireOK' /\ \A q \in Sock : ToSet(wire[q]) \subseteq ToSet(wire'[q])
         /\ UNCHANGED <<seed, tape, journalVars>>
<1>1. /\ SendTo({s}, [requestId |-> r]) /\ UNCHANGED <<seed, tape, journalVars>>
      /\ [requestId |-> r] \in Message /\ UNCHANGED trades_file
  BY DEF Reply, pageVars, tapeVars, Message, journalVars
<1> QED
  BY <1>1, SendKeeps DEF HeldInv

\* A trade goes in front of the tape, and nothing is missing but the oldest.
LEMMA ReceiveTape ==
  ASSUME LossInv, HeldInv, NEW s \in Sock, Receive(s)
  PROVE  /\ WireOK' /\ TapeOK' /\ UNCHANGED <<seed, journalVars>>
         /\ \/ Len(tape') = MAX_TRADES
            \/ /\ ToSet(tape) \subseteq ToSet(tape')
               /\ \A t \in TradeLine : t = Head(wire[s]) => t \in ToSet(tape')
<1> DEFINE m == Head(wire[s])
<1>1. /\ m \in Message /\ m \in ToSet(trades_file) \cup [requestId : Request]
      /\ ToSet(wire[s]) = {m} \cup ToSet(wire'[s])
      /\ \A q \in Sock : q # s => wire'[q] = wire[q]
      /\ wire' \in [Sock -> Seq(Message)]
  BY ReceiveFacts
<1>2. UNCHANGED <<seed, journalVars>> /\ UNCHANGED trades_file
  BY DEF Receive, journalVars
<1>3. IF "requestId" \in DOMAIN m THEN UNCHANGED tape ELSE tape' = Shown(<<m>> \o tape)
  BY DEF Receive
<1> HIDE DEF m
<1>4. WireOK'
  <2>1. ASSUME NEW q \in Sock PROVE ToSet(wire'[q]) \subseteq ToSet(trades_file) \cup [requestId : Request]
    BY <1>1 DEF HeldInv, WireOK
  <2> QED
    BY <1>1, <1>2, <2>1 DEF WireOK
<1>5. CASE "requestId" \in DOMAIN m
  <2>1. m \notin TradeLine /\ UNCHANGED tape
    BY <1>3, <1>5, TradesAreNoAnswers
  <2> QED
    BY <1>2, <1>4, <2>1 DEF HeldInv, TapeOK, m
<1>6. CASE "requestId" \notin DOMAIN m
  <2>1. m \in TradeLine /\ m \in ToSet(trades_file)
    BY <1>1, <1>6, TradesAreNoAnswers DEF Message
  <2> DEFINE list == <<m>> \o tape
  <2>2. tape \in Seq(TradeLine) /\ ToSet(tape) \subseteq ToSet(trades_file)
    BY DEF HeldInv, TapeOK
  <2>3. list \in Seq(TradeLine) /\ ToSet(list) = {m} \cup ToSet(tape)
    BY <2>1, <2>2, InFront
  <2>4. tape' = Shown(list)
    BY <1>3, <1>6
  <2> HIDE DEF list
  <2>5. /\ tape' \in Seq(TradeLine) /\ ToSet(tape') \subseteq ToSet(list)
        /\ Len(tape') = MAX_TRADES \/ tape' = list
    BY <2>3, <2>4, ShownIs
  <2>6. TapeOK'
    BY <1>2, <2>1, <2>2, <2>3, <2>5 DEF TapeOK
  <2> QED
    BY <1>2, <1>4, <2>3, <2>5, <2>6 DEF m
<1> QED
  BY <1>5, <1>6

\* The answer of the fetch joins the tape, and nothing is missing but the oldest:
\* what has the numbers of a trade on the tape is that trade.
LEMMA MergeTape ==
  ASSUME LossInv, HeldInv, MergeSeed
  PROVE  /\ TapeOK' /\ SeedOK' /\ UNCHANGED <<wire, journalVars>>
         /\ \/ Len(tape') = MAX_TRADES
            \/ ToSet(tape) \subseteq ToSet(tape') /\ ToSet(seed.trades) \subseteq ToSet(tape')
<1> DEFINE older == seed.trades
<1>1. /\ tape \in Seq(TradeLine) /\ older \in Seq(TradeLine)
      /\ ToSet(tape) \subseteq ToSet(trades_file) /\ ToSet(older) \subseteq ToSet(trades_file)
  BY DEF HeldInv, TapeOK, SeedOK
<1>2. /\ tape' = Merged(tape, older) /\ seed' = NoSeed
      /\ UNCHANGED <<wire, journalVars>> /\ UNCHANGED trades_file
  BY DEF MergeSeed, linkVars, journalVars
<1>3. SeedOK'
  <2>1. <<>> \in Seq(TradeLine) /\ ToSet(<<>>) = {}
    BY EmptySeq DEF ToSet
  <2> QED
    BY <1>2, <2>1 DEF SeedOK, NoSeed
<1> HIDE DEF older
<1>4. PICK list \in Seq(TradeLine) :
         /\ Merged(tape, older) = Shown(list)
         /\ ToSet(tape) \subseteq ToSet(list)
         /\ ToSet(list) \subseteq ToSet(tape) \cup ToSet(older)
         /\ \A t \in ToSet(older) : t \in ToSet(list) \/ <<t.trade_id, t.ts>> \in SeenOn(tape)
  BY <1>1, MergedIs
<1>5. ASSUME NEW t \in ToSet(older), <<t.trade_id, t.ts>> \in SeenOn(tape) PROVE t \in ToSet(list)
  <2>1. PICK u \in ToSet(tape) : t.trade_id = u.trade_id /\ t.ts = u.ts
    BY <1>5 DEF SeenOn
  <2>2. PICK i \in DOMAIN trades_file, j \in DOMAIN trades_file :
           t = trades_file[i] /\ u = trades_file[j]
    BY <1>1 DEF ToSet
  <2>3. i = j
    BY <2>1, <2>2 DEF LossInv, TradesDistinct
  <2> QED
    BY <1>4, <2>2, <2>3
<1>6. ToSet(older) \subseteq ToSet(list)
  BY <1>4, <1>5
<1>7. /\ tape' \in Seq(TradeLine) /\ ToSet(tape') \subseteq ToSet(list)
      /\ Len(tape') = MAX_TRADES \/ tape' = list
  BY <1>2, <1>4, ShownIs
<1>8. TapeOK'
  BY <1>1, <1>2, <1>4, <1>7 DEF TapeOK
<1> QED
  BY <1>2, <1>3, <1>4, <1>6, <1>7, <1>8 DEF older

LEMMA HeldStep == LossInv /\ HeldInv /\ [ClientNext]_clientVars => HeldInv'
<1> SUFFICES ASSUME LossInv, HeldInv, [ClientNext]_clientVars PROVE HeldInv'
  OBVIOUS
<1>1. [JournalsNext]_journalVars /\ (stage = "tell" => trades_file # <<>>)'
  BY PageStepsServer, TradeToTell DEF HeldInv
<1>2. <<>> \in Seq(TradeLine) /\ ToSet(<<>>) = {}
  BY EmptySeq DEF ToSet
<1>3. CASE UNCHANGED <<wire, seed, tape>>
  BY <1>1, <1>3, HeldStands
<1>4. ASSUME UNCHANGED <<tape, trades_file>>, WireOK', SeedOK' PROVE HeldInv'
  BY <1>1, <1>4 DEF HeldInv, TapeOK
<1>5. CASE Mount
  <2>1. UNCHANGED <<wire, tape, trades_file>> /\ seed' = [phase |-> "asked", trades |-> <<>>]
    BY <1>5 DEF Mount, journalVars, linkVars
  <2>2. WireOK' /\ SeedOK'
    BY <1>2, <2>1 DEF HeldInv, WireOK, SeedOK
  <2> QED
    BY <1>4, <2>1, <2>2
<1>6. CASE Unmount
  <2>1. UNCHANGED <<tape, trades_file>> /\ seed' = NoSeed /\ Cut(wsRef)
    BY <1>6 DEF Unmount, journalVars
  <2>2. WireOK'
    BY <2>1, CutKeeps DEF HeldInv
  <2>3. SeedOK'
    BY <1>2, <2>1 DEF SeedOK, NoSeed
  <2> QED
    BY <1>4, <2>1, <2>2, <2>3
<1>7. ASSUME NEW s \in Sock, Lose(s) PROVE HeldInv'
  <2>1. UNCHANGED <<tape, trades_file, seed>> /\ Cut(s)
    BY <1>7 DEF Lose, journalVars, tapeVars
  <2>2. WireOK'
    BY <2>1, CutKeeps DEF HeldInv
  <2> QED
    BY <1>4, <2>1, <2>2 DEF HeldInv, SeedOK
<1>8. ASSUME NEW s \in Sock, Receive(s) PROVE HeldInv'
  <2>1. WireOK' /\ TapeOK' /\ UNCHANGED <<seed, trades_file>>
    BY <1>8, ReceiveTape DEF journalVars
  <2> QED
    BY <1>1, <2>1 DEF HeldInv, SeedOK
<1>9. ASSUME NEW s \in Sock, Open(s) \/ OnClose(s) PROVE UNCHANGED <<wire, seed, tape>>
  BY <1>9 DEF Open, OnClose, tapeVars, linkVars
<1>10. ASSUME NEW r \in Request, NEW s \in Sock, Reply(r, s) PROVE HeldInv'
  <2>1. WireOK' /\ UNCHANGED <<seed, tape, trades_file>>
    BY <1>10, ReplyFacts DEF journalVars
  <2> QED
    BY <1>4, <2>1 DEF HeldInv, SeedOK
<1>11. ASSUME NEW r \in Request, Send(r) PROVE UNCHANGED <<wire, seed, tape>>
  BY <1>11 DEF Send, tapeVars
<1>12. CASE Reconnect \/ ServerAlone \/ ServerDies \/ UNCHANGED clientVars
  <2>1. UNCHANGED <<wire, seed, tape>>
    BY <1>12 DEF Reconnect, ServerAlone, ServerDies, clientVars, pageVars, linkVars, tapeVars
  <2> QED
    BY <1>3, <2>1
<1>13. CASE Broadcast
  <2>1. WireOK' /\ UNCHANGED <<seed, tape, trades_file>>
    BY <1>13, BroadcastFacts
  <2> QED
    BY <1>4, <2>1 DEF HeldInv, SeedOK
<1>14. CASE ServeSeed
  <2>1. /\ seed' = [phase |-> "answered", trades |-> Latest(trades_file, MAX_TRADES)]
        /\ UNCHANGED <<wire, tape, trades_file>>
    BY <1>14 DEF ServeSeed, journalVars, linkVars
  <2>2. SeedOK'
    BY <2>1, LatestFromFile DEF SeedOK
  <2>3. WireOK'
    BY <2>1 DEF HeldInv, WireOK
  <2> QED
    BY <1>4, <2>1, <2>2, <2>3
<1>15. CASE SeedFails
  <2>1. seed' = NoSeed /\ UNCHANGED <<wire, tape, trades_file>>
    BY <1>15 DEF SeedFails, journalVars, linkVars
  <2>2. WireOK' /\ SeedOK'
    BY <1>2, <2>1 DEF HeldInv, WireOK, SeedOK, NoSeed
  <2> QED
    BY <1>4, <2>1, <2>2
<1>16. CASE MergeSeed
  <2>1. TapeOK' /\ SeedOK' /\ UNCHANGED <<wire, trades_file>>
    BY <1>16, MergeTape DEF journalVars
  <2> QED
    BY <1>1, <2>1 DEF HeldInv, WireOK
<1>17. ASSUME NEW s \in Sock, Open(s) \/ Lose(s) \/ OnClose(s) \/ Receive(s) PROVE HeldInv'
  BY <1>3, <1>7, <1>8, <1>9, <1>17
<1>18. ASSUME NEW r \in Request, Send(r) \/ \E s \in Sock : Reply(r, s) PROVE HeldInv'
  BY <1>3, <1>10, <1>11, <1>18
<1> QED
  BY <1>5, <1>6, <1>12, <1>13, <1>14, <1>15, <1>16, <1>17, <1>18 DEF ClientNext

LEMMA PageInvariant == ClientSpec => []PageInv
<1>1. ClientInit => PageInv
  BY DEF ClientInit, PageInv, Live
<1> QED
  BY <1>1, PageStep, PTL DEF ClientSpec

LEMMA HeldInvariant == ClientSpec => []HeldInv
BY HeldInit, HeldStep, PageImplementsJournals, LossInvariant, PTL DEF ClientSpec

\* A step that closes no connection, unmounts no page and does not fill the tape
\* loses no trade.
LEMMA StayStep ==
  ASSUME LossInv, PageInv, HeldInv, [ClientNext]_clientVars,
         NEW t \in ToSet(trades_file), Held(t),
         Len(tape') # MAX_TRADES, mounted', \A s \in Sock : readyState[s] = readyState'[s]
  PROVE  Held(t)'
<1>0. t \in TradeLine
  <2>1. trades_file \in Seq(TradeLine) /\ DOMAIN trades_file = 1..Len(trades_file)
    BY LenProperties DEF LossInv, JournalTypeOK
  <2> QED
    BY <2>1, ElementOfSeq DEF ToSet
<1>1. CASE UNCHANGED <<wire, seed, tape>>
  BY <1>1 DEF Held
<1>2. CASE UNCHANGED <<seed, tape>> /\ \A s \in Sock : ToSet(wire[s]) \subseteq ToSet(wire'[s])
  BY <1>2 DEF Held
<1>3. CASE UNCHANGED <<wire, tape>> /\ ToSet(seed.trades) \subseteq ToSet(seed'.trades)
  BY <1>3 DEF Held
<1>4. ~Unmount
  BY DEF Unmount
<1>5. ~Connect
  BY DEF Connect, PageInv
<1>6. ~Mount /\ ~Reconnect
  BY <1>5 DEF Mount, Reconnect
<1>7. \A s \in Sock : ~Open(s) /\ ~Lose(s) /\ ~OnClose(s)
  BY DEF Open, Lose, OnClose, PageInv
<1>8. ASSUME NEW s \in Sock, Receive(s) PROVE Held(t)'
  <2>1. /\ UNCHANGED seed /\ ToSet(tape) \subseteq ToSet(tape')
        /\ t = Head(wire[s]) => t \in ToSet(tape')
    BY <1>0, <1>8, ReceiveTape
  <2>2. /\ ToSet(wire[s]) = {Head(wire[s])} \cup ToSet(wire'[s])
        /\ \A q \in Sock : q # s => wire'[q] = wire[q]
    BY <1>8, ReceiveFacts
  <2>3. CASE t \in ToSet(tape) \cup ToSet(seed.trades)
    BY <2>1, <2>3 DEF Held
  <2>4. CASE \E q \in Sock : t \in ToSet(wire[q])
    <3>1. PICK q \in Sock : t \in ToSet(wire[q])
      BY <2>4
    <3>2. t \in ToSet(wire'[q]) \/ t = Head(wire[s])
      BY <2>2, <3>1
    <3> QED
      BY <2>1, <3>2 DEF Held
  <2> QED
    BY <2>3, <2>4 DEF Held
<1>9. ASSUME NEW r \in Request, NEW s \in Sock, Reply(r, s) PROVE Held(t)'
  BY <1>2, <1>9, ReplyFacts
<1>10. ASSUME NEW r \in Request, Send(r) PROVE UNCHANGED <<wire, seed, tape>>
  BY <1>10 DEF Send, tapeVars
<1>11. CASE ServerAlone \/ ServerDies \/ UNCHANGED clientVars
  <2>1. UNCHANGED <<wire, seed, tape>>
    BY <1>11 DEF ServerAlone, ServerDies, clientVars, pageVars, linkVars, tapeVars
  <2> QED
    BY <1>1, <2>1
<1>12. CASE Broadcast
  BY <1>2, <1>12, BroadcastFacts
<1>13. CASE ServeSeed \/ SeedFails
  <2>1. UNCHANGED <<wire, tape>> /\ seed.trades = <<>>
    BY <1>13 DEF ServeSeed, SeedFails, linkVars, HeldInv, SeedOK
  <2>2. ToSet(seed.trades) = {}
    BY <2>1 DEF ToSet
  <2> QED
    BY <1>3, <2>1, <2>2
<1>14. CASE MergeSeed
  <2>1. /\ UNCHANGED wire /\ ToSet(tape) \subseteq ToSet(tape')
        /\ ToSet(seed.trades) \subseteq ToSet(tape')
    BY <1>14, MergeTape
  <2> QED
    BY <2>1 DEF Held
<1> QED
  BY <1>4, <1>6, <1>7, <1>8, <1>9, <1>10, <1>1, <1>11, <1>12, <1>13, <1>14 DEF ClientNext

\* A trade that has reached the page, by the feed or by the fetch, stays on its tape
\* until MAX_TRADES others are there, whichever of the two is first: setTrades of
\* onmessage and of the fetch, and what a server that dies and starts again numbers
\* its trades.
THEOREM NoTradeIsLost == ClientSpec => TradesStay
<1>1. LossInv /\ PageInv /\ HeldInv /\ [ClientNext]_clientVars =>
        [\A t \in ToSet(trades_file) : Held(t) /\ ~Held(t)' =>
           \/ Len(tape') = MAX_TRADES
           \/ ~mounted'
           \/ \E s \in Sock : readyState[s] # readyState'[s]]_clientVars
  BY StayStep
<1> QED
  BY <1>1, PageInvariant, HeldInvariant, PageImplementsJournals, LossInvariant, PTL
     DEF ClientSpec, TradesStay

-----------------------------------------------------------------------------
(* Orders as the page groups them.                                         *)

Opening == {"new", "answer"}

\* Line e may come right behind line d: the next one of the same batch or the first
\* of another. Batches with the number 1 are not told apart.
FollowsOn(d, e) ==
  IF d.batch_id = e.batch_id
  THEN e.batch_id = 1 \/ (d.ts = e.ts /\ e.seq = d.seq + 1 /\ e.type \notin Opening)
  ELSE e.type \in Opening

\* orders.jsonl has the batches one behind the other, each from its first line, and
\* the last one is that of the counters, if they have been used.
LinesInOrder ==
  /\ \A i \in 1..Len(orders_file) :
       /\ i = 1 => orders_file[i].type \in Opening
       /\ i > 1 => FollowsOn(orders_file[i - 1], orders_file[i])
  /\ counters.batch > 1 =>
       /\ Len(orders_file) > 0
       /\ orders_file[Len(orders_file)].ts = run
       /\ orders_file[Len(orders_file)].batch_id = counters.batch - 1
       /\ orders_file[Len(orders_file)].seq = counters.event - 1
  /\ InProgress => counters.batch > 1

\* A first line draws a new number, another one follows on.
LEMMA EmitInOrder ==
  ASSUME LossInv, LinesInOrder, NEW b, NEW kind, Emit(b, kind), UNCHANGED run,
         \/ b = counters.batch /\ kind \in Opening
         \/ b = Batch /\ InProgress /\ kind \in {"maker", "taker"}
  PROVE  LinesInOrder'
<1> DEFINE f == orders_file
           n == Len(f)
           e == [seq |-> counters.event, batch_id |-> b, type |-> kind, ts |-> run]
<1>1. /\ f \in Seq(OrderLine) /\ run \in Nat
      /\ counters \in [event : Nat, batch : Nat \ {0}, trade : Nat]
      /\ f' = Append(f, e) /\ counters' = [counters EXCEPT !.event = @ + 1, !.batch = b + 1]
  BY DEF LossInv, JournalTypeOK, Emit
<1>2. b \in Nat \ {0} /\ kind \in {"answer", "new", "maker", "taker"}
  BY <1>1 DEF Batch, Opening, LinesInOrder
<1>3. /\ counters'.event = counters.event + 1 /\ counters'.batch = b + 1
      /\ counters.event \in Nat /\ counters.batch \in Nat \ {0}
  BY <1>1
<1>4. e \in OrderLine /\ e.seq = counters.event /\ e.batch_id = b /\ e.type = kind /\ e.ts = run
  BY <1>1, <1>2 DEF OrderLine
<1> HIDE DEF e
<1>5. /\ n \in Nat /\ Len(f') = n + 1 /\ f'[n + 1] = e /\ \A i \in 1..n : f'[i] = f[i]
  BY <1>1, <1>4, LenProperties, AppendProperties
<1>6. n = 0 => e.type \in Opening
  BY <1>3, <1>4 DEF LinesInOrder
<1>7. ASSUME n > 0 PROVE FollowsOn(f[n], e)
  <2> DEFINE d == f[n]
  <2>1. d \in OrderLine /\ d = orders_file[n]
    BY <1>1, <1>5, <1>7, ElementOfSeq
  <2>2. d.batch_id \in Nat /\ d.seq \in Nat /\ d.ts \in Nat
    BY <2>1 DEF OrderLine
  <2>3. CASE b = counters.batch /\ kind \in Opening
    <3>1. counters.batch > 1 => d.batch_id # b
      BY <1>3, <2>1, <2>2, <2>3 DEF LinesInOrder
    <3> HIDE DEF d
    <3> QED
      BY <1>3, <1>4, <2>3, <3>1 DEF FollowsOn, d
  <2>4. CASE b = Batch /\ InProgress /\ kind \in {"maker", "taker"}
    <3>1. d.ts = run /\ d.batch_id = counters.batch - 1 /\ d.seq = counters.event - 1
      BY <2>1, <2>4 DEF LinesInOrder
    <3>2. kind \notin Opening
      BY <2>4 DEF Opening
    <3> HIDE DEF d
    <3>3. d.batch_id = e.batch_id /\ d.ts = e.ts /\ e.seq = d.seq + 1
      BY <1>3, <1>4, <2>2, <2>4, <3>1 DEF Batch
    <3> QED
      BY <1>4, <3>2, <3>3 DEF FollowsOn, d
  <2> QED
    BY <2>3, <2>4
<1> HIDE DEF n
<1>8. ASSUME NEW i \in 1..(n + 1)
      PROVE  /\ i = 1 => f'[i].type \in Opening
             /\ i > 1 => FollowsOn(f'[i - 1], f'[i])
  <2>1. CASE i = n + 1
    <3>1. i > 1 => i - 1 = n /\ n > 0 /\ n \in 1..n
      BY <1>5, <2>1
    <3>2. i = 1 => n = 0
      BY <1>5, <2>1
    <3> QED
      BY <1>5, <1>6, <1>7, <2>1, <3>1, <3>2
  <2>2. CASE i # n + 1
    <3>1. i \in 1..n /\ (i > 1 => i - 1 \in 1..n)
      BY <1>5, <2>2
    <3>2. /\ i = 1 => f[i].type \in Opening
          /\ i > 1 => FollowsOn(f[i - 1], f[i])
      BY <3>1 DEF LinesInOrder, n
    <3> QED
      BY <1>5, <3>1, <3>2
  <2> QED
    BY <2>1, <2>2
<1>9. /\ Len(f') > 0 /\ f'[Len(f')].ts = run /\ f'[Len(f')].batch_id = counters'.batch - 1
      /\ f'[Len(f')].seq = counters'.event - 1 /\ counters'.batch > 1
  BY <1>2, <1>3, <1>4, <1>5
<1> QED
  BY <1>5, <1>8, <1>9 DEF LinesInOrder

LEMMA LinesStep == LossInv /\ LinesInOrder /\ [JournalsNext]_journalVars => LinesInOrder'
<1> SUFFICES ASSUME LossInv, LinesInOrder, [JournalsNext]_journalVars PROVE LinesInOrder'
  OBVIOUS
<1>1. CASE Answer
  BY <1>1, EmitInOrder DEF Answer, Opening
<1>2. CASE Accept
  BY <1>2, EmitInOrder DEF Accept, Opening
<1>3. CASE Fill
  BY <1>3, EmitInOrder DEF Fill, InProgress
<1>4. CASE Complete
  <2>1. CASE stage = "emit"
    BY <1>4, <2>1, EmitInOrder DEF Complete, InProgress
  <2>2. CASE stage # "emit"
    BY <1>4, <2>2 DEF Complete, InProgress, LinesInOrder
  <2> QED
    BY <2>1, <2>2
<1>5. CASE Journal
  <2>1. /\ UNCHANGED <<run, orders_file>> /\ stage \in {"match", "emit"}
        /\ counters' = [counters EXCEPT !.trade = @ + 1]
    BY <1>5 DEF Journal
  <2>2. counters'.batch = counters.batch /\ counters'.event = counters.event
    BY <2>1 DEF LossInv, JournalTypeOK
  <2> QED
    BY <2>1, <2>2 DEF LinesInOrder, InProgress
<1>6. CASE Tell \/ Crash \/ Get \/ UNCHANGED journalVars
  BY <1>6 DEF Tell, Crash, Get, journalVars, LinesInOrder, InProgress
<1>7. CASE Start
  <2>1. counters'.batch = 1 /\ stage' = "idle" /\ UNCHANGED orders_file
    BY <1>7 DEF Start, FreshCounters
  <2> QED
    BY <2>1 DEF LinesInOrder, InProgress
<1> QED
  BY <1>1, <1>2, <1>3, <1>4, <1>5, <1>6, <1>7 DEF JournalsNext

LEMMA LinesInvariant == JournalsSpec => []LinesInOrder
<1>1. JournalsInit => LinesInOrder
  <2>1. Len(<<>>) = 0
    OBVIOUS
  <2> QED
    BY <2>1 DEF JournalsInit, LinesInOrder, FreshCounters, InProgress
<1> QED
  BY <1>1, LinesStep, LossInvariant, PTL DEF JournalsSpec

\* The answer of GET /activity: the last lines, the last one first, and all of them
\* unless the limit is reached.
LEMMA LatestIs ==
  ASSUME NEW L, NEW file \in Seq(L), NEW limit \in Nat
  PROVE  LET r == Latest(file, limit)
         IN  /\ r \in Seq(L) /\ Len(r) <= Len(file)
             /\ \A i \in 1..Len(r) : r[i] = file[Len(file) - i + 1]
             /\ Len(r) < Len(file) => Len(r) = EffectiveLimit(limit)
<1> DEFINE n == Len(file)
           full == EffectiveLimit(limit)
           wanted == ToSet(file)
           r == ReadLast(file, wanted, full)
           m == Len(r)
<1>1. full \in Nat \ {0} /\ Latest(file, limit) = r
  BY LimitIsPositive DEF Latest
<1>2. n \in Nat /\ \A p \in 1..n : file[p] \in wanted
  BY LenProperties DEF ToSet
<1> HIDE DEF full, wanted
<1>3. /\ r \in Seq(L) /\ m <= full
      /\ \E at \in [1..m -> 1..n] :
           /\ \A i, j \in 1..m : i < j => at[j] < at[i]
           /\ \A i \in 1..m : r[i] = file[at[i]]
           /\ \A p \in 1..n : \/ \E i \in 1..m : at[i] = p
                              \/ m = full /\ \A i \in 1..m : p < at[i]
  <2>0. r = ReadLast(file, wanted, full)
    OBVIOUS
  <2> HIDE DEF r
  <2>1. /\ r \in Seq(L) /\ m <= full
        /\ \E at \in [1..m -> 1..n] :
           /\ \A i, j \in 1..m : i < j => at[j] < at[i]
           /\ \A i \in 1..m : r[i] = file[at[i]] /\ file[at[i]] \in wanted
           /\ \A p \in 1..n : file[p] \in wanted =>
                \/ \E i \in 1..m : at[i] = p
                \/ m = full /\ \A i \in 1..m : p < at[i]
    BY <1>1, <2>0, ReadLastIs
  <2> HIDE DEF m, n
  <2> QED
    BY <1>2, <2>1
<1>4. m \in Nat
  BY <1>3, LenProperties
<1> HIDE DEF n, r, m
<1>5. PICK at \in [1..m -> 1..n] :
           /\ \A i, j \in 1..m : i < j => at[j] < at[i]
           /\ \A i \in 1..m : r[i] = file[at[i]]
           /\ \A p \in 1..n : \/ \E i \in 1..m : at[i] = p
                              \/ m = full /\ \A i \in 1..m : p < at[i]
  BY <1>3
<1> DEFINE G == {k \in 0..m : k > 0 => at[k] = n - k + 1}
<1>6. \A k \in 1..m : k - 1 \in G => k \in G
  <2> SUFFICES ASSUME NEW k \in 1..m, k - 1 \in G PROVE at[k] = n - k + 1
    BY <1>4
  <2>1. at[k] \in 1..n /\ k \in Nat
    BY <1>4, <1>5
  <2>2. at[k] <= n - k + 1 /\ \A j \in 1..m : j < k => at[j] > n - k + 1
    <3>1. CASE k = 1
      BY <1>2, <1>4, <2>1, <3>1
    <3>2. CASE k # 1
      <4>1. k - 1 \in 1..m /\ k - 1 < k /\ at[k - 1] = n - (k - 1) + 1
        BY <1>4, <3>2
      <4>2. at[k] < at[k - 1]
        BY <1>5, <4>1
      <4>3. ASSUME NEW j \in 1..m, j < k PROVE at[j] > n - k + 1
        <5>1. j = k - 1 \/ j < k - 1
          BY <1>4, <4>3
        <5>2. j < k - 1 => at[k - 1] < at[j]
          BY <1>5, <4>1
        <5>3. at[j] \in Nat /\ at[k - 1] \in Nat
          BY <1>5, <4>1
        <5> QED
          BY <1>2, <1>4, <4>1, <5>1, <5>2, <5>3
      <4> QED
        BY <1>2, <1>4, <2>1, <4>1, <4>2, <4>3
    <3> QED
      BY <3>1, <3>2
  <2> DEFINE p == n - k + 1
  <2>3. p \in 1..n
    BY <1>2, <2>1, <2>2
  <2> HIDE DEF p
  <2>4. CASE \E i \in 1..m : at[i] = p
    <3>1. PICK i \in 1..m : at[i] = p
      BY <2>4
    <3>2. i >= k
      BY <1>2, <1>4, <2>2, <3>1 DEF p
    <3>3. i > k => at[i] < at[k]
      BY <1>5
    <3> QED
      BY <1>2, <1>4, <2>1, <2>2, <2>3, <3>1, <3>2, <3>3 DEF p
  <2>5. CASE \A i \in 1..m : p < at[i]
    BY <1>2, <2>1, <2>2, <2>3, <2>5 DEF p
  <2> QED
    BY <1>5, <2>3, <2>4, <2>5
<1>7. \A k \in 1..m : at[k] = n - k + 1
  <2>1. 0 \in G
    BY <1>4
  <2> HIDE DEF G
  <2>2. \A k \in 0..m : k \in G
    BY <1>4, <1>6, <2>1, UpTo
  <2> QED
    BY <2>2 DEF G
<1>8. m <= n
  <2>1. m = 0 \/ m \in 1..m
    BY <1>4
  <2>2. m \in 1..m => at[m] \in 1..n /\ at[m] = n - m + 1
    BY <1>5, <1>7
  <2> QED
    BY <1>2, <1>4, <2>1, <2>2
<1>9. ASSUME m < n PROVE m = full
  <2>1. n - m \in 1..n
    BY <1>2, <1>4, <1>9
  <2>2. ASSUME NEW i \in 1..m, at[i] = n - m PROVE FALSE
    <3>1. at[i] = n - i + 1
      BY <1>7
    <3> QED
      BY <1>2, <1>4, <2>2, <3>1
  <2> QED
    BY <1>5, <2>1, <2>2
<1>10. \A i \in 1..m : r[i] = file[n - i + 1]
  BY <1>5, <1>7
<1> QED
  BY <1>1, <1>3, <1>8, <1>9, <1>10 DEF n, m, full

\* Which place sort gives to an element.
Place(group, i) ==
  Cardinality({j \in DOMAIN group : \/ group[j].seq < group[i].seq
                                    \/ group[j].seq = group[i].seq /\ j <= i})

\* The sorted group has the lines of the group, and those only.
LEMMA BySeqPermutes ==
  ASSUME NEW group \in Seq(OrderLine)
  PROVE  /\ DOMAIN BySeq(group) = DOMAIN group
         /\ \A k \in DOMAIN group : BySeq(group)[k] \in ToSet(group)
<1> DEFINE n == Len(group)
           D == DOMAIN group
           Down(i) == {j \in D : \/ group[j].seq < group[i].seq
                                 \/ group[j].seq = group[i].seq /\ j <= i}
           f == [i \in D |-> Place(group, i)]
<1>1. /\ n \in Nat /\ D = 1..n /\ IsFiniteSet(D) /\ Cardinality(D) = n
      /\ \A i \in D : group[i].seq \in Nat
  <2>1. n \in Nat /\ D = 1..n
    BY LenProperties
  <2>2. \A i \in 1..n : group[i] \in OrderLine
    BY ElementOfSeq
  <2>3. IsFiniteSet(1..n) /\ Cardinality(1..n) = n
    <3>1. Cardinality(1..n) = IF 1 > n THEN 0 ELSE n - 1 + 1
      BY <2>1, FS_Interval
    <3> QED
      BY <2>1, <3>1, FS_Interval
  <2> QED
    BY <2>1, <2>2, <2>3 DEF OrderLine
<1>2. \A i \in D : Place(group, i) = Cardinality(Down(i))
  BY DEF Place
<1> HIDE DEF n
<1>3. \A i \in D : Down(i) \in SUBSET D /\ i \in Down(i)
  BY <1>1
<1>4. ASSUME NEW i \in D, NEW j \in D, i # j
      PROVE  (Down(i) \subseteq Down(j) /\ j \notin Down(i)) \/ (Down(j) \subseteq Down(i) /\ i \notin Down(j))
  BY <1>1, <1>4
<1> HIDE DEF D, Down
<1>5. \A i \in D : IsFiniteSet(Down(i)) /\ Cardinality(Down(i)) \in 1..n
  <2>1. ASSUME NEW i \in D PROVE IsFiniteSet(Down(i)) /\ Cardinality(Down(i)) \in 1..n
    <3>1. IsFiniteSet(Down(i)) /\ Cardinality(Down(i)) <= n
      BY <1>1, <1>3, FS_Subset
    <3>2. Cardinality(Down(i)) \in Nat /\ Cardinality(Down(i)) # 0
      BY <1>3, <3>1, FS_CardinalityType, FS_EmptySet
    <3> QED
      BY <1>1, <3>1, <3>2
  <2> QED
    BY <2>1
<1>6. ASSUME NEW i \in D, NEW j \in D, Down(i) \subseteq Down(j), j \notin Down(i)
      PROVE  Cardinality(Down(i)) # Cardinality(Down(j))
  <2>1. Down(i) \in SUBSET Down(j)
    BY <1>6
  <2>2. Cardinality(Down(i)) = Cardinality(Down(j)) => Down(i) = Down(j)
    BY <1>5, <2>1, FS_Subset
  <2> QED
    BY <1>3, <1>6, <2>2
<1>7. f \in Injection(D, 1..n)
  <2>1. f \in [D -> 1..n]
    BY <1>2, <1>5
  <2>2. \A i, j \in D : f[i] = f[j] => i = j
    BY <1>2, <1>4, <1>6
  <2> QED
    BY <2>1, <2>2 DEF Injection, IsInjective
<1>8. f \in Surjection(D, 1..n)
  <2>1. IsFiniteSet(1..n) /\ Cardinality(1..n) = Cardinality(D)
    BY <1>1 DEF D
  <2> HIDE DEF f
  <2> QED
    BY <1>7, <2>1, FS_Injection
<1>9. ASSUME NEW k \in D PROVE BySeq(group)[k] \in ToSet(group)
  <2>1. \E i \in D : Place(group, i) = k
    BY <1>1, <1>8 DEF Surjection
  <2> DEFINE c == CHOOSE i \in D : Place(group, i) = k
  <2>2. c \in D
    BY <2>1
  <2>3. BySeq(group)[k] = group[c]
    BY DEF BySeq, D, Place
  <2> HIDE DEF c
  <2> QED
    BY <2>2, <2>3 DEF ToSet, D
<1>10. DOMAIN BySeq(group) = D
  BY DEF BySeq, D
<1> QED
  BY <1>9, <1>10 DEF D

\* A group the other way round is put right.
LEMMA BySeqReverses ==
  ASSUME NEW group \in Seq(OrderLine),
         \A i, j \in 1..Len(group) : i < j => group[j].seq < group[i].seq
  PROVE  \A k \in 1..Len(group) : BySeq(group)[k] = group[Len(group) - k + 1]
<1> DEFINE n == Len(group)
<1>1. n \in Nat /\ DOMAIN group = 1..n /\ \A i \in 1..n : group[i].seq \in Nat
  <2>1. \A i \in 1..n : group[i] \in OrderLine
    BY ElementOfSeq
  <2> QED
    BY <2>1, LenProperties DEF OrderLine
<1>2. \A i, j \in 1..n : i < j => group[j].seq < group[i].seq
  OBVIOUS
<1> HIDE DEF n
<1>3. ASSUME NEW i \in 1..n PROVE Place(group, i) = n - i + 1
  <2>1. {j \in 1..n : group[j].seq < group[i].seq \/ (group[j].seq = group[i].seq /\ j <= i)} = i..n
    <3>1. ASSUME NEW j \in 1..n
          PROVE  group[j].seq < group[i].seq \/ (group[j].seq = group[i].seq /\ j <= i) <=> j >= i
      <4>1. j < i => group[i].seq < group[j].seq
        BY <1>2
      <4>2. i < j => group[j].seq < group[i].seq
        BY <1>2
      <4>3. group[i].seq \in Nat /\ group[j].seq \in Nat /\ i \in Nat /\ j \in Nat
        BY <1>1
      <4>4. CASE j < i
        BY <4>1, <4>3, <4>4
      <4>5. CASE j = i
        BY <4>3, <4>5
      <4>6. CASE i < j
        BY <4>2, <4>3, <4>6
      <4> QED
        BY <4>3, <4>4, <4>5, <4>6
    <3>2. \A j \in i..n : j \in 1..n
      BY <1>1
    <3> QED
      BY <1>1, <3>1, <3>2
  <2>2. Place(group, i) = Cardinality(i..n)
    BY <1>1, <2>1 DEF Place
  <2>3. Cardinality(i..n) = IF i > n THEN 0 ELSE n - i + 1
    BY <1>1, FS_Interval
  <2> QED
    BY <1>1, <2>2, <2>3
<1>4. ASSUME NEW k \in 1..n PROVE BySeq(group)[k] = group[n - k + 1]
  <2>1. BySeq(group)[k] = group[CHOOSE i \in 1..n : Place(group, i) = k]
    BY <1>1 DEF BySeq, Place
  <2>2. n - k + 1 \in 1..n /\ n - (n - k + 1) + 1 = k
    BY <1>1
  <2>3. \A i \in 1..n : Place(group, i) = k <=> i = n - k + 1
    <3>1. \A i \in 1..n : n - i + 1 = k <=> i = n - k + 1
      BY <1>1
    <3> QED
      BY <1>3, <3>1
  <2>4. (CHOOSE i \in 1..n : Place(group, i) = k) = n - k + 1
    BY <2>2, <2>3
  <2> QED
    BY <2>1, <2>4
<1> QED
  BY <1>4 DEF n

\* One line more for groupBatches.
Grouped(groups, e) ==
  IF groups # <<>> /\ Head(Last(groups)).batch_id = e.batch_id
  THEN [groups EXCEPT ![Len(groups)] = Append(@, e)]
  ELSE Append(groups, <<e>>)

LEMMA GroupedType ==
  ASSUME NEW groups \in Seq(Seq(OrderLine)), NEW e \in OrderLine
  PROVE  Grouped(groups, e) \in Seq(Seq(OrderLine))
<1> DEFINE n == Len(groups)
<1>1. CASE groups # <<>>
  <2>1. n \in 1..n
    BY <1>1, EmptySeq
  <2>2. groups[n] \in Seq(OrderLine)
    BY <2>1, ElementOfSeq
  <2>3. Append(groups[n], e) \in Seq(OrderLine)
    BY <2>2, AppendProperties
  <2>4. [groups EXCEPT ![n] = Append(groups[n], e)] \in Seq(Seq(OrderLine))
    BY <2>1, <2>3, ExceptSeq
  <2>5. <<e>> \in Seq(OrderLine)
    OBVIOUS
  <2>6. Append(groups, <<e>>) \in Seq(Seq(OrderLine))
    BY <2>5, AppendProperties
  <2> QED
    BY <2>4, <2>6 DEF Grouped
<1>2. CASE groups = <<>>
  <2>1. <<e>> \in Seq(OrderLine)
    OBVIOUS
  <2>2. Append(groups, <<e>>) \in Seq(Seq(OrderLine))
    BY <2>1, AppendProperties
  <2> QED
    BY <1>2, <2>2 DEF Grouped
<1> QED
  BY <1>1, <1>2

\* The groups after each number of lines.
IsGrouping(read, events) ==
  /\ read \in [0..Len(events) -> Seq(Seq(OrderLine))] /\ read[0] = <<>>
  /\ \A k \in 1..Len(events) : read[k] = Grouped(read[k - 1], events[k])
  /\ GroupBatches(events)
       = [g \in DOMAIN read[Len(events)] |-> BySeq(read[Len(events)][g])]

LEMMA GroupsUnfold ==
  ASSUME NEW events \in Seq(OrderLine)
  PROVE  \E read : IsGrouping(read, events)
<1> DEFINE n == Len(events)
           V == Seq(Seq(OrderLine))
           F == [k \in 1..n |-> [b \in V |-> Grouped(b, events[k])]]
           IsIt(h) == h = [t \in SUBSET (1..n) |->
                             IF t = {} THEN <<>>
                             ELSE Grouped(h[t \ {Max(t)}], events[Max(t)])]
           H == CHOOSE h : IsIt(h)
<1>1. n \in Nat /\ DOMAIN events = 1..n /\ <<>> \in V /\ \A k \in 1..n : events[k] \in OrderLine
  BY LenProperties, ElementOfSeq, EmptySeq
<1>2. \A k \in 1..n, b \in V : Grouped(b, events[k]) \in V
  BY <1>1, GroupedType
<1>3. \E h : IsIt(h)
  <2>1. F \in [1..n -> [V -> V]]
    BY <1>2
  <2> HIDE DEF n, V
  <2>2. PICK h \in [SUBSET (1..n) -> V] : IsFoldOf(h, n, <<>>, F)
    <3> HIDE DEF F
    <3> QED
      BY <1>1, <2>1, FoldExists
  <2>3. ASSUME NEW t \in SUBSET (1..n), t # {}
        PROVE  h[t] = Grouped(h[t \ {Max(t)}], events[Max(t)])
    <3>1. Max(t) \in 1..n /\ t \ {Max(t)} \in SUBSET (1..n)
      BY <1>1, <2>3, Greatest
    <3>2. h[t] = F[Max(t)][h[t \ {Max(t)}]] /\ h[t \ {Max(t)}] \in V
      BY <2>2, <2>3, <3>1 DEF IsFoldOf
    <3> QED
      BY <3>1, <3>2
  <2>4. h[{}] = <<>>
    BY <2>2 DEF IsFoldOf
  <2>5. IsIt(h)
    BY <2>2, <2>3, <2>4
  <2> QED
    BY <2>5
<1>4. IsIt(H)
  BY <1>3
<1>5. GroupBatches(events) = [g \in DOMAIN H[1..n] |-> BySeq(H[1..n][g])]
  BY <1>1 DEF GroupBatches, FoldLeft, MapThenFoldSet, Grouped
<1> HIDE DEF H, n, V
<1>6. H[1..0] = <<>>
  <2>1. 1..0 = {}
    OBVIOUS
  <2> QED
    BY <1>4, <2>1
<1>7. ASSUME NEW k \in 1..n
      PROVE  H[1..k] = Grouped(H[1..(k - 1)], events[k])
  <2> DEFINE t == 1..k
  <2>1. t \in SUBSET (1..n) /\ t # {} /\ Max(t) = k /\ t \ {k} = 1..(k - 1)
    BY <1>1, NumbersUpTo
  <2> HIDE DEF t
  <2>2. H[t] = Grouped(H[t \ {Max(t)}], events[Max(t)])
    BY <1>4, <2>1
  <2> QED
    BY <2>1, <2>2 DEF t
<1> DEFINE read == [k \in 0..n |-> H[1..k]]
<1>8. \A k \in 0..n : H[1..k] \in V
  <2> DEFINE G == {k \in 0..n : H[1..k] \in V}
  <2>1. 0 \in G
    BY <1>1, <1>6
  <2>2. \A k \in 1..n : k - 1 \in G => k \in G
    BY <1>1, <1>2, <1>7
  <2> HIDE DEF G
  <2>3. \A k \in 0..n : k \in G
    BY <1>1, <2>1, <2>2, UpTo
  <2> QED
    BY <2>3 DEF G
<1>9. /\ read \in [0..n -> V] /\ read[0] = <<>> /\ read[n] = H[1..n]
      /\ \A k \in 1..n : read[k] = Grouped(read[k - 1], events[k])
  BY <1>1, <1>6, <1>7, <1>8
<1> HIDE DEF read
<1>10. IsGrouping(read, events)
  BY <1>5, <1>9 DEF IsGrouping, n, V
<1> QED
  BY <1>10

\* Group q is the lines from a to b, of one batch.
Stretch(q, events, a, b) ==
  /\ Len(q) = b - a + 1
  /\ \A i \in 1..Len(q) : q[i] = events[a + i - 1] /\ q[i].batch_id = q[1].batch_id

\* The groups after k lines. Each but the last ends where another batch begins.
IsCut(groups, events, k) ==
  \A g \in 1..Len(groups) : \E a \in 1..k : \E b \in a..k :
    /\ Stretch(groups[g], events, a, b)
    /\ g = Len(groups) => b = k
    /\ g < Len(groups) => b < k /\ events[b + 1].batch_id # events[b].batch_id

\* The line joins the last group.
LEMMA JoinCut ==
  ASSUME NEW events \in Seq(OrderLine), NEW k \in 1..Len(events), NEW groups \in Seq(Seq(OrderLine)),
         IsCut(groups, events, k - 1), groups # <<>>,
         Head(Last(groups)).batch_id = events[k].batch_id
  PROVE  IsCut(Grouped(groups, events[k]), events, k)
<1> DEFINE l == Len(groups)
           e == events[k]
           q == groups[l]
           new == Grouped(groups, e)
<1>1. l \in Nat /\ l \in 1..l /\ q \in Seq(OrderLine) /\ e \in OrderLine /\ k \in Nat /\ Last(groups) = q
  <2>1. l \in Nat /\ l \in 1..l /\ k \in Nat
    BY EmptySeq, LenProperties
  <2> QED
    BY <2>1, ElementOfSeq DEF Last
<1>2. /\ Append(q, e) \in Seq(OrderLine) /\ Len(q) \in Nat /\ Len(Append(q, e)) = Len(q) + 1
      /\ Append(q, e)[Len(q) + 1] = e /\ \A i \in 1..Len(q) : Append(q, e)[i] = q[i]
  <2> HIDE DEF q, e
  <2> QED
    BY <1>1, AppendProperties, LenProperties
<1>3. new = [groups EXCEPT ![l] = Append(q, e)]
  BY DEF Grouped
<1>4. Len(new) = l /\ \A g \in 1..l : new[g] = IF g = l THEN Append(q, e) ELSE groups[g]
  <2> DEFINE r == Append(q, e)
  <2> HIDE DEF r
  <2>1. /\ Len([groups EXCEPT ![l] = r]) = l
        /\ \A g \in 1..l : [groups EXCEPT ![l] = r][g] = IF g = l THEN r ELSE groups[g]
    BY <1>1, <1>2, ExceptSeq DEF r
  <2> QED
    BY <1>3, <2>1 DEF r
<1>5. PICK a \in 1..(k - 1) : Stretch(q, events, a, k - 1)
  BY <1>1 DEF IsCut
<1>6. Head(q) = q[1] /\ Len(q) = k - a /\ a \in Nat /\ a <= k - 1
  <2>1. Len(q) = (k - 1) - a + 1
    BY <1>5 DEF Stretch
  <2> QED
    BY <1>1, <2>1
<1> HIDE DEF new, q, e
<1>7. Stretch(Append(q, e), events, a, k)
  <2>1. Len(Append(q, e)) = k - a + 1
    BY <1>2, <1>6
  <2>2. Append(q, e)[1] = q[1] /\ q[1].batch_id = e.batch_id
    <3>1. 1 \in 1..Len(q)
      BY <1>1, <1>6
    <3> QED
      BY <1>1, <1>2, <1>6, <3>1 DEF e
  <2>3. ASSUME NEW i \in 1..Len(Append(q, e))
        PROVE  /\ Append(q, e)[i] = events[a + i - 1]
               /\ Append(q, e)[i].batch_id = Append(q, e)[1].batch_id
    <3>1. CASE i = Len(q) + 1
      <4>1. a + i - 1 = k
        BY <1>1, <1>6, <3>1
      <4> QED
        BY <1>2, <2>2, <3>1, <4>1 DEF e
    <3>2. CASE i # Len(q) + 1
      <4>1. i \in 1..Len(q)
        BY <1>2, <3>2
      <4>2. q[i] = events[a + i - 1] /\ q[i].batch_id = q[1].batch_id
        BY <1>5, <4>1 DEF Stretch
      <4> QED
        BY <1>2, <2>2, <4>1, <4>2
    <3> QED
      BY <3>1, <3>2
  <2> QED
    BY <2>1, <2>3 DEF Stretch
<1> HIDE DEF l
<1>8. ASSUME NEW g \in 1..l
      PROVE  \E x \in 1..k : \E y \in x..k :
               /\ Stretch(new[g], events, x, y)
               /\ g = l => y = k
               /\ g < l => y < k /\ events[y + 1].batch_id # events[y].batch_id
  <2>1. CASE g = l
    <3>1. a \in 1..k /\ k \in a..k /\ new[g] = Append(q, e) /\ ~(g < l)
      BY <1>1, <1>4, <1>6, <2>1
    <3> QED
      BY <1>7, <3>1
  <2>2. CASE g # l
    <3>1. g < l /\ new[g] = groups[g]
      BY <1>1, <1>4, <2>2
    <3>2. PICK x \in 1..(k - 1) : \E y \in x..(k - 1) :
             /\ Stretch(groups[g], events, x, y)
             /\ y < k - 1 /\ events[y + 1].batch_id # events[y].batch_id
      BY <3>1 DEF IsCut, l
    <3>3. PICK y \in x..(k - 1) :
             /\ Stretch(groups[g], events, x, y)
             /\ y < k - 1 /\ events[y + 1].batch_id # events[y].batch_id
      BY <3>2
    <3>4. x \in 1..k /\ y \in x..k /\ y < k
      BY <1>1
    <3> QED
      BY <2>2, <3>1, <3>3, <3>4
  <2> QED
    BY <2>1, <2>2
<1> QED
  BY <1>4, <1>8 DEF IsCut, new, e

\* The line begins a group.
LEMMA BeginCut ==
  ASSUME NEW events \in Seq(OrderLine), NEW k \in 1..Len(events), NEW groups \in Seq(Seq(OrderLine)),
         IsCut(groups, events, k - 1),
         groups = <<>> \/ Head(Last(groups)).batch_id # events[k].batch_id
  PROVE  IsCut(Grouped(groups, events[k]), events, k)
<1> DEFINE l == Len(groups)
           e == events[k]
           new == Grouped(groups, e)
<1>1. l \in Nat /\ e \in OrderLine /\ k \in Nat /\ <<e>> \in Seq(OrderLine)
  <2>1. l \in Nat /\ k \in Nat /\ e \in OrderLine
    BY LenProperties, ElementOfSeq
  <2> QED
    BY <2>1
<1>2. new = Append(groups, <<e>>)
  BY DEF Grouped
<1>3. Len(new) = l + 1 /\ new[l + 1] = <<e>> /\ \A g \in 1..l : new[g] = groups[g]
  BY <1>1, <1>2, AppendProperties
<1>4. Stretch(<<e>>, events, k, k)
  BY <1>1 DEF Stretch
<1> HIDE DEF new
<1>5. ASSUME NEW g \in 1..l, g = l PROVE events[k].batch_id # events[k - 1].batch_id
                                      /\ \E a \in 1..(k - 1) : Stretch(groups[g], events, a, k - 1)
  <2> DEFINE q == groups[l]
  <2>1. PICK a \in 1..(k - 1) : Stretch(q, events, a, k - 1)
    BY <1>5 DEF IsCut
  <2>2. q \in Seq(OrderLine) /\ Last(groups) = q /\ groups # <<>>
    BY <1>1, <1>5, ElementOfSeq, EmptySeq DEF Last
  <2>3. Head(q) = q[1] /\ Len(q) = k - a /\ a \in Nat /\ a <= k - 1
    <3>1. Len(q) = (k - 1) - a + 1
      BY <2>1 DEF Stretch
    <3> QED
      BY <1>1, <2>2, <3>1
  <2>4. q[Len(q)] = events[k - 1] /\ q[Len(q)].batch_id = q[1].batch_id
    <3>1. Len(q) \in 1..Len(q) /\ a + Len(q) - 1 = k - 1
      BY <1>1, <2>3
    <3> QED
      BY <2>1, <3>1 DEF Stretch
  <2> QED
    BY <1>5, <2>1, <2>2, <2>3, <2>4
<1> HIDE DEF l, e
<1>6. ASSUME NEW g \in 1..(l + 1)
      PROVE  \E x \in 1..k : \E y \in x..k :
               /\ Stretch(new[g], events, x, y)
               /\ g = l + 1 => y = k
               /\ g < l + 1 => y < k /\ events[y + 1].batch_id # events[y].batch_id
  <2>1. CASE g = l + 1
    <3>1. k \in 1..k /\ k \in k..k /\ new[g] = <<e>> /\ ~(g < l + 1)
      BY <1>1, <1>3, <2>1
    <3> QED
      BY <1>4, <3>1
  <2>2. CASE g = l
    <3>1. /\ g \in 1..l /\ new[g] = groups[g] /\ g # l + 1 /\ k - 1 + 1 = k
      BY <1>1, <1>3, <2>2
    <3>2. PICK a \in 1..(k - 1) : Stretch(groups[g], events, a, k - 1)
      BY <1>5, <2>2, <3>1
    <3>3. a \in 1..k /\ k - 1 \in a..k /\ k - 1 < k
      BY <1>1
    <3>4. events[k - 1 + 1].batch_id # events[k - 1].batch_id
      BY <1>5, <2>2, <3>1
    <3> QED
      BY <3>1, <3>2, <3>3, <3>4
  <2>3. CASE g < l
    <3>1. g \in 1..l /\ new[g] = groups[g] /\ g # l + 1
      BY <1>1, <1>3, <2>3
    <3>2. PICK x \in 1..(k - 1) : \E y \in x..(k - 1) :
             /\ Stretch(groups[g], events, x, y)
             /\ y < k - 1 /\ events[y + 1].batch_id # events[y].batch_id
      BY <2>3, <3>1 DEF IsCut, l
    <3>3. PICK y \in x..(k - 1) :
             /\ Stretch(groups[g], events, x, y)
             /\ y < k - 1 /\ events[y + 1].batch_id # events[y].batch_id
      BY <3>2
    <3>4. x \in 1..k /\ y \in x..k /\ y < k
      BY <1>1
    <3> QED
      BY <3>1, <3>3, <3>4
  <2> QED
    BY <1>1, <2>1, <2>2, <2>3
<1> QED
  BY <1>3, <1>6 DEF IsCut, new, e

\* All the groups.
LEMMA GroupsAre ==
  ASSUME NEW events \in Seq(OrderLine)
  PROVE  \E groups \in Seq(Seq(OrderLine)) :
           /\ IsCut(groups, events, Len(events))
           /\ GroupBatches(events) = [g \in DOMAIN groups |-> BySeq(groups[g])]
<1> DEFINE n == Len(events)
<1>1. PICK read : IsGrouping(read, events)
  BY GroupsUnfold
<1>2. /\ read \in [0..n -> Seq(Seq(OrderLine))] /\ read[0] = <<>> /\ n \in Nat
      /\ \A k \in 1..n : read[k] = Grouped(read[k - 1], events[k])
      /\ GroupBatches(events) = [g \in DOMAIN read[n] |-> BySeq(read[n][g])]
  BY <1>1, LenProperties DEF IsGrouping
<1> DEFINE G == {k \in 0..n : IsCut(read[k], events, k)}
<1>3. 0 \in G
  BY <1>2 DEF IsCut
<1>4. ASSUME NEW k \in 1..n, k - 1 \in G PROVE k \in G
  <2> HIDE DEF n
  <2>0. k - 1 \in 0..n /\ k \in 0..n
    BY <1>2
  <2>1. read[k - 1] \in Seq(Seq(OrderLine)) /\ IsCut(read[k - 1], events, k - 1)
    BY <1>2, <1>4, <2>0
  <2>2. IsCut(Grouped(read[k - 1], events[k]), events, k)
    BY <2>1, JoinCut, BeginCut DEF n
  <2> QED
    BY <1>2, <2>0, <2>2
<1>5. n \in G
  <2> HIDE DEF G, n
  <2>1. \A k \in 0..n : k \in G
    BY <1>2, <1>3, <1>4, UpTo
  <2> QED
    BY <1>2, <2>1
<1> QED
  BY <1>2, <1>5

\* Lines of one batch, the newest first, as groupBatches sorts them.
LEMMA OneBatchSorted ==
  ASSUME NEW q \in Seq(OrderLine), Len(q) > 0,
         \A i \in 1..(Len(q) - 1) : /\ q[i].ts = q[i + 1].ts /\ q[i].seq = q[i + 1].seq + 1
                                    /\ q[i].type \notin Opening
  PROVE  LET s == BySeq(q)
         IN  /\ DOMAIN s = 1..Len(q) /\ s[1] = q[Len(q)]
             /\ \A i \in 2..Len(q) : /\ s[i].type \notin Opening
                                     /\ s[i].ts = s[1].ts /\ s[i].seq = s[i - 1].seq + 1
<1> DEFINE n == Len(q)
           s == BySeq(q)
<1>1. /\ n \in Nat \ {0} /\ DOMAIN q = 1..n
      /\ \A i \in 1..n : q[i].seq \in Nat
  <2>1. \A i \in 1..n : q[i] \in OrderLine
    BY ElementOfSeq
  <2> QED
    BY <2>1, LenProperties DEF OrderLine
<1>2. \A i \in 1..(n - 1) : /\ q[i].ts = q[i + 1].ts /\ q[i].seq = q[i + 1].seq + 1
                            /\ q[i].type \notin Opening
  OBVIOUS
<1> HIDE DEF n
<1> DEFINE G == {k \in 0..(n - 1) : q[k + 1].ts = q[1].ts /\ q[k + 1].seq = q[1].seq - k}
<1>3. 0 \in G
  BY <1>1
<1>4. ASSUME NEW k \in 1..(n - 1), k - 1 \in G PROVE k \in G
  <2>1. k \in 1..n /\ k + 1 \in 1..n /\ k - 1 + 1 = k /\ k \in 0..(n - 1)
    BY <1>1
  <2>2. q[k].ts = q[1].ts /\ q[k].seq = q[1].seq - (k - 1)
    BY <1>4, <2>1
  <2>3. q[k].ts = q[k + 1].ts /\ q[k].seq = q[k + 1].seq + 1
    BY <1>2
  <2>4. q[k].seq \in Nat /\ q[k + 1].seq \in Nat /\ q[1].seq \in Nat
    BY <1>1, <2>1
  <2>5. q[k + 1].seq = q[1].seq - k
    BY <1>1, <2>2, <2>3, <2>4
  <2> QED
    BY <2>1, <2>2, <2>3, <2>5
<1>5. \A i \in 1..n : q[i].ts = q[1].ts /\ q[i].seq = q[1].seq - (i - 1)
  <2> HIDE DEF G
  <2>1. n - 1 \in Nat
    BY <1>1
  <2>2. \A k \in 0..(n - 1) : k \in G
    BY <1>3, <1>4, <2>1, UpTo
  <2>3. \A i \in 1..n : i - 1 \in 0..(n - 1) /\ i - 1 + 1 = i
    BY <1>1
  <2>4. ASSUME NEW i \in 1..n PROVE q[i].ts = q[1].ts /\ q[i].seq = q[1].seq - (i - 1)
    <3>1. i - 1 \in G /\ i - 1 + 1 = i
      BY <2>2, <2>3
    <3> QED
      BY <3>1 DEF G
  <2> QED
    BY <2>4
<1>6. \A i, j \in 1..n : i < j => q[j].seq < q[i].seq
  <2>1. q[1].seq \in Nat
    BY <1>1
  <2> QED
    BY <1>1, <1>5, <2>1
<1>7. DOMAIN s = 1..n /\ \A k \in 1..n : s[k] = q[n - k + 1]
  BY <1>1, <1>6, BySeqReverses, BySeqPermutes DEF n
<1> HIDE DEF s
<1>8. s[1] = q[n]
  <2>1. 1 \in 1..n /\ n - 1 + 1 = n
    BY <1>1
  <2> QED
    BY <1>7, <2>1
<1>9. ASSUME NEW i \in 2..n
      PROVE  s[i].type \notin Opening /\ s[i].ts = s[1].ts /\ s[i].seq = s[i - 1].seq + 1
  <2> DEFINE j == n - i + 1
  <2>1. /\ j \in 1..(n - 1) /\ j \in 1..n /\ n \in 1..n /\ i \in 1..n /\ i - 1 \in 1..n
        /\ n - (i - 1) + 1 = j + 1
    BY <1>1
  <2> HIDE DEF j
  <2>2. s[i] = q[j] /\ s[i - 1] = q[j + 1]
    BY <1>7, <2>1 DEF j
  <2>3. q[j].ts = q[1].ts /\ q[n].ts = q[1].ts
    BY <1>5, <2>1
  <2> QED
    BY <1>2, <1>8, <2>1, <2>2, <2>3
<1> QED
  BY <1>7, <1>8, <1>9 DEF n, s

\* What BatchesOfOneRun says of s, the group g of so many.
IsOneBatch(s, g, number, limit) ==
  \/ \A e \in ToSet(s) : e.batch_id = 1
  \/ \A i \in DOMAIN s :
       /\ s[i].type \in Opening => i = 1
       /\ i = 1 => \/ s[i].type \in Opening
                   \/ g = number /\ EffectiveLimit(limit) < Len(orders_file)
       /\ i > 1 => s[i].ts = s[1].ts /\ s[i].seq = s[i - 1].seq + 1

\* A group of the page.
LEMMA GroupShown ==
  ASSUME LossInv, LinesInOrder, NEW limit \in Nat, NEW events, events = Latest(orders_file, limit),
         NEW groups \in Seq(Seq(OrderLine)), IsCut(groups, events, Len(events)),
         NEW g \in 1..Len(groups)
  PROVE  IsOneBatch(BySeq(groups[g]), g, Len(groups), limit)
<1> DEFINE f == orders_file
           n == Len(f)
           m == Len(events)
           q == groups[g]
           s == BySeq(q)
           full == EffectiveLimit(limit)
<1>1. f \in Seq(OrderLine) /\ n \in Nat /\ q \in Seq(OrderLine)
  <2>1. f \in Seq(OrderLine)
    BY DEF LossInv, JournalTypeOK
  <2> QED
    BY <2>1, LenProperties, ElementOfSeq
<1>2. /\ events \in Seq(OrderLine) /\ m <= n
      /\ \A i \in 1..m : events[i] = f[n - i + 1]
      /\ m < n => m = full
  BY <1>1, LatestIs
<1>3. m \in Nat /\ full \in Nat
  BY <1>2, LenProperties, LimitIsPositive
<1>4. PICK a \in 1..m : \E y \in a..m :
         /\ Stretch(q, events, a, y)
         /\ g = Len(groups) => y = m
         /\ g < Len(groups) => y < m /\ events[y + 1].batch_id # events[y].batch_id
  BY DEF IsCut
<1>5. PICK b \in a..m :
         /\ Stretch(q, events, a, b)
         /\ g = Len(groups) => b = m
         /\ g < Len(groups) => b < m /\ events[b + 1].batch_id # events[b].batch_id
  BY <1>4
<1> DEFINE l == Len(q)
<1>6. /\ l = b - a + 1 /\ l \in Nat /\ l > 0 /\ a \in Nat /\ b \in Nat /\ a <= b /\ b <= m
      /\ \A i \in 1..l : q[i] = events[a + i - 1] /\ q[i].batch_id = q[1].batch_id
  BY <1>3, <1>5 DEF Stretch
<1> HIDE DEF n, m, q, l, full
<1>7. \A i \in 1..n : /\ i = 1 => f[i].type \in Opening
                      /\ i > 1 => FollowsOn(f[i - 1], f[i])
  BY DEF LinesInOrder, n
<1>8. \A i \in 1..l : /\ n - (a + i - 1) + 1 \in 1..n
                      /\ q[i] = f[n - (a + i - 1) + 1]
  <2>1. ASSUME NEW i \in 1..l PROVE a + i - 1 \in 1..m /\ n - (a + i - 1) + 1 \in 1..n
    BY <1>1, <1>2, <1>3, <1>6
  <2> QED
    BY <1>2, <1>6, <2>1
<1>9. CASE q[1].batch_id = 1
  <2>1. \A x \in ToSet(q) : x.batch_id = 1
    <3>1. DOMAIN q = 1..l
      BY <1>1, LenProperties DEF l
    <3> QED
      BY <1>6, <1>9, <3>1 DEF ToSet
  <2>2. \A k \in DOMAIN s : s[k] \in ToSet(q)
    BY <1>1, BySeqPermutes
  <2> HIDE DEF s
  <2>3. \A x \in ToSet(s) : x.batch_id = 1
    BY <2>1, <2>2 DEF ToSet
  <2> QED
    BY <2>3 DEF s, q, IsOneBatch
<1>10. CASE q[1].batch_id # 1
  <2>1. ASSUME NEW i \in 1..(l - 1)
        PROVE  q[i].ts = q[i + 1].ts /\ q[i].seq = q[i + 1].seq + 1 /\ q[i].type \notin Opening
    <3> DEFINE x == n - (a + i - 1) + 1
    <3>1. i \in 1..l /\ i + 1 \in 1..l
      BY <1>6
    <3>2. n - (a + (i + 1) - 1) + 1 = x - 1
      BY <1>1, <1>6
    <3>3. x \in 1..n /\ x - 1 \in 1..n /\ q[i] = f[x] /\ q[i + 1] = f[x - 1]
      BY <1>8, <3>1, <3>2
    <3> HIDE DEF x
    <3>4. FollowsOn(f[x - 1], f[x])
      <4>1. x > 1
        BY <1>1, <3>3
      <4> QED
        BY <1>7, <3>3, <4>1
    <3>5. q[i].batch_id # 1 /\ q[i].batch_id = q[i + 1].batch_id
      BY <1>6, <1>10, <3>1
    <3> QED
      BY <3>3, <3>4, <3>5 DEF FollowsOn
  <2>2. /\ DOMAIN s = 1..l /\ s[1] = q[l]
        /\ \A i \in 2..l : /\ s[i].type \notin Opening
                           /\ s[i].ts = s[1].ts /\ s[i].seq = s[i - 1].seq + 1
    BY <1>1, <1>6, <2>1, OneBatchSorted DEF l
  <2> HIDE DEF s
  <2>3. s[1].type \in Opening \/ (g = Len(groups) /\ full < n)
    <3> DEFINE p == n - b
    <3>1. l \in 1..l /\ n - (a + l - 1) + 1 = p + 1 /\ p \in Nat /\ p = n - b
      BY <1>1, <1>2, <1>3, <1>6
    <3> HIDE DEF p
    <3>2. p + 1 \in 1..n /\ s[1] = f[p + 1]
      BY <1>8, <2>2, <3>1
    <3>3. CASE p = 0
      BY <1>7, <3>2, <3>3
    <3>4. CASE p # 0 /\ g < Len(groups)
      <4>1. b \in 1..m /\ b + 1 \in 1..m /\ n - b + 1 = p + 1 /\ n - (b + 1) + 1 = p
        BY <1>1, <1>3, <1>5, <1>6, <3>1, <3>4
      <4>2. events[b] = f[p + 1] /\ events[b + 1] = f[p]
        BY <1>2, <4>1
      <4>3. FollowsOn(f[p], f[p + 1])
        <5> DEFINE x == p + 1
        <5>1. x > 1 /\ x - 1 = p /\ x \in 1..n
          BY <3>1, <3>2, <3>4
        <5> HIDE DEF x
        <5>2. FollowsOn(f[x - 1], f[x])
          BY <1>7, <5>1
        <5> QED
          BY <5>1, <5>2 DEF x
      <4> QED
        BY <1>5, <3>2, <3>4, <4>2, <4>3 DEF FollowsOn
    <3>5. CASE p # 0 /\ g = Len(groups)
      <4>1. b = m /\ m < n
        BY <1>1, <1>2, <1>3, <1>5, <3>1, <3>5
      <4> QED
        BY <1>2, <3>5, <4>1
    <3>6. g <= Len(groups) /\ g \in Nat /\ Len(groups) \in Nat
      BY LenProperties
    <3> QED
      BY <3>3, <3>4, <3>5, <3>6
  <2>4. ASSUME NEW i \in DOMAIN s
        PROVE  /\ s[i].type \in Opening => i = 1
               /\ i = 1 => s[i].type \in Opening \/ (g = Len(groups) /\ full < n)
               /\ i > 1 => s[i].ts = s[1].ts /\ s[i].seq = s[i - 1].seq + 1
    <3>1. i = 1 \/ (i > 1 /\ i \in 2..l)
      BY <1>6, <2>2
    <3> QED
      BY <2>2, <2>3, <3>1
  <2> QED
    BY <2>4 DEF s, q, full, n, IsOneBatch
<1> QED
  BY <1>9, <1>10

\* Whatever the limit and however often the server was restarted, a group of the
\* page's TradeHistory is one order or cancellation, from its first line to its last
\* in the order they were written (groupBatches over the answer of GET /activity),
\* except that first batches of runs that follow each other may be one group, and
\* that a limit smaller than the file may cut the first lines off the oldest group.
THEOREM GroupsAreBatches == JournalsSpec => []BatchesOfOneRun
<1>1. ASSUME LossInv, LinesInOrder, NEW limit \in 0..Len(orders_file)
      PROVE  LET groups == GroupBatches(Latest(orders_file, limit))
             IN  \A g \in DOMAIN groups :
                   \/ \A e \in ToSet(groups[g]) : e.batch_id = 1
                   \/ \A i \in DOMAIN groups[g] :
                        /\ groups[g][i].type \in {"new", "answer"} => i = 1
                        /\ i = 1 => \/ groups[g][i].type \in {"new", "answer"}
                                    \/ g = Len(groups) /\ EffectiveLimit(limit) < Len(orders_file)
                        /\ i > 1 => /\ groups[g][i].ts = groups[g][1].ts
                                    /\ groups[g][i].seq = groups[g][i - 1].seq + 1
  <2> DEFINE events == Latest(orders_file, limit)
             shown == GroupBatches(events)
  <2>1. limit \in Nat /\ events \in Seq(OrderLine)
    <3>1. orders_file \in Seq(OrderLine)
      BY <1>1 DEF LossInv, JournalTypeOK
    <3>2. limit \in Nat
      BY <3>1, LenProperties
    <3> QED
      BY <3>1, <3>2, LatestIs
  <2>2. events = Latest(orders_file, limit)
    OBVIOUS
  <2> HIDE DEF events
  <2>3. PICK groups \in Seq(Seq(OrderLine)) :
           /\ IsCut(groups, events, Len(events))
           /\ shown = [g \in DOMAIN groups |-> BySeq(groups[g])]
    BY <2>1, GroupsAre
  <2>4. DOMAIN groups = 1..Len(groups) /\ Len(groups) \in Nat
    BY LenProperties
  <2> HIDE DEF shown
  <2>5. DOMAIN shown = 1..Len(groups) /\ Len(shown) = Len(groups)
    BY <2>3, <2>4
  <2>6. ASSUME NEW g \in 1..Len(groups)
        PROVE  \/ \A e \in ToSet(shown[g]) : e.batch_id = 1
               \/ \A i \in DOMAIN shown[g] :
                    /\ shown[g][i].type \in {"new", "answer"} => i = 1
                    /\ i = 1 => \/ shown[g][i].type \in {"new", "answer"}
                                \/ g = Len(groups) /\ EffectiveLimit(limit) < Len(orders_file)
                    /\ i > 1 => /\ shown[g][i].ts = shown[g][1].ts
                                /\ shown[g][i].seq = shown[g][i - 1].seq + 1
    <3> DEFINE s == BySeq(groups[g])
    <3>1. shown[g] = s
      BY <2>3, <2>4
    <3> HIDE DEF s
    <3>2. IsOneBatch(s, g, Len(groups), limit)
      BY <1>1, <2>1, <2>2, <2>3, GroupShown DEF s
    <3> QED
      BY <3>1, <3>2 DEF Opening, IsOneBatch
  <2> QED
    BY <2>5, <2>6 DEF shown, events
<1>2. LossInv /\ LinesInOrder => BatchesOfOneRun
  BY <1>1 DEF BatchesOfOneRun
<1> QED
  BY <1>2, LossInvariant, LinesInvariant, PTL

=============================================================================
