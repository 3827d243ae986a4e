------------------------------ MODULE Journals ------------------------------
(***************************************************************************)
(* trades.jsonl and orders.jsonl over several runs of the server: who      *)
(* writes a line when (process_order, emit_trades, cancel_order and the    *)
(* sinks of core/src/server/tcp_server.cpp), what a crash in between       *)
(* leaves, and what the readers make of the files. Both are opened with    *)
(* ios::app and flushed after every line; counters and the book start over *)
(* with the process.                                                       *)
(*                                                                         *)
(* Which orders match is in MatchingEngine; here an order trades some      *)
(* number of times. An order is named by its batch_id, and ts, the steady  *)
(* clock, by the run, the coarsest clock there could be: it goes on when   *)
(* the server is restarted (not when the machine is).                      *)
(***************************************************************************)
EXTENDS Naturals, Sequences, SequencesExt, FiniteSetsExt

CONSTANTS MaxRuns,      \* bounds: runs of the server,
          MaxBatches,   \*   orders and cancellations of one run,
          MaxTrades,    \*   trades of all runs
          Party         \* pairs of a maker's and a taker's user

ASSUME JournalsAssumption == Party \subseteq Nat \X Nat

VARIABLES run,          \* number of the server's run, the first one is 1
          stage,        \* of the operation under book_mtx; "down" between two runs
          trades,       \* process_order's trades, not yet emitted
          counters,     \* event_seq_, batch_seq_, global_trade_id (and global_seq)
          orders_file, trades_file

journalVars == <<run, stage, trades, counters, orders_file, trades_file>>

FreshCounters == [event |-> 1, batch |-> 1, trade |-> 1]

JournalsInit ==
  /\ run = 1 /\ stage = "idle" /\ trades = <<>>
  /\ counters = FreshCounters
  /\ orders_file = <<>> /\ trades_file = <<>>

-----------------------------------------------------------------------------
(* Writing. The batch of the operation in progress is the last one drawn.  *)

Batch == counters.batch - 1

\* emit_order_event, of the order of batch b itself or of a maker it met.
Emit(b, type) ==
  /\ orders_file' = Append(orders_file,
                      [seq |-> counters.event, batch_id |-> b, type |-> type, ts |-> run])
  /\ counters' = [counters EXCEPT !.event = @ + 1, !.batch = b + 1]

\* A refused order, or a cancellation: one line.
Answer ==
  /\ stage = "idle" /\ counters.batch <= MaxBatches
  /\ Emit(counters.batch, "answer")
  /\ UNCHANGED <<run, stage, trades, trades_file>>

Accept ==
  /\ stage = "idle" /\ counters.batch <= MaxBatches
  /\ Emit(counters.batch, "new")
  /\ stage' = "match"
  /\ UNCHANGED <<run, trades, trades_file>>

\* match_buy, match_sell: the trade is kept, the maker's line is written.
Fill ==
  /\ stage = "match" /\ Len(trades) + Len(trades_file) < MaxTrades
  /\ \E p \in Party : trades' = Append(trades, [taker |-> Batch, users |-> p])
  /\ Emit(Batch, "maker")
  /\ UNCHANGED <<run, stage, trades_file>>

\* emit_trades, first sink: JournalTradeSink.
Journal ==
  /\ stage \in {"match", "emit"} /\ trades # <<>>
  /\ trades_file' = Append(trades_file, [taker |-> Head(trades).taker, users |-> Head(trades).users,
                                         trade_id |-> counters.trade, ts |-> run])
  /\ counters' = [counters EXCEPT !.trade = @ + 1]
  /\ stage' = "tell"
  /\ UNCHANGED <<run, trades, orders_file>>

\* Second sink: WsServer broadcasts the trade that was journaled last.
Tell ==
  /\ stage = "tell"
  /\ trades' = Tail(trades)
  /\ stage' = "emit"
  /\ UNCHANGED <<run, counters, orders_file, trades_file>>

\* Mutant: the taker's line is written before the trades are emitted.
CompleteEarly ==
  /\ stage = "match"
  /\ Emit(Batch, "taker")
  /\ stage' = IF trades = <<>> THEN "idle" ELSE "emit"
  /\ UNCHANGED <<run, trades, trades_file>>

\* The taker's line, if it traded at all.
Complete ==
  /\ stage \in {"match", "emit"} /\ trades = <<>>
  /\ IF stage = "emit" THEN Emit(Batch, "taker") ELSE UNCHANGED <<counters, orders_file>>
  /\ stage' = "idle"
  /\ UNCHANGED <<run, trades, trades_file>>

\* Bound: the last run does not crash.
Crash ==
  /\ stage # "down" /\ run < MaxRuns
  /\ stage' = "down" /\ trades' = <<>>
  /\ UNCHANGED <<run, counters, orders_file, trades_file>>

Start ==
  /\ stage = "down"
  /\ run' = run + 1 /\ stage' = "idle" /\ counters' = FreshCounters
  /\ UNCHANGED <<trades, orders_file, trades_file>>

\* A request that only reads.
Get == stage = "idle" /\ UNCHANGED journalVars

JournalsNext ==
  Answer \/ Accept \/ Fill \/ Journal \/ Tell \/ Complete \/ Get \/ Crash \/ Start

JournalsSpec == JournalsInit /\ [][JournalsNext]_journalVars

-----------------------------------------------------------------------------
(* Reading. The file is read line by line to its end.                      *)

\* Bound of the buffer: the limit parameter.
EffectiveLimit(limit) == IF limit = 0 THEN 100 ELSE IF limit > 1000 THEN 1000 ELSE limit

\* read_last_trades_jsonl, and the same loop of GET /user/trades, which skips the
\* lines it does not want: of the others the last ones, newest first.
ReadLast(file, wanted, limit) ==
  Reverse(FoldLeft(LAMBDA buffer, line :
                     IF line \notin wanted THEN buffer
                     ELSE IF Len(buffer) = limit THEN Append(Tail(buffer), line)
                     ELSE Append(buffer, line), <<>>, file))

\* GET /trades and GET /activity.
Latest(file, limit) == ReadLast(file, ToSet(file), EffectiveLimit(limit))

\* The digits of n begin with those of u.
BeginsWith(n, u) == IF u = 0 THEN n = 0 ELSE \E cut \in {1, 10, 100, 1000} : n \div cut = u

\* Mutant: a trade is a user's if he was the taker.
InvolvesTaker(line, uid) == BeginsWith(line.users[2], uid)

\* The test of GET /user/trades looks for "maker_user":<uid> and
\* "taker_user":<uid> in the text of the line, where more digits may follow.
Involves(line, uid) == \E i \in {1, 2} : BeginsWith(line.users[i], uid)

UserTrades(uid, limit) ==
  ReadLast(trades_file, {line \in ToSet(trades_file) : Involves(line, uid)}, EffectiveLimit(limit))

\* sort((a, b) => a.seq - b.seq), which keeps the order of what it finds equal.
BySeq(group) ==
  LET Rank(i) == Cardinality({j \in DOMAIN group : \/ group[j].seq < group[i].seq
                                                   \/ group[j].seq = group[i].seq /\ j <= i})
  IN  [k \in DOMAIN group |-> group[CHOOSE i \in DOMAIN group : Rank(i) = k]]

\* Mutant: events of one batch_id, wherever they are.
GroupByBatch(events) ==
  SetToSeq({BySeq(SelectSeq(events, LAMBDA e : e.batch_id = b)) :
            b \in {events[i].batch_id : i \in DOMAIN events}})

\* groupBatches of the page's TradeHistory: consecutive events of one batch_id,
\* each group in the order of seq.
GroupBatches(events) ==
  LET groups == FoldLeft(LAMBDA gs, e :
                  IF gs # <<>> /\ Head(Last(gs)).batch_id = e.batch_id
                  THEN [gs EXCEPT ![Len(gs)] = Append(@, e)]
                  ELSE Append(gs, <<e>>), <<>>, events)
  IN  [g \in DOMAIN groups |-> BySeq(groups[g])]

-----------------------------------------------------------------------------
(* Correctness.                                                            *)

Count(file, Test(_)) == Cardinality({i \in DOMAIN file : Test(file[i])})

LinesOf(r, b, type) ==
  Count(orders_file, LAMBDA e : e.ts = r /\ e.batch_id = b /\ e.type = type)
TapedOf(r, b) == Count(trades_file, LAMBDA t : t.ts = r /\ t.taker = b)

\* Whenever the server dies, trades.jsonl lacks no trade that orders.jsonl shows
\* but those of the one order it was working on, and that order has no line of
\* its own as a taker yet (process_order, emit_trades, JournalTradeSink). What
\* was journaled before the server died stays, and a trade is told from all
\* others, also those of other runs, by the trade_id and ts the page compares.
LossIsOneOrder ==
  /\ \A r \in 1..run, b \in 1..MaxBatches :
       /\ TapedOf(r, b) <= LinesOf(r, b, "maker")
       /\ TapedOf(r, b) < LinesOf(r, b, "maker") =>
            /\ LinesOf(r, b, "taker") = 0
            /\ \A e \in ToSet(orders_file) : e.ts = r => e.batch_id <= b
            /\ r = run => stage # "idle"
  /\ \A i, j \in DOMAIN trades_file :
       trades_file[i].trade_id = trades_file[j].trade_id
         /\ trades_file[i].ts = trades_file[j].ts => i = j

\* The order in which trades happened, by the numbers the page compares.
Older(t, u) == t.ts < u.ts \/ (t.ts = u.ts /\ t.trade_id < u.trade_id)

Own(uid) == {t \in ToSet(trades_file) : uid \in {t.users[1], t.users[2]}}

\* GET /user/trades, with any limit that could cut its answer: it has every trade
\* of the user, over all runs, or is full of newer ones; newest first, none twice;
\* what else it has is a trade of users whose number begins with his.
UserTradesComplete ==
  \A uid \in UNION {{p[1], p[2], 1} : p \in Party}, limit \in 0..Len(trades_file) :
    \E answer \in {UserTrades(uid, limit)} :
      /\ \A t \in Own(uid) \ ToSet(answer) :
           /\ Len(answer) = EffectiveLimit(limit)
           /\ \A u \in ToSet(answer) : Older(t, u)
      /\ \A i, j \in DOMAIN answer : i < j => Older(answer[j], answer[i])
      /\ \A t \in ToSet(answer) : /\ t \in ToSet(trades_file)
                                 /\ \E i \in {1, 2} : BeginsWith(t.users[i], uid)

\* A group of events the page shows is one order or cancellation from its first
\* line to its last, in the order they happened (groupBatches), although batch_id
\* and seq start over with every run. Groups of batch 1 are excepted: a run that
\* ended with its first batch looks like the first batch of the next one. Only of
\* the oldest group the limit may have cut the first lines off.
BatchesOfOneRun ==
  \A limit \in 0..Len(orders_file) :
    \E groups \in {GroupBatches(Latest(orders_file, limit))} : \A g \in DOMAIN groups :
      \/ \A e \in ToSet(groups[g]) : e.batch_id = 1
      \/ \A i \in DOMAIN groups[g] :
           /\ groups[g][i].type \in {"new", "answer"} => i = 1
           /\ i = 1 => \/ groups[g][i].type \in {"new", "answer"}
                       \/ g = Len(groups) /\ EffectiveLimit(limit) < Len(orders_file)
           /\ i > 1 => /\ groups[g][i].ts = groups[g][1].ts
                       /\ groups[g][i].seq = groups[g][i - 1].seq + 1

=============================================================================
