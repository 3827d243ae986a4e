--------------------------- MODULE MatchingEngine ---------------------------
(***************************************************************************)
(* core/src/engine/matching_engine.cpp over OrderBook and UserManager: one *)
(* order or cancellation at a time, as under book_mtx, with the journals,  *)
(* the trade tape and the book feed it writes to.                          *)
(*                                                                         *)
(* Both operations are split where another thread can come between:        *)
(* positions are guarded by UserManager::mtx_ only, so GET /user/position  *)
(* may run between any two changes of a position, and between one and the  *)
(* broadcast of the book that belongs to it. Accept is the part up to the  *)
(* NEW event, each Fill is one turn of the inner loop of                   *)
(* match_buy/match_sell, Rest links what a limit order has left, Settle    *)
(* and Complete are what comes after. CancelOpen unlinks, CancelDone       *)
(* releases.                                                               *)
(***************************************************************************)
EXTENDS OrderBook, UserManager

CONSTANTS NewId,        \* ids next_order_id hands out (>= 1000 in the code)
          SeedId,       \* ids seed_book used (1, 2, ...)
          SeedLevels,   \* the book seed_book left, and its index
          SeedIndex,
          ReqPrice,     \* prices, quantities and types of submitted orders
          ReqQty,
          ReqType,
          None          \* no order in hand

VARIABLES pc,           \* "idle"; "match" in the matching loop; "rest" when the
                        \* order is linked, "cancel" when one is unlinked, and
                        \* its owner's position does not show it yet
          incoming,     \* the order as submitted
          taker,        \* process_order's working copy
          withdrawn,    \* cancel_order's copy of the order
          trades,       \* the taker's trades so far, not yet emitted
          journal,      \* orders.jsonl, the lines of each order in order
          tape,         \* trades.jsonl
          feed,         \* the book the last notify_change broadcast
          ub            \* a dangling iterator has been dereferenced

vars == <<bookVars, userVars, pc, incoming, taker, withdrawn, trades, journal,
          tape, feed, ub>>

Status == {"New", "PartiallyFilled", "Filled", "Canceled", "Rejected"}
Event  == [status : Status, qty : Nat, remaining : Nat]
Trade  == [maker_id : OrderId, taker_id : OrderId, maker_user_id : User,
           taker_user_id : User, price : Price, qty : Nat]

\* The orders a client or a bot may submit. Market orders carry price 0.
Request == {o \in [id : NewId, user_id : User, side : Side,
                   price : ReqPrice \cup {0}, qty : ReqQty, type : ReqType] :
              o.type = "Market" => o.price = 0}

ASSUME EngineAssumption ==
  /\ OrderId = NewId \cup SeedId
  /\ NewId \cap SeedId = {}
  /\ ReqPrice \subseteq Int /\ \A p \in ReqPrice : p <= MaxPrice
  /\ ReqQty \subseteq 0..LongMax
  /\ ReqType \subseteq OrderType

\* What seed_book leaves behind, as SeedBook shows.
ASSUME SeedAssumption == Seeded(SeedLevels, SeedIndex, SeedId)

Init ==
  /\ levels = SeedLevels
  /\ index = SeedIndex
  /\ UserInit
  /\ pc = "idle"
  /\ incoming = None
  /\ taker = None
  /\ withdrawn = None
  /\ trades = <<>>
  /\ journal = [id \in OrderId |-> <<>>]
  /\ tape = <<>>
  /\ feed = SeedLevels
  /\ ub = FALSE

-----------------------------------------------------------------------------
(* process_order.                                                          *)

\* emit_order_event: one more line of orders.jsonl.
Emit(id, status, qty, remaining) ==
  journal' = [journal EXCEPT ![id] =
                Append(@, [status |-> status, qty |-> qty, remaining |-> remaining])]

\* preflight_check, test by test.
Malformed(o) == o.qty <= 0 \/ (o.type = "Limit" /\ o.price <= 0)

NoLiquidity(o) == o.type = "Market" /\ ~HasBest(Opposite(o.side))

CostPrice(o) == IF o.type = "Limit" THEN o.price ELSE Best("Sell")

\* Mutant: reserved cash and shares count as available.
UnfundedIgnoringReserved(o) ==
  LET pos == positions[o.user_id]
  IN  /\ o.user_id > 0
      /\ IF o.side = "Buy"
         THEN Wrapped(pos.balance, LongMax) < Wrapped(CostPrice(o) * o.qty, LongMax)
         ELSE Wrapped(pos.shares, LongMax) < o.qty

\* The product is a long long: that of a large quantity wraps to anything.
Unfunded(o) ==
  LET pos == positions[o.user_id]
  IN  /\ o.user_id > 0
      /\ IF o.side = "Buy"
         THEN Wrapped(pos.balance - pos.reserved_balance, LongMax)
                < Wrapped(CostPrice(o) * o.qty, LongMax)
         ELSE Wrapped(pos.shares - pos.reserved_shares, LongMax) < o.qty

Preflight(o) ==
  IF Malformed(o) THEN "Rejected"
  ELSE IF NoLiquidity(o) THEN "Canceled"
  ELSE IF Unfunded(o) THEN "Rejected"
  ELSE "Ok"

\* Up to and including the preflight's early return.
Refuse(o) ==
  /\ pc = "idle" /\ ~ub
  /\ o.id \notin DOMAIN order_to_user
  /\ Preflight(o) # "Ok"
  /\ RegisterOrder(o.id, o.user_id)
  /\ Emit(o.id, Preflight(o), 0, 0)
  /\ UNCHANGED <<bookVars, positions, wiped, pc, incoming, taker, withdrawn, trades, tape, feed, ub>>

\* Up to and including the NEW event: the order enters the matching loop.
Accept(o) ==
  /\ pc = "idle" /\ ~ub
  /\ o.id \notin DOMAIN order_to_user
  /\ Preflight(o) = "Ok"
  /\ RegisterOrder(o.id, o.user_id)
  /\ Emit(o.id, "New", o.qty, o.qty)
  /\ pc' = "match"
  /\ incoming' = o
  /\ taker' = o
  /\ UNCHANGED <<bookVars, positions, wiped, withdrawn, trades, tape, feed, ub>>

\* Mutant: equal prices do not trade.
CrossesStrictly(o, p) == \/ o.type = "Market"
                         \/ o.type = "Limit" /\ o.side = "Buy"  /\ p < o.price
                         \/ o.type = "Limit" /\ o.side = "Sell" /\ p > o.price

\* The loop conditions of match_buy and match_sell.
Crosses(o, p) == \/ o.type = "Market"
                 \/ o.type = "Limit" /\ o.side = "Buy"  /\ p <= o.price
                 \/ o.type = "Limit" /\ o.side = "Sell" /\ p >= o.price

CanMatch == LET side == Opposite(taker.side)
            IN  /\ taker.qty > 0
                /\ HasBest(side)
                /\ Crosses(taker, Best(side))
                /\ levels[side][Best(side)] # <<>>

\* Mutant: the larger of the two quantities.
FillQtyMax(t, m) == IF t > m THEN t ELSE m

FillQty(t, m) == IF t < m THEN t ELSE m

\* Mutant: a partly filled maker goes to the back of its level.
AfterFillRequeue(queue, left) ==
  IF left = 0 THEN Tail(queue)
              ELSE Append(Tail(queue), [Head(queue) EXCEPT !.qty = left])

\* The level after its front order has left remaining: pop_front when nothing is.
AfterFill(queue, left) == IF left = 0 THEN Tail(queue)
                                      ELSE [queue EXCEPT ![1].qty = left]

\* Mutant: the quantity filled is journaled as the quantity left.
EmitMakerSwapped(id, qty, left) ==
  Emit(id, IF left = 0 THEN "Filled" ELSE "PartiallyFilled", left, qty)

\* The event of a maker that has left remaining.
EmitMaker(id, qty, left) ==
  Emit(id, IF left = 0 THEN "Filled" ELSE "PartiallyFilled", qty, left)

\* One turn of the inner loop against the front order of the best level. The
\* locator of a popped maker stays in index_.
Fill ==
  /\ pc = "match"
  /\ CanMatch
  /\ LET side  == Opposite(taker.side)
         price == Best(side)
         queue == levels[side][price]
         maker == Head(queue)
         qty   == FillQty(taker.qty, maker.qty)
         left  == maker.qty - qty
     IN  /\ trades' = Append(trades,
                        [maker_id |-> maker.id, taker_id |-> taker.id,
                         maker_user_id |-> UserOf(maker.id),
                         taker_user_id |-> taker.user_id,
                         price |-> price, qty |-> qty])
         /\ OnFill(maker.id, taker.id, price, qty, taker.side)
         /\ taker' = [taker EXCEPT !.qty = @ - qty]
         /\ EmitMaker(maker.id, qty, left)
         /\ levels' = SetLevel(side, price, AfterFill(queue, left))
  /\ UNCHANGED <<index, order_to_user, wiped, pc, incoming, withdrawn, tape, feed, ub>>

\* Mutant: only add_resting_order notifies.
BroadcastAddOnly(traded, added) == feed' = IF added THEN levels' ELSE feed

\* notify_change fires after a batch with trades and from add_resting_order.
Broadcast(traded, added) == feed' = IF traded \/ added THEN levels' ELSE feed

\* emit_trades: the batch goes to the tape.
EmitTrades == tape' = tape \o trades

Rests == taker.type = "Limit" /\ taker.qty > 0

\* add_resting_order and its broadcast. The owner's position does not show the
\* order yet.
EnterBook ==
  /\ AddRestingOrder(taker)
  /\ Broadcast(trades # <<>>, Addable(taker))
  /\ pc' = "rest"
  /\ UNCHANGED <<userVars, incoming, taker, withdrawn, trades, journal, tape, ub>>

\* Mutant: the loop goes round again when the best price does not cross.
RestNoBreak ==
  /\ pc = "match"
  /\ ~CanMatch
  /\ Rests
  /\ IF HasBest(Opposite(taker.side)) THEN UNCHANGED vars ELSE EnterBook

\* The loop has ended, and a limit order has something left.
Rest ==
  /\ pc = "match"
  /\ ~CanMatch
  /\ Rests
  /\ EnterBook

\* Emit the trades and, if there are any, the last event.
Conclude ==
  /\ EmitTrades
  /\ LET filled == incoming.qty - taker.qty
     IN  IF filled = 0 THEN UNCHANGED journal
         ELSE Emit(taker.id, IF taker.qty = 0 THEN "Filled" ELSE "PartiallyFilled", filled, taker.qty)
  /\ pc' = "idle"
  /\ incoming' = None
  /\ taker' = None
  /\ trades' = <<>>
  /\ UNCHANGED <<bookVars, order_to_user, wiped, withdrawn, ub>>

\* on_order_resting for the order that was linked.
Settle ==
  /\ pc = "rest"
  /\ OnOrderResting(taker)
  /\ Conclude
  /\ UNCHANGED feed

\* The loop has ended, and nothing rests.
Complete ==
  /\ pc = "match"
  /\ ~CanMatch
  /\ ~Rests
  /\ Conclude
  /\ Broadcast(trades # <<>>, FALSE)
  /\ UNCHANGED positions

-----------------------------------------------------------------------------
(* cancel_order.                                                           *)

\* The id is not in index_: no.
CancelUnknown(id) ==
  /\ pc = "idle" /\ ~ub
  /\ id \notin DOMAIN index
  /\ UNCHANGED vars

\* The iterator of its locator is order i of its level: the book's part, its
\* broadcast, and the event. The owner's position still shows the order.
CancelOpen(id) ==
  /\ pc = "idle" /\ ~ub
  /\ id \in DOMAIN index
  /\ Valid(id)
  /\ LET queue == levels[index[id].side][index[id].price]
     IN  \E i \in DOMAIN queue : /\ queue[i].id = id
                                 /\ withdrawn' = queue[i]
                                 /\ Unlink(id, i)
  /\ feed' = levels'
  /\ Emit(id, "Canceled", 0, 0)
  /\ pc' = "cancel"
  /\ UNCHANGED <<userVars, incoming, taker, trades, tape, ub>>

\* on_cancel and the second broadcast.
CancelDone ==
  /\ pc = "cancel"
  /\ OnCancel(withdrawn.id, withdrawn)
  /\ feed' = levels
  /\ pc' = "idle"
  /\ withdrawn' = None
  /\ UNCHANGED <<bookVars, order_to_user, wiped, incoming, taker, trades, journal, tape, ub>>

\* The order has been filled and its node freed. find_order reads the freed
\* node: what the order held when it was popped, or an order that reused it.
Freed(id) == [id |-> id, user_id |-> UserOf(id), side |-> index[id].side,
              price |-> index[id].price, qty |-> 0, type |-> "Limit"]

CancelDangling(id) ==
  /\ pc = "idle" /\ ~ub
  /\ id \in DOMAIN index
  /\ ~Valid(id)
  /\ \E found \in {Freed(id)} \cup RestingOrders : OnCancel(id, found)
  /\ UnlinkDangling(id, Freed(id))
  /\ Emit(id, "Canceled", 0, 0)
  /\ feed' = levels'
  /\ ub' = TRUE
  /\ UNCHANGED <<order_to_user, wiped, pc, incoming, taker, withdrawn, trades, tape>>

\* An id is drawn for a new user, who takes no lock of the book's.
Connect(u) ==
  /\ ~ub
  /\ NextUserId(u)
  /\ UNCHANGED <<bookVars, pc, incoming, taker, withdrawn, trades, journal, tape, feed, ub>>

\* Nothing is said of an execution once memory has been corrupted.
Corrupted == ub /\ UNCHANGED vars

-----------------------------------------------------------------------------

Next == \/ \E o \in Request : Refuse(o) \/ Accept(o)
        \/ Fill \/ Rest \/ Settle \/ Complete
        \/ \E id \in OrderId : CancelUnknown(id) \/ CancelOpen(id) \/ CancelDangling(id)
        \/ CancelDone
        \/ \E u \in User : Connect(u)
        \/ Corrupted

Spec == Init /\ [][Next]_vars

-----------------------------------------------------------------------------
(* Correctness.                                                            *)

\* Every variable keeps its type: no quantity of an order, a trade or an event
\* goes negative, no level or trade has a price preflight_check does not let
\* through, no position is lost.
TypeOK ==
  /\ LevelsType(levels) /\ IndexType(index)
  /\ order_to_user = [id \in DOMAIN order_to_user |-> order_to_user[id]]
  /\ DOMAIN order_to_user \subseteq NewId
  /\ \A id \in DOMAIN order_to_user : order_to_user[id] \in User
  /\ positions \in [User -> Position]
  /\ wiped \subseteq User
  /\ pc \in {"idle", "match", "rest", "cancel"}
  /\ pc \in {"match", "rest"} => incoming \in Order /\ taker \in Order
  /\ pc = "cancel" => withdrawn \in Order
  /\ trades \in Seq(Trade)
  /\ journal \in [OrderId -> Seq(Event)]
  /\ tape \in Seq(Trade)
  /\ ub \in BOOLEAN

\* An order in the matching loop has passed the preflight, is registered to the
\* user who is charged for it, is not in the book before it rests, and differs
\* from what was submitted only by what has traded; one that was withdrawn is
\* not in the book; no id the engine hands out later is already indexed.
InFlightOK ==
  /\ DOMAIN index \cap NewId \subseteq DOMAIN order_to_user
  /\ pc # "idle" => ~ub
  /\ pc \in {"match", "rest"} =>
       /\ taker.id \in DOMAIN order_to_user
       /\ order_to_user[taker.id] = taker.user_id
       /\ taker.type = "Limit" => taker.price \in Price
       /\ taker = [incoming EXCEPT !.qty = taker.qty]
       /\ taker.qty <= incoming.qty
  /\ pc = "match" => taker.id \notin DOMAIN index
  /\ pc = "rest" => Rests /\ taker \in RestingOrders
  /\ pc = "cancel" => withdrawn.id \notin DOMAIN index

\* The index finds every resting order, levels are never empty, quantities
\* never reach 0 in the book: what cancel_order and the loops of match_buy and
\* match_sell take for granted, in the middle of a sweep too.
BookConsistent == ub \/ WellFormed(levels, index)

\* Matching leaves no bid at or above an ask: an order that rests has first
\* traded with everything it crosses.
NotCrossed == Uncrossed(levels)

\* A trade names a resting order of the opposite side with the best price of
\* that side, the one that arrived first at that price, trades at that
\* order's price, and is within the taker's limit (match_buy, match_sell).
PriceTimePriority ==
  [][Len(trades') > Len(trades) =>
       LET t    == trades'[Len(trades')]
           side == Opposite(taker.side)
       IN  /\ t.price \in DOMAIN levels[side]
           /\ levels[side][t.price][1].id = t.maker_id
           /\ \A p \in DOMAIN levels[side] :
                IF side = "Buy" THEN p <= t.price ELSE t.price <= p
           /\ taker.type = "Limit" =>
                IF side = "Buy" THEN taker.price <= t.price ELSE t.price <= taker.price
           /\ 0 < t.qty /\ t.qty <= taker.qty]_vars

\* Nobody is overtaken in the queue of a price level: orders that stay keep
\* their order, whatever is filled, partly filled or cancelled around them, and
\* an order that joins the level joins behind all of them.
NoOvertaking ==
  [][~ub' =>
       \A side \in Side : \A p \in DOMAIN levels'[side] :
         LET new == levels'[side][p]
             old == IF p \in DOMAIN levels[side] THEN levels[side][p] ELSE <<>>
         IN  \A i, j \in DOMAIN new : i < j =>
               \A l \in DOMAIN old : old[l].id = new[j].id =>
                 \E k \in DOMAIN old : k < l /\ old[k].id = new[i].id]_vars

\* Between two operations every client that listens to the feed has the book
\* as it is (notify_change in every path that changed it).
FeedCurrent == pc = "idle" => feed = levels

LastLine(id) == journal[id][Len(journal[id])]

IsOpen(id) == journal[id] # <<>> /\ LastLine(id).status \in {"New", "PartiallyFilled"}

\* What the two journals say has been traded of an order.
JournaledQty(id) ==
  SumFunction([i \in DOMAIN journal[id] |->
                 IF journal[id][i].status \in {"PartiallyFilled", "Filled"}
                 THEN journal[id][i].qty ELSE 0])
TapedQty(id) ==
  SumFunction([i \in DOMAIN tape |->
                 IF id \in {tape[i].maker_id, tape[i].taker_id} THEN tape[i].qty ELSE 0])

\* orders.jsonl, trades.jsonl and the book tell the same story: the last line of
\* a resting order is an open status with exactly the quantity that still rests,
\* but for one that has just been linked, whose own line comes last; between two
\* operations both journals show the same quantity traded of every order; and for
\* one that was not cancelled, submitted = traded + remaining.
JournalsReconcile ==
  /\ ub \/ \A o \in RestingOrders : o.id \in NewId =>
            IsOpen(o.id) /\ (LastLine(o.id).remaining = o.qty \/ (pc = "rest" /\ o = taker))
  /\ pc = "idle" => \A id \in OrderId : JournaledQty(id) = TapedQty(id)
  /\ \A id \in NewId :
       journal[id] # <<>> /\ LastLine(id).status \notin {"Canceled", "Rejected"} =>
         journal[id][1].qty = JournaledQty(id) + LastLine(id).remaining

\* No order has a line after Filled, Canceled or Rejected.
TerminalIsFinal ==
  \A id \in OrderId : \A i \in 1..(Len(journal[id]) - 1) :
    journal[id][i].status \notin {"Filled", "Canceled", "Rejected"}

\* An order the journal leaves open although it is over.
Astray(id) == IsOpen(id) /\ ~Resting(id) /\ (pc = "match" => taker.id # id)

\* Every order the journal leaves open is in the book or in the loop. The one
\* exception is a market order that finds less than it asks for: its last line
\* is PartiallyFilled, and what it has left rests nowhere.
OpenRests ==
  [][\A id \in NewId : ~ub' /\ Astray(id)' /\ ~Astray(id) =>
       pc = "match" /\ taker.id = id /\ taker.type = "Market"]_vars

\* What the tape, by its maker_user_id and taker_user_id, says user u traded.
Turnover(u) ==
  SumFunction([i \in DOMAIN tape |->
                 LET v == tape[i].price * tape[i].qty
                 IN  (IF tape[i].maker_user_id = u THEN v ELSE 0)
                     + (IF tape[i].taker_user_id = u THEN v ELSE 0)])

\* Cash and shares are moved between users, never made or lost, also between two
\* fills of a sweep and when a user trades with himself (on_fill). Between two
\* operations a user's total_buy_value and total_sell_value show exactly the
\* turnover the tape (emit_trades) attributes to him. Only next_user_id breaks
\* this, for an id that trades before it is drawn.
AccountsMatchTape ==
  /\ wiped = {} =>
       /\ SumFunction([u \in User |-> positions[u].balance]) = Cardinality(User) * InitBalance
       /\ SumFunction([u \in User |-> positions[u].shares]) = Cardinality(User) * InitShares
  /\ pc = "idle" => \A u \in User \ wiped :
       positions[u].total_buy_value + positions[u].total_sell_value = Turnover(u)

\* The orders that something is reserved for: those in the book, but not the one
\* that has just been linked, and still the one that has just been unlinked.
Secured == (RestingOrders \ (IF pc = "rest" THEN {taker} ELSE {}))
             \cup (IF pc = "cancel" THEN {withdrawn} ELSE {})

\* What these lock up of user u is what his position says is reserved.
ReservedExactly(u) ==
  LET mine(side) == {o \in Secured : o.user_id = u /\ o.side = side}
  IN  /\ positions[u].reserved_balance = SumFunction([o \in mine("Buy") |-> o.price * o.qty])
      /\ positions[u].reserved_shares = SumFunction([o \in mine("Sell") |-> o.qty])

\* At every moment a position can be read, a registered user's reservations are
\* what his orders in the book lock up, give or take the one order that is being
\* linked or cancelled: after its broadcast, before on_order_resting or on_cancel.
ReservationsExact == ub \/ \A u \in User \ ({0} \cup wiped) : ReservedExactly(u)

\* What user u's order that is being processed may still trade or rest.
InFlight(u, side) ==
  IF pc \in {"match", "rest"} /\ taker.user_id = u /\ taker.side = side THEN taker.qty ELSE 0

\* Nobody sells shares he does not have: what is not reserved covers what an
\* order being processed may still sell, so shares never fall below the reserved
\* ones, even when one sweep fills several resting orders of the same user.
SharesSolvent ==
  ub \/ \A u \in User \ ({0} \cup wiped) :
          positions[u].shares - positions[u].reserved_shares >= InFlight(u, "Sell")

\* What user u has that is not reserved.
Available(u) == positions[u].balance - positions[u].reserved_balance

\* What user u may still spend: cash that is neither reserved nor promised by a
\* limit order of his that is being processed.
Spendable(u) == Available(u) - (IF InFlight(u, "Buy") > 0 THEN taker.price * taker.qty ELSE 0)

\* The preflight of the order that enters the loop compared wrapped amounts: its
\* cost, or the cash of its user, is not a long long.
PreflightWrapped(u) ==
  /\ pc = "idle" /\ pc' = "match"
  /\ incoming'.user_id = u
  /\ ~Fits(incoming'.price * incoming'.qty, LongMax) \/ ~Fits(Available(u), LongMax)

\* Nobody overspends, whatever is filled at better prices, cancelled or traded
\* with himself, but by a market buy: the preflight tests it against the best ask
\* alone, and the loop goes on to worse ones; or when the preflight's product or
\* difference overflows.
CashSolvent ==
  [][\A u \in User \ ({0} \cup wiped') : ~ub' /\ Spendable(u)' < 0 /\ Spendable(u)' < Spendable(u) =>
       \/ pc = "match" /\ taker.user_id = u /\ taker.side = "Buy" /\ taker.type = "Market"
       \/ PreflightWrapped(u)]_vars

=============================================================================
