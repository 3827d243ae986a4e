--------------------------- MODULE ExchangeProofs ---------------------------
(***************************************************************************)
(* Proofs about MatchingEngine for every set of orders, users, prices and  *)
(* quantities and every seeded book: types, the book, shares, priority,    *)
(* owners, the feed and queues, what the accounts and the journals say:    *)
(* cash, open orders, reservations, accounts and the tape, journals; and   *)
(* that the engine implements DepthBook. Last, about HttpHandlers, for     *)
(* every number of threads and every set of requests: the threads together *)
(* do what the engine does alone, so all of this holds with them too; and  *)
(* what is done outside of book_mtx, drawing ids and looking up owners, is *)
(* done right.                                                             *)
(***************************************************************************)
EXTENDS HttpHandlers, DepthOfBook, OrderBookProofs

-----------------------------------------------------------------------------
(* Typing of the operations.                                               *)

\* A Position keeps its type when one of its fields gets an integer.
LEMMA PositionField ==
  ASSUME NEW pos \in Position, NEW n \in Int
  PROVE  /\ [pos EXCEPT !.balance = n] \in Position
         /\ [pos EXCEPT !.shares = n] \in Position
         /\ [pos EXCEPT !.net_qty = n] \in Position
         /\ [pos EXCEPT !.total_buy_qty = n] \in Position
         /\ [pos EXCEPT !.total_buy_value = n] \in Position
         /\ [pos EXCEPT !.total_sell_qty = n] \in Position
         /\ [pos EXCEPT !.total_sell_value = n] \in Position
BY DEF Position

\* Buying yields a Position.
LEMMA BoughtType ==
  ASSUME NEW pos \in Position, NEW v \in Int, NEW qty \in Int
  PROVE  Bought(pos, v, qty) \in Position
<1> DEFINE p1 == [pos EXCEPT !.balance = pos.balance - v]
           p2 == [p1 EXCEPT !.shares = pos.shares + qty]
           p3 == [p2 EXCEPT !.net_qty = pos.net_qty + qty]
           p4 == [p3 EXCEPT !.total_buy_qty = pos.total_buy_qty + qty]
           p5 == [p4 EXCEPT !.total_buy_value = pos.total_buy_value + v]
<1>1. /\ pos.balance - v \in Int /\ pos.shares + qty \in Int /\ pos.net_qty + qty \in Int
      /\ pos.total_buy_qty + qty \in Int /\ pos.total_buy_value + v \in Int
  BY DEF Position
<1>2. p1 \in Position  BY <1>1, PositionField
<1>3. p2 \in Position  BY <1>1, <1>2, PositionField
<1>4. p3 \in Position  BY <1>1, <1>3, PositionField
<1>5. p4 \in Position  BY <1>1, <1>4, PositionField
<1>6. p5 \in Position  BY <1>1, <1>5, PositionField
<1>7. Bought(pos, v, qty) = p5
  BY DEF Position, Bought
<1> QED
  BY <1>6, <1>7

\* Selling yields a Position.
LEMMA SoldType ==
  ASSUME NEW pos \in Position, NEW v \in Int, NEW qty \in Int
  PROVE  Sold(pos, v, qty) \in Position
<1> DEFINE p1 == [pos EXCEPT !.balance = pos.balance + v]
           p2 == [p1 EXCEPT !.shares = pos.shares - qty]
           p3 == [p2 EXCEPT !.net_qty = pos.net_qty - qty]
           p4 == [p3 EXCEPT !.total_sell_qty = pos.total_sell_qty + qty]
           p5 == [p4 EXCEPT !.total_sell_value = pos.total_sell_value + v]
<1>1. /\ pos.balance + v \in Int /\ pos.shares - qty \in Int /\ pos.net_qty - qty \in Int
      /\ pos.total_sell_qty + qty \in Int /\ pos.total_sell_value + v \in Int
  BY DEF Position
<1>2. p1 \in Position  BY <1>1, PositionField
<1>3. p2 \in Position  BY <1>1, <1>2, PositionField
<1>4. p3 \in Position  BY <1>1, <1>3, PositionField
<1>5. p4 \in Position  BY <1>1, <1>4, PositionField
<1>6. p5 \in Position  BY <1>1, <1>5, PositionField
<1>7. Sold(pos, v, qty) = p5
  BY DEF Position, Sold
<1> QED
  BY <1>6, <1>7

\* Reserving, releasing and executing yield a Position.
LEMMA PositionOps ==
  ASSUME NEW pos \in Position, NEW side \in Side, NEW price \in Int, NEW qty \in Int
  PROVE  /\ Executed(pos, side, price, qty) \in Position
         /\ Reserve(pos, side, price, qty) \in Position
         /\ Release(pos, side, price, qty) \in Position
<1>1. price * qty \in Int
  OBVIOUS
<1>2. ASSUME NEW v \in Int
      PROVE  Bought(pos, v, qty) \in Position /\ Sold(pos, v, qty) \in Position
  BY BoughtType, SoldType
<1>3. Executed(pos, side, price, qty) \in Position
  BY <1>1, <1>2 DEF Executed
<1>4. Reserve(pos, side, price, qty) \in Position
  BY <1>1 DEF Reserve, Position
<1>5. Release(pos, side, price, qty) \in Position
  BY <1>1 DEF Release, Position
<1> QED
  BY <1>3, <1>4, <1>5

\* get_user_for_order answers a user, registered or not.
LEMMA UserOfType ==
  ASSUME TypeOK, NEW id
  PROVE  UserOf(id) \in User
BY BookAssumption DEF TypeOK, UserOf

\* on_fill writes positions of existing users, with integer fields.
LEMMA FilledType ==
  ASSUME TypeOK, NEW m, NEW t, NEW price \in Int, NEW qty \in Int, NEW side \in Side
  PROVE  Filled(m, t, price, qty, side) \in [User -> Position]
<1> DEFINE p1 == TakerFilled(positions, UserOf(t), side, price, qty)
<1>1. positions \in [User -> Position] /\ UserOf(t) \in User /\ UserOf(m) \in User
  BY UserOfType DEF TypeOK
<1>2. p1 \in [User -> Position]
  BY <1>1, PositionOps DEF TakerFilled
<1> HIDE DEF p1
<1>3. Opposite(side) \in Side
  BY OppositeSide
<1>4. MakerFilled(p1, UserOf(m), Opposite(side), price, qty) \in [User -> Position]
  <2>1. p1[UserOf(m)] \in Position
    BY <1>1, <1>2
  <2>2. Executed(p1[UserOf(m)], Opposite(side), price, qty) \in Position
    BY <2>1, <1>3, PositionOps
  <2>3. Release(Executed(p1[UserOf(m)], Opposite(side), price, qty),
                Opposite(side), price, qty) \in Position
    BY <2>2, <1>3, PositionOps
  <2> QED
    BY <1>1, <1>2, <2>3 DEF MakerFilled
<1> QED
  BY <1>4 DEF Filled, p1

\* A well-typed event keeps the journal well typed.
LEMMA EmitType ==
  ASSUME TypeOK, NEW id \in OrderId, NEW status \in Status, NEW qty \in Nat,
         NEW remaining \in Nat, Emit(id, status, qty, remaining)
  PROVE  journal' \in [OrderId -> Seq(Event)]
<1>1. [status |-> status, qty |-> qty, remaining |-> remaining] \in Event
  BY DEF Event
<1> QED
  BY <1>1 DEF Emit, TypeOK

\* The fill that is about to happen: a maker at the front of the best level.
LEMMA FillFacts ==
  ASSUME TypeOK, pc = "match", CanMatch,
         NEW side, side = Opposite(taker.side),
         NEW price, price = Best(side),
         NEW queue, queue = levels[side][price],
         NEW maker, maker = Head(queue),
         NEW qty, qty = FillQty(taker.qty, maker.qty)
  PROVE  /\ side \in Side
         /\ taker \in Order
         /\ price \in DOMAIN levels[side]
         /\ price \in Price /\ price \in Int
         /\ \A r \in DOMAIN levels[side] : ~Better(side, r, price)
         /\ Crosses(taker, price)
         /\ queue \in Seq(Order) /\ queue # <<>>
         /\ maker \in Order /\ maker = queue[1]
         /\ qty \in Nat /\ qty <= taker.qty /\ qty <= maker.qty
         /\ maker.qty > 0 => qty > 0
         /\ AfterFill(queue, maker.qty - qty) \in Seq(Order)
<1>1. side \in Side /\ taker \in Order
  BY OppositeSide DEF TypeOK, Order
<1>2. HasBest(side) /\ Crosses(taker, price) /\ queue # <<>> /\ taker.qty > 0
  BY DEF CanMatch
<1>3. DOMAIN levels[side] \subseteq Price
  BY <1>1 DEF TypeOK, LevelsType
<1>4. price \in DOMAIN levels[side] /\ \A r \in DOMAIN levels[side] : ~Better(side, r, price)
  BY <1>1, <1>2, <1>3, BestIsBest
<1>5. price \in Price /\ price \in Int
  BY <1>3, <1>4, BookAssumption DEF Price
<1>6. queue \in Seq(Order)
  BY <1>1, <1>4 DEF TypeOK, LevelsType
<1>7. maker \in Order /\ maker = queue[1]
  BY <1>2, <1>6
<1>8. taker.qty \in Nat /\ maker.qty \in Nat
  BY <1>1, <1>7 DEF Order
<1>9. qty \in Nat /\ qty <= taker.qty /\ qty <= maker.qty /\ (maker.qty > 0 => qty > 0)
  BY <1>2, <1>8 DEF FillQty
<1>10. AfterFill(queue, maker.qty - qty) \in Seq(Order)
  <2>1. CASE maker.qty - qty = 0
    BY <1>2, <1>6, <2>1, HeadTailProperties DEF AfterFill
  <2>2. CASE maker.qty - qty # 0
    <3>1. [maker EXCEPT !.qty = maker.qty - qty] \in Order
      <4>1. maker.qty - qty \in Nat
        BY <1>8, <1>9
      <4> QED
        BY <1>7, <4>1, OrderQty
    <3>2. [queue EXCEPT ![1] = [maker EXCEPT !.qty = maker.qty - qty]] \in Seq(Order)
      BY <1>2, <1>6, <3>1, ExceptSeq, EmptySeq
    <3>3. AfterFill(queue, maker.qty - qty)
            = [queue EXCEPT ![1] = [maker EXCEPT !.qty = maker.qty - qty]]
      BY <1>7, <2>2 DEF AfterFill
    <3> QED
      BY <3>2, <3>3
  <2> QED
    BY <2>1, <2>2
<1> QED
  BY <1>1, <1>2, <1>4, <1>5, <1>6, <1>7, <1>9, <1>10

-----------------------------------------------------------------------------
(* Type correctness. TypeOK is not inductive by itself: Rest and Conclude  *)
(* need to know that a limit order in the loop has a positive price and    *)
(* that no more was filled than submitted, which InFlightOK adds.          *)

TypeInv == TypeOK /\ InFlightOK

\* The book seed_book left, and everything else empty, is well typed.
LEMMA TypeInit == Init => TypeInv
<1> SUFFICES ASSUME Init PROVE TypeInv
  OBVIOUS
<1> USE DEF Init, UserInit
<1>1. LevelsType(levels) /\ IndexType(index)
  BY SeedAssumption DEF Seeded
<1>2. positions \in [User -> Position]
  <2>1. DefaultPosition \in Position
    BY UserAssumption DEF DefaultPosition, Position
  <2> QED
    BY <2>1
<1>3. journal \in [OrderId -> Seq(Event)]
  BY EmptySeq
<1>4. trades \in Seq(Trade) /\ tape \in Seq(Trade)
  BY EmptySeq
<1>5. /\ order_to_user = [id \in DOMAIN order_to_user |-> order_to_user[id]]
      /\ DOMAIN order_to_user = {}
  OBVIOUS
<1>6. TypeOK
  BY <1>1, <1>2, <1>3, <1>4, <1>5 DEF TypeOK
<1>7. InFlightOK
  BY SeedAssumption, EngineAssumption DEF InFlightOK, Seeded
<1> QED
  BY <1>6, <1>7 DEF TypeInv

\* Requests are orders, and pass the preflight only with a positive quantity
\* and, when limited, a positive price.
LEMMA RequestFacts ==
  ASSUME NEW o \in Request
  PROVE  /\ o \in Order /\ o.id \in NewId /\ o.id \in OrderId /\ o.user_id \in User
         /\ Preflight(o) \in {"Ok", "Rejected", "Canceled"}
         /\ Preflight(o) = "Ok" => o.qty > 0 /\ (o.type = "Limit" => o.price \in Price)
<1>1. /\ o.id \in NewId /\ o.user_id \in User /\ o.side \in Side
      /\ o.price \in Int /\ o.price <= MaxPrice /\ o.qty \in Nat /\ o.type \in OrderType
  <2>1. o \in [id : NewId, user_id : User, side : Side,
               price : ReqPrice \cup {0}, qty : ReqQty, type : ReqType]
    BY DEF Request
  <2>2. \A x \in ReqPrice \cup {0} : x \in Int /\ x <= MaxPrice
    BY EngineAssumption, BookAssumption
  <2>3. o.price \in Int /\ o.price <= MaxPrice
    BY <2>1, <2>2
  <2>4. ReqQty \subseteq Nat /\ ReqType \subseteq OrderType
    BY EngineAssumption, UserAssumption
  <2> QED
    BY <2>1, <2>3, <2>4
<1>2. o = [id |-> o.id, user_id |-> o.user_id, side |-> o.side, price |-> o.price,
           qty |-> o.qty, type |-> o.type]
  BY DEF Request
<1>3. o.id \in OrderId
  BY <1>1, EngineAssumption
<1>4. o \in Order
  BY <1>1, <1>2, <1>3 DEF Order
<1>5. Preflight(o) \in {"Ok", "Rejected", "Canceled"}
  BY DEF Preflight
<1>6. Preflight(o) = "Ok" => ~Malformed(o)
  BY DEF Preflight
<1>7. Preflight(o) = "Ok" => o.qty > 0 /\ (o.type = "Limit" => o.price \in Price)
  BY <1>1, <1>6, BookAssumption DEF Malformed, Price
<1> QED
  BY <1>1, <1>3, <1>4, <1>5, <1>7

\* register_order keeps every older registration and adds its own.
LEMMA RegisterType ==
  ASSUME TypeOK, NEW id \in NewId, NEW u \in User, RegisterOrder(id, u)
  PROVE  /\ order_to_user' = [x \in DOMAIN order_to_user' |-> order_to_user'[x]]
         /\ DOMAIN order_to_user' = DOMAIN order_to_user \cup {id}
         /\ DOMAIN order_to_user' \subseteq NewId
         /\ \A x \in DOMAIN order_to_user' : order_to_user'[x] \in User
         /\ order_to_user'[id] = u
BY DEF TypeOK, RegisterOrder, Put

\* An order the preflight refuses changes the journal and the registration only.
LEMMA RefuseType ==
  ASSUME TypeInv, NEW o \in Request, Refuse(o)
  PROVE  TypeInv'
<1> USE DEF TypeInv
<1>1. /\ o.id \in NewId /\ o.id \in OrderId /\ o.user_id \in User
      /\ Preflight(o) \in Status
  BY RequestFacts DEF Refuse, Status
<1>2. RegisterOrder(o.id, o.user_id) /\ Emit(o.id, Preflight(o), 0, 0)
  BY DEF Refuse
<1>3. journal' \in [OrderId -> Seq(Event)]
  BY <1>1, <1>2, EmitType
<1>4. /\ order_to_user' = [x \in DOMAIN order_to_user' |-> order_to_user'[x]]
      /\ DOMAIN order_to_user' = DOMAIN order_to_user \cup {o.id}
      /\ DOMAIN order_to_user' \subseteq NewId
      /\ \A x \in DOMAIN order_to_user' : order_to_user'[x] \in User
  BY <1>1, <1>2, RegisterType
<1>5. TypeOK'
  BY <1>3, <1>4 DEF Refuse, TypeOK, bookVars
<1>6. InFlightOK'
  BY <1>4 DEF Refuse, InFlightOK, bookVars
<1> QED
  BY <1>5, <1>6

\* An accepted order enters the loop as InFlightOK describes it.
LEMMA AcceptType ==
  ASSUME TypeInv, NEW o \in Request, Accept(o)
  PROVE  TypeInv'
<1> USE DEF TypeInv
<1>1. /\ o \in Order /\ o.id \in NewId /\ o.id \in OrderId /\ o.user_id \in User
      /\ o.qty > 0 /\ o.qty \in Nat /\ (o.type = "Limit" => o.price \in Price)
  BY RequestFacts DEF Accept, Order
<1>2. RegisterOrder(o.id, o.user_id) /\ Emit(o.id, "New", o.qty, o.qty)
  BY DEF Accept
<1>3. journal' \in [OrderId -> Seq(Event)]
  BY <1>1, <1>2, EmitType DEF Status
<1>4. /\ order_to_user' = [x \in DOMAIN order_to_user' |-> order_to_user'[x]]
      /\ DOMAIN order_to_user' = DOMAIN order_to_user \cup {o.id}
      /\ DOMAIN order_to_user' \subseteq NewId
      /\ \A x \in DOMAIN order_to_user' : order_to_user'[x] \in User
      /\ order_to_user'[o.id] = o.user_id
  BY <1>1, <1>2, RegisterType
<1>5. TypeOK'
  BY <1>1, <1>3, <1>4 DEF Accept, TypeOK, bookVars
<1>6. o.id \notin DOMAIN index
  BY <1>1 DEF Accept, InFlightOK
<1>7. o = [o EXCEPT !.qty = o.qty]
  BY <1>1 DEF Order
<1>8. InFlightOK'
  BY <1>1, <1>4, <1>6, <1>7 DEF Accept, InFlightOK, bookVars
<1> QED
  BY <1>5, <1>8

\* One turn of the matching loop takes from the taker what the maker gave.
LEMMA FillType ==
  ASSUME TypeInv, Fill
  PROVE  TypeInv'
<1> USE DEF TypeInv
<1> DEFINE side  == Opposite(taker.side)
           price == Best(side)
           queue == levels[side][price]
           maker == Head(queue)
           qty   == FillQty(taker.qty, maker.qty)
           left  == maker.qty - qty
<1>1. pc = "match" /\ CanMatch
  BY DEF Fill
<1>2. /\ side \in Side /\ taker \in Order /\ price \in Price /\ price \in Int
      /\ maker \in Order /\ qty \in Nat /\ qty <= taker.qty /\ qty <= maker.qty
      /\ AfterFill(queue, left) \in Seq(Order)
  BY <1>1, FillFacts
<1>3. /\ trades' = Append(trades,
                     [maker_id |-> maker.id, taker_id |-> taker.id,
                      maker_user_id |-> UserOf(maker.id),
                      taker_user_id |-> taker.user_id,
                      price |-> price, qty |-> qty])
      /\ OnFill(maker.id, taker.id, price, qty, taker.side)
      /\ taker' = [taker EXCEPT !.qty = @ - qty]
      /\ EmitMaker(maker.id, qty, left)
      /\ levels' = SetLevel(side, price, AfterFill(queue, left))
      /\ UNCHANGED <<index, order_to_user, wiped, pc, incoming, withdrawn, tape, feed, ub>>
  BY DEF Fill
<1> HIDE DEF side, price, queue, maker, qty, left
<1>4. /\ taker.id \in OrderId /\ taker.user_id \in User /\ taker.side \in Side
      /\ taker.qty \in Nat /\ maker.id \in OrderId /\ maker.qty \in Nat
  BY <1>2 DEF Order
<1>5. left \in Nat /\ taker.qty - qty \in Nat /\ taker.qty - qty <= taker.qty
  BY <1>2, <1>4 DEF left
<1>6. LevelsType(levels')
  BY <1>2, <1>3, SetLevelProperties DEF TypeOK
<1>7. positions' \in [User -> Position]
  <2>1. TypeOK /\ qty \in Int
    BY <1>2
  <2>2. Filled(maker.id, taker.id, price, qty, taker.side) \in [User -> Position]
    BY <2>1, <1>2, <1>4, FilledType
  <2> QED
    BY <1>3, <2>2 DEF OnFill
<1>8. journal' \in [OrderId -> Seq(Event)]
  <2>1. (IF left = 0 THEN "Filled" ELSE "PartiallyFilled") \in Status
    BY DEF Status
  <2> QED
    BY <1>2, <1>3, <1>4, <1>5, <2>1, EmitType DEF EmitMaker
<1>9. trades' \in Seq(Trade)
  <2>1. [maker_id |-> maker.id, taker_id |-> taker.id,
         maker_user_id |-> UserOf(maker.id), taker_user_id |-> taker.user_id,
         price |-> price, qty |-> qty] \in Trade
    BY <1>2, <1>4, UserOfType DEF Trade
  <2> QED
    BY <1>3, <2>1 DEF TypeOK
<1>10. taker' \in Order /\ taker'.qty = taker.qty - qty
  <2>1. taker' = [taker EXCEPT !.qty = taker.qty - qty]
    BY <1>3
  <2>2. taker' \in Order
    BY <2>1, <1>2, <1>5, OrderQty
  <2> QED
    BY <2>1, <2>2, <1>2 DEF Order
<1>11. TypeOK'
  BY <1>3, <1>6, <1>7, <1>8, <1>9, <1>10 DEF TypeOK
<1>12. InFlightOK'
  <2>1. /\ taker'.id = taker.id /\ taker'.user_id = taker.user_id
        /\ taker'.type = taker.type /\ taker'.price = taker.price
    BY <1>2, <1>3 DEF Order
  <2>2. taker' = [incoming EXCEPT !.qty = taker'.qty]
    <3>1. taker = [incoming EXCEPT !.qty = taker.qty] /\ incoming \in Order
      BY <1>1 DEF InFlightOK, TypeOK
    <3> QED
      BY <3>1, <1>3, <1>10 DEF Order
  <2>3. taker'.qty <= incoming.qty
    <3>1. incoming.qty \in Nat /\ taker.qty <= incoming.qty
      BY <1>1 DEF InFlightOK, TypeOK, Order
    <3> QED
      BY <3>1, <1>4, <1>5, <1>10
  <2> QED
    BY <1>1, <1>3, <2>1, <2>2, <2>3 DEF InFlightOK
<1> QED
  BY <1>11, <1>12

\* What Rest does to the book, and what it rests.
LEMMA RestFacts ==
  ASSUME TypeInv, Rest
  PROVE  /\ pc = "match" /\ pc' = "rest" /\ ~CanMatch /\ ~ub
         /\ taker \in Order /\ taker.type = "Limit" /\ taker.qty \in Nat /\ taker.qty > 0
         /\ taker.id \in OrderId /\ taker.side \in Side /\ taker.price \in Price
         /\ taker.id \notin DOMAIN index
         /\ levels' = PushBack(taker) /\ index' = Locate(taker) /\ feed' = levels'
         /\ UNCHANGED <<order_to_user, positions, wiped, incoming, taker, withdrawn,
                        trades, journal, tape, ub>>
<1>1. /\ pc = "match" /\ pc' = "rest" /\ ~CanMatch
      /\ taker.type = "Limit" /\ taker.qty > 0
      /\ AddRestingOrder(taker) /\ Broadcast(trades # <<>>, Addable(taker))
      /\ UNCHANGED <<userVars, incoming, taker, withdrawn, trades, journal, tape, ub>>
  BY DEF Rest, Rests, EnterBook
<1>2. /\ taker \in Order /\ taker.id \notin DOMAIN index /\ taker.price \in Price /\ ~ub
  BY <1>1 DEF TypeInv, TypeOK, InFlightOK
<1>3. levels' = PushBack(taker) /\ index' = Locate(taker) /\ feed' = levels'
  BY <1>1, <1>2 DEF AddRestingOrder, Addable, Broadcast
<1> QED
  BY <1>1, <1>2, <1>3 DEF userVars, Order

\* on_order_resting keeps positions well typed.
LEMMA OnOrderRestingType ==
  ASSUME TypeOK, NEW o \in Order, OnOrderResting(o)
  PROVE  positions' \in [User -> Position]
<1>1. o.side \in Side /\ o.price \in Int /\ o.qty \in Int
  BY DEF Order
<1>2. \A u \in User : Reserve(positions[u], o.side, o.price, o.qty) \in Position
  BY <1>1, PositionOps DEF TypeOK
<1> QED
  BY <1>2 DEF OnOrderResting, TypeOK

\* The order that rests has a price of the book and a registered id.
LEMMA RestType ==
  ASSUME TypeInv, Rest
  PROVE  TypeInv'
<1> USE DEF TypeInv
<1> DEFINE old == IF taker.price \in DOMAIN levels[taker.side]
                  THEN levels[taker.side][taker.price] ELSE <<>>
           q   == Append(old, taker)
<1>1. /\ pc = "match" /\ pc' = "rest" /\ ~ub
      /\ taker \in Order /\ taker.type = "Limit" /\ taker.qty \in Nat /\ taker.qty > 0
      /\ taker.id \in OrderId /\ taker.side \in Side /\ taker.price \in Price
      /\ levels' = PushBack(taker) /\ index' = Locate(taker)
      /\ UNCHANGED <<order_to_user, positions, wiped, incoming, taker, withdrawn,
                     trades, journal, tape, ub>>
  BY RestFacts
<1>2. /\ old \in Seq(Order) /\ q \in Seq(Order) /\ q # <<>> /\ Len(q) = Len(old) + 1
      /\ levels' = SetLevel(taker.side, taker.price, q)
  BY <1>1, PushBackIsSetLevel DEF TypeOK
<1>3. /\ LevelsType(levels')
      /\ taker.price \in DOMAIN levels'[taker.side]
      /\ levels'[taker.side][taker.price] = q
  <2>1. LevelsType(levels) /\ taker.side \in Side /\ taker.price \in Price /\ q \in Seq(Order)
    BY <1>1, <1>2 DEF TypeOK
  <2> HIDE DEF q
  <2>2. /\ LevelsType(SetLevel(taker.side, taker.price, q))
        /\ DOMAIN SetLevel(taker.side, taker.price, q)[taker.side]
             = DOMAIN levels[taker.side] \cup {taker.price}
        /\ SetLevel(taker.side, taker.price, q)[taker.side][taker.price] = q
    BY <1>2, <2>1, SetLevelProperties
  <2> QED
    BY <1>2, <2>2
<1>4. IndexType(index') /\ DOMAIN index' = DOMAIN index \cup {taker.id}
  BY <1>1 DEF Locate, Put, IndexType, TypeOK
<1>5. TypeOK'
  BY <1>1, <1>3, <1>4 DEF TypeOK
<1>6. taker' \in RestingOrders'
  <2>1. taker \in ToSet(q)
    <3>1. Len(old) \in Nat /\ q[Len(old) + 1] = taker
      BY <1>1, <1>2, AppendProperties, LenProperties
    <3>2. Len(old) + 1 \in DOMAIN q
      BY <1>2, <3>1, LenProperties
    <3> QED
      BY <3>1, <3>2 DEF ToSet
  <2>2. taker \in ToSet(levels'[taker.side][taker.price])
    BY <1>3, <2>1
  <2>3. taker \in UNION {ToSet(levels'[taker.side][p]) : p \in DOMAIN levels'[taker.side]}
    BY <1>3, <2>2
  <2>4. taker \in RestingOrders'
    BY <1>1, <2>3 DEF RestingOrders
  <2> QED
    BY <1>1, <2>4
<1>7. InFlightOK'
  BY <1>1, <1>4, <1>6 DEF InFlightOK, Rests
<1> QED
  BY <1>5, <1>7

\* The end of process_order writes the journal and the tape.
LEMMA ConcludeType ==
  ASSUME TypeInv, pc \in {"match", "rest"}, Conclude,
         positions' \in [User -> Position]
  PROVE  TypeInv'
<1> USE DEF TypeInv
<1> DEFINE filled == incoming.qty - taker.qty
           status == IF taker.qty = 0 THEN "Filled" ELSE "PartiallyFilled"
<1>1. /\ taker.id \in OrderId /\ taker.qty \in Nat /\ filled \in Nat
  BY DEF Order, TypeOK, InFlightOK
<1>2. journal' \in [OrderId -> Seq(Event)]
  <2>1. CASE filled = 0
    BY <2>1 DEF Conclude, TypeOK
  <2>2. CASE filled # 0
    <3>1. Emit(taker.id, status, filled, taker.qty)
      BY <2>2 DEF Conclude
    <3>2. status \in Status
      BY DEF Status
    <3> QED
      BY <1>1, <3>1, <3>2, EmitType
  <2> QED
    BY <2>1, <2>2
<1>3. tape' \in Seq(Trade)
  BY ConcatProperties DEF Conclude, EmitTrades, TypeOK
<1>4. /\ pc' = "idle" /\ trades' = <<>>
      /\ UNCHANGED <<levels, index, order_to_user, wiped, ub>>
  BY DEF Conclude, bookVars
<1>5. TypeOK'
  BY <1>2, <1>3, <1>4, EmptySeq DEF TypeOK
<1>6. InFlightOK'
  BY <1>4 DEF InFlightOK
<1> QED
  BY <1>5, <1>6

\* Reserving what rests keeps the types.
LEMMA SettleType ==
  ASSUME TypeInv, Settle
  PROVE  TypeInv'
<1>1. pc = "rest" /\ OnOrderResting(taker) /\ Conclude
  BY DEF Settle
<1>2. taker \in Order /\ TypeOK
  BY <1>1 DEF TypeInv, TypeOK
<1>3. positions' \in [User -> Position]
  BY <1>1, <1>2, OnOrderRestingType
<1> QED
  BY <1>1, <1>3, ConcludeType

\* So does an order that ends without resting.
LEMMA CompleteType ==
  ASSUME TypeInv, Complete
  PROVE  TypeInv'
<1>1. pc = "match" /\ Conclude /\ positions' = positions
  BY DEF Complete
<1>2. positions' \in [User -> Position]
  BY <1>1 DEF TypeInv, TypeOK
<1> QED
  BY <1>1, <1>2, ConcludeType

\* Drawing an id enters a new position.
LEMMA ConnectType ==
  ASSUME TypeInv, NEW u \in User, Connect(u)
  PROVE  TypeInv'
<1>1. DefaultPosition \in Position
  BY UserAssumption DEF DefaultPosition, Position
<1>2. /\ positions' = [positions EXCEPT ![u] = DefaultPosition]
      /\ wiped' = wiped \cup {u}
      /\ UNCHANGED <<levels, index, order_to_user, pc, incoming, taker, withdrawn, trades,
                     journal, tape, ub>>
  BY DEF Connect, NextUserId, bookVars
<1>3. TypeOK'
  BY <1>1, <1>2 DEF TypeInv, TypeOK
<1>4. InFlightOK'
  BY <1>2 DEF TypeInv, InFlightOK, RestingOrders, Rests
<1> QED
  BY <1>3, <1>4 DEF TypeInv

\* on_cancel keeps positions well typed.
LEMMA OnCancelType ==
  ASSUME TypeOK, NEW id, NEW o \in Order, OnCancel(id, o)
  PROVE  positions' \in [User -> Position]
<1>1. o.side \in Side /\ o.price \in Int /\ o.qty \in Int
  BY DEF Order
<1>2. \A u \in User : Release(positions[u], o.side, o.price, o.qty) \in Position
  BY <1>1, PositionOps DEF TypeOK
<1> QED
  BY <1>2 DEF OnCancel, TypeOK

\* The order an index entry leads to, when its iterator is valid.
LEMMA CancelOpenFacts ==
  ASSUME TypeOK, NEW id \in OrderId, CancelOpen(id)
  PROVE  \E side \in Side, price \in Price :
           /\ index[id] = [side |-> side, price |-> price]
           /\ price \in DOMAIN levels[side]
           /\ levels[side][price] \in Seq(Order)
           /\ \E i \in 1..Len(levels[side][price]) :
                /\ levels[side][price][i].id = id
                /\ levels[side][price][i] \in Order
                /\ withdrawn' = levels[side][price][i]
                /\ levels' = SetLevel(side, price, RemoveAt(levels[side][price], i))
                /\ index' = Erase(index, id)
<1>1. id \in DOMAIN index /\ Valid(id)
  BY DEF CancelOpen
<1>2. PICK side \in Side, price \in Price : index[id] = [side |-> side, price |-> price]
  BY <1>1 DEF TypeOK, IndexType
<1>3. index[id].side = side /\ index[id].price = price
  BY <1>2
<1>4. price \in DOMAIN levels[side]
  BY <1>1, <1>3 DEF Valid
<1>5. levels[side][price] \in Seq(Order)
  BY <1>4 DEF TypeOK, LevelsType
<1>6. PICK i \in DOMAIN levels[side][price] :
        /\ levels[side][price][i].id = id
        /\ withdrawn' = levels[side][price][i]
        /\ Unlink(id, i)
  BY <1>3 DEF CancelOpen
<1>7. i \in 1..Len(levels[side][price]) /\ levels[side][price][i] \in Order
  BY <1>5, <1>6, LenProperties, ElementOfSeq
<1>8. /\ levels' = SetLevel(side, price, RemoveAt(levels[side][price], i))
      /\ index' = Erase(index, id)
  BY <1>3, <1>6 DEF Unlink
<1> QED
  BY <1>2, <1>4, <1>5, <1>6, <1>7, <1>8

\* Withdrawing a resting order keeps the types.
LEMMA CancelOpenType ==
  ASSUME TypeInv, NEW id \in OrderId, CancelOpen(id)
  PROVE  TypeInv'
<1> USE DEF TypeInv
<1>1. PICK side \in Side, price \in Price :
        /\ index[id] = [side |-> side, price |-> price]
        /\ price \in DOMAIN levels[side]
        /\ levels[side][price] \in Seq(Order)
        /\ \E i \in 1..Len(levels[side][price]) :
             /\ levels[side][price][i].id = id
             /\ levels[side][price][i] \in Order
             /\ withdrawn' = levels[side][price][i]
             /\ levels' = SetLevel(side, price, RemoveAt(levels[side][price], i))
             /\ index' = Erase(index, id)
  BY CancelOpenFacts
<1>2. PICK i \in 1..Len(levels[side][price]) :
        /\ levels[side][price][i].id = id
        /\ levels[side][price][i] \in Order
        /\ withdrawn' = levels[side][price][i]
        /\ levels' = SetLevel(side, price, RemoveAt(levels[side][price], i))
        /\ index' = Erase(index, id)
  BY <1>1
<1>3. LevelsType(levels')
  BY <1>1, <1>2, RemoveAtProperties, SetLevelProperties DEF TypeOK
<1>4. IndexType(index') /\ DOMAIN index' = DOMAIN index \ {id}
  BY <1>2, EraseIndexType DEF TypeOK
<1>5. journal' \in [OrderId -> Seq(Event)]
  BY EmitType DEF CancelOpen, Status
<1>6. /\ pc' = "cancel" /\ ~ub
      /\ UNCHANGED <<order_to_user, positions, wiped, incoming, taker, trades, tape, ub>>
  BY DEF CancelOpen, userVars
<1>7. TypeOK'
  BY <1>2, <1>3, <1>4, <1>5, <1>6 DEF TypeOK
<1>8. InFlightOK'
  BY <1>2, <1>4, <1>6 DEF InFlightOK
<1> QED
  BY <1>7, <1>8

\* Releasing what it had locked up does, too.
LEMMA CancelDoneType ==
  ASSUME TypeInv, CancelDone
  PROVE  TypeInv'
<1> USE DEF TypeInv
<1>1. /\ pc = "cancel" /\ pc' = "idle" /\ OnCancel(withdrawn.id, withdrawn)
      /\ UNCHANGED <<levels, index, order_to_user, wiped, incoming, taker, trades,
                     journal, tape, ub>>
  BY DEF CancelDone, bookVars
<1>2. withdrawn \in Order
  BY <1>1 DEF TypeOK
<1>3. positions' \in [User -> Position]
  BY <1>1, <1>2, OnCancelType
<1>4. TypeOK'
  BY <1>1, <1>3 DEF TypeOK
<1>5. InFlightOK'
  BY <1>1 DEF InFlightOK
<1> QED
  BY <1>4, <1>5

\* So does each modelled outcome of cancelling a filled order.
LEMMA CancelDanglingType ==
  ASSUME TypeInv, NEW id \in OrderId, CancelDangling(id)
  PROVE  TypeInv' /\ DOMAIN levels'["Buy"] \subseteq DOMAIN levels["Buy"]
                  /\ DOMAIN levels'["Sell"] \subseteq DOMAIN levels["Sell"]
<1> USE DEF TypeInv
<1>1. id \in DOMAIN index
  BY DEF CancelDangling
<1>2. PICK side \in Side, price \in Price : index[id] = [side |-> side, price |-> price]
  BY <1>1 DEF TypeOK, IndexType
<1>3. index[id].side = side /\ index[id].price = price
  BY <1>2
<1>4. Freed(id) \in Order
  <2>1. UserOf(id) \in User /\ price \in Int /\ "Limit" \in OrderType
    BY UserOfType, BookAssumption DEF Price, OrderType
  <2> QED
    BY <1>3, <2>1 DEF Freed, Order
<1>5. RestingOrders \subseteq Order
  <2>1. ASSUME NEW o \in RestingOrders PROVE o \in Order
    <3>1. PICK s \in Side : o \in UNION {ToSet(levels[s][p]) : p \in DOMAIN levels[s]}
      BY <2>1 DEF RestingOrders
    <3>2. PICK p \in DOMAIN levels[s] : o \in ToSet(levels[s][p])
      BY <3>1
    <3>3. levels[s][p] \in Seq(Order)
      BY DEF TypeOK, LevelsType
    <3> QED
      BY <3>2, <3>3, LenProperties, ElementOfSeq DEF ToSet
  <2> QED
    BY <2>1
<1>6. positions' \in [User -> Position]
  <2>1. PICK found \in {Freed(id)} \cup RestingOrders : OnCancel(id, found)
    BY DEF CancelDangling
  <2> QED
    BY <1>4, <1>5, <2>1, OnCancelType
<1>7. UnlinkDangling(id, Freed(id))
  BY DEF CancelDangling
<1>8. LevelsType(levels') /\ \A s \in Side : DOMAIN levels'[s] \subseteq DOMAIN levels[s]
  <2>1. CASE price \notin DOMAIN levels[side]
    BY <1>3, <1>7, <2>1 DEF UnlinkDangling, TypeOK
  <2>2. CASE price \in DOMAIN levels[side]
    <3>1. levels[side][price] \in Seq(Order)
      BY <2>2 DEF TypeOK, LevelsType
    <3>2. PICK queue \in Wreckage(levels[side][price], Freed(id)) :
            levels' = SetLevel(side, price, queue)
      BY <1>3, <1>7, <2>2 DEF UnlinkDangling
    <3>3. queue \in Seq(Order)
      <4>1. <<Freed(id)>> \o levels[side][price] \in Seq(Order)
        BY <1>4, <3>1, ConcatProperties
      <4>2. \A i \in DOMAIN levels[side][price] : RemoveAt(levels[side][price], i) \in Seq(Order)
        BY <3>1, RemoveAtProperties, LenProperties
      <4>3. <<>> \in Seq(Order)
        BY EmptySeq
      <4> QED
        BY <3>1, <3>2, <4>1, <4>2, <4>3 DEF Wreckage
    <3>4. LevelsType(levels')
      BY <3>2, <3>3, SetLevelProperties DEF TypeOK
    <3>5. \A s \in Side : s # side => levels'[s] = levels[s]
      BY <3>2, <3>3, SetLevelProperties DEF TypeOK
    <3>6. DOMAIN levels'[side] \subseteq DOMAIN levels[side] \cup {price}
      <4>1. queue = <<>> => DOMAIN SetLevel(side, price, queue)[side] = DOMAIN levels[side] \ {price}
        BY <3>3, SetLevelProperties DEF TypeOK
      <4>2. queue # <<>> => DOMAIN SetLevel(side, price, queue)[side] = DOMAIN levels[side] \cup {price}
        BY <3>3, SetLevelProperties DEF TypeOK
      <4> QED
        BY <3>2, <4>1, <4>2
    <3> QED
      BY <2>2, <3>4, <3>5, <3>6
  <2> QED
    BY <2>1, <2>2
<1>9. IndexType(index') /\ DOMAIN index' \subseteq DOMAIN index
  BY <1>7, EraseIndexType DEF UnlinkDangling, TypeOK
<1>10. journal' \in [OrderId -> Seq(Event)]
  BY EmitType DEF CancelDangling, Status
<1>11. /\ pc = "idle" /\ ub' = TRUE
       /\ UNCHANGED <<order_to_user, wiped, pc, incoming, taker, withdrawn, trades, tape>>
  BY DEF CancelDangling
<1>12. TypeOK'
  BY <1>6, <1>8, <1>9, <1>10, <1>11 DEF TypeOK
<1>13. InFlightOK'
  BY <1>9, <1>11 DEF InFlightOK
<1> QED
  BY <1>8, <1>12, <1>13 DEF Side

\* Every step preserves the types.
LEMMA TypeStep == TypeInv /\ [Next]_vars => TypeInv'
<1> SUFFICES ASSUME TypeInv, [Next]_vars PROVE TypeInv'
  OBVIOUS
<1>1. ASSUME NEW o \in Request, Refuse(o) PROVE TypeInv'
  BY <1>1, RefuseType
<1>2. ASSUME NEW o \in Request, Accept(o) PROVE TypeInv'
  BY <1>2, AcceptType
<1>3. CASE Fill
  BY <1>3, FillType
<1>4. CASE Rest
  BY <1>4, RestType
<1>5. CASE Settle
  BY <1>5, SettleType
<1>6. CASE Complete
  BY <1>6, CompleteType
<1>7. ASSUME NEW id \in OrderId, CancelOpen(id) PROVE TypeInv'
  BY <1>7, CancelOpenType
<1>8. ASSUME NEW id \in OrderId, CancelDangling(id) PROVE TypeInv'
  BY <1>8, CancelDanglingType
<1>9. CASE CancelDone
  BY <1>9, CancelDoneType
<1>10. ASSUME NEW u \in User, Connect(u) PROVE TypeInv'
  BY <1>10, ConnectType
<1>11. CASE UNCHANGED vars
  BY <1>11 DEF vars, bookVars, userVars, TypeInv, TypeOK, InFlightOK, RestingOrders, Rests
<1> QED
  BY <1>1, <1>2, <1>3, <1>4, <1>5, <1>6, <1>7, <1>8, <1>9, <1>10, <1>11
     DEF Next, CancelUnknown, Corrupted

\* The types and what holds of the order in the loop: the inductive invariant
\* the other theorems build on.
THEOREM TypeInvariant == Spec => []TypeInv
BY TypeInit, TypeStep, PTL DEF Spec

\* Every variable keeps its type, whatever orders and cancellations arrive: no
\* quantity goes negative, no trade has a price the book cannot hold, no
\* position is written for a user that does not exist.
THEOREM TypeCorrect == Spec => []TypeOK
<1>1. TypeInv => TypeOK
  BY DEF TypeInv
<1> QED
  BY <1>1, TypeInvariant, PTL

-----------------------------------------------------------------------------
(* The book. BookConsistent and NotCrossed hold together: an order that    *)
(* rests is compared with the best opposite level, which is a real level   *)
(* only because none is empty.                                             *)

BookInv == BookConsistent /\ NotCrossed

\* seed_book leaves a consistent book that is not crossed.
LEMMA BookInit == Init => BookInv
BY SeedAssumption DEF Seeded, Init, BookInv, BookConsistent, NotCrossed

\* A step that leaves the book alone keeps it consistent.
LEMMA UnchangedBook ==
  ASSUME BookInv, UNCHANGED <<levels, index, ub>>
  PROVE  BookInv'
BY DEF BookInv, BookConsistent, NotCrossed

\* A book that loses prices stays uncrossed.
LEMMA StillUncrossed ==
  ASSUME NotCrossed, \A s \in Side : DOMAIN levels'[s] \subseteq DOMAIN levels[s]
  PROVE  NotCrossed'
BY DEF NotCrossed, Uncrossed, Side

\* Filling the front order of a queue keeps the queue in order.
LEMMA AfterFillOK ==
  ASSUME NEW queue \in Seq(Order), queue # <<>>, NEW side, NEW price, NEW ix,
         QueueOK(queue, side, price, ix), NEW left \in Nat
  PROVE  QueueOK(AfterFill(queue, left), side, price, ix)
<1>1. DOMAIN queue = 1..Len(queue) /\ Len(queue) \in Nat \ {0}
  BY LenProperties, EmptySeq
<1>2. CASE left = 0
  <2>1. AfterFill(queue, left) = Tail(queue)
    BY <1>2 DEF AfterFill
  <2>2. /\ DOMAIN Tail(queue) = 1..(Len(queue) - 1)
        /\ \A k \in 1..(Len(queue) - 1) : Tail(queue)[k] = queue[k + 1]
    BY HeadTailProperties, LenProperties
  <2>3. \A k \in 1..(Len(queue) - 1) : k + 1 \in 1..Len(queue)
    BY <1>1
  <2>4. \A j, k \in 1..(Len(queue) - 1) : j + 1 = k + 1 => j = k
    BY <1>1
  <2> QED
    BY <1>1, <2>1, <2>2, <2>3, <2>4 DEF QueueOK
<1>3. CASE left # 0
  <2> DEFINE nq == [queue EXCEPT ![1].qty = left]
  <2>1. AfterFill(queue, left) = nq
    BY <1>3 DEF AfterFill
  <2>2. 1 \in DOMAIN queue /\ queue[1] \in Order
    BY <1>1, ElementOfSeq
  <2>3. /\ DOMAIN nq = DOMAIN queue
        /\ nq[1] = [queue[1] EXCEPT !.qty = left]
        /\ \A k \in DOMAIN queue : k # 1 => nq[k] = queue[k]
    BY <2>2, LenProperties
  <2>4. /\ nq[1].id = queue[1].id /\ nq[1].side = queue[1].side
        /\ nq[1].price = queue[1].price /\ nq[1].qty = left
    BY <2>2, <2>3 DEF Order
  <2> HIDE DEF nq
  <2>5. \A k \in DOMAIN queue : /\ nq[k].id = queue[k].id /\ nq[k].side = queue[k].side
                                /\ nq[k].price = queue[k].price
                                /\ queue[k].qty > 0 => nq[k].qty > 0
    <3>1. left > 0
      BY <1>3
    <3>2. ASSUME NEW k \in DOMAIN queue, k # 1 PROVE nq[k] = queue[k]
      BY <2>3, <3>2
    <3> QED
      BY <2>4, <3>1, <3>2
  <2> QED
    BY <2>1, <2>3, <2>5 DEF QueueOK
<1> QED
  BY <1>2, <1>3

\* A fill keeps the book consistent and uncrossed.
LEMMA FillBook ==
  ASSUME TypeInv, BookInv, Fill
  PROVE  BookInv'
<1> DEFINE side  == Opposite(taker.side)
           price == Best(side)
           queue == levels[side][price]
           maker == Head(queue)
           qty   == FillQty(taker.qty, maker.qty)
           q     == AfterFill(queue, maker.qty - qty)
<1>1. pc = "match" /\ CanMatch /\ TypeOK /\ LevelsType(levels)
  BY DEF Fill, TypeInv, TypeOK
<1>2. /\ side \in Side /\ price \in DOMAIN levels[side] /\ price \in Price
      /\ queue \in Seq(Order) /\ queue # <<>> /\ q \in Seq(Order)
      /\ maker \in Order /\ qty \in Nat /\ qty <= maker.qty
  BY <1>1, FillFacts
<1>3. levels' = SetLevel(side, price, q) /\ UNCHANGED <<index, ub>>
  BY DEF Fill
<1>4. WellFormed(levels, index)
  BY <1>1 DEF TypeInv, InFlightOK, BookInv, BookConsistent
<1>5. QueueOK(queue, side, price, index)
  BY <1>2, <1>4 DEF WellFormed
<1> HIDE DEF side, price, queue, maker, qty
<1>6. QueueOK(q, side, price, index)
  <2>1. maker.qty - qty \in Nat
    BY <1>2 DEF Order
  <2> QED
    BY <1>2, <1>5, <2>1, AfterFillOK
<1> HIDE DEF q
<1>7. \A s \in Side : \A r \in DOMAIN levels[s] : QueueOK(levels[s][r], s, r, index)
  BY <1>4 DEF WellFormed
<1>8. WellFormed(SetLevel(side, price, q), index)
  BY <1>1, <1>2, <1>4, <1>6, <1>7, WellFormedStep
<1>9. NotCrossed'
  <2>1. \A s \in Side : DOMAIN levels'[s] \subseteq DOMAIN levels[s]
    BY <1>1, <1>2, <1>3, SetLevelDomain
  <2> QED
    BY <2>1, StillUncrossed DEF BookInv
<1> QED
  BY <1>3, <1>8, <1>9 DEF BookInv, BookConsistent

\* The loop ends only when nothing crosses, so resting the rest is safe.
LEMMA RestBookInv ==
  ASSUME TypeInv, BookInv, Rest
  PROVE  BookInv'
<1>1. pc = "match" /\ ~CanMatch /\ TypeOK /\ UNCHANGED ub
  BY RestFacts DEF TypeInv
<1>2. taker.type = "Limit" /\ taker.qty > 0
  BY RestFacts
<1>3. BookInv'
  <2> DEFINE side == taker.side
             p    == taker.price
             old  == IF p \in DOMAIN levels[side] THEN levels[side][p] ELSE <<>>
  <2>1. /\ taker.id \notin DOMAIN index
        /\ levels' = PushBack(taker)
        /\ index' = Put(index, taker.id, [side |-> side, price |-> p])
    BY RestFacts DEF Locate
  <2>2. taker \in Order /\ side \in Side /\ p \in Price /\ LevelsType(levels)
    BY <1>1, RestFacts DEF TypeInv, TypeOK, InFlightOK, Order
  <2>3. /\ old \in Seq(Order) /\ Append(old, taker) \in Seq(Order)
        /\ Append(old, taker) # <<>>
        /\ levels' = SetLevel(side, p, Append(old, taker))
    BY <2>1, <2>2, PushBackIsSetLevel
  <2>4. WellFormed(levels, index)
    BY <1>1 DEF TypeInv, InFlightOK, BookInv, BookConsistent
  <2>5. WellFormed(levels', index')
    <3>1. IndexType(index) /\ levels' = PushBack(taker) /\ index' = Locate(taker)
      BY <1>1, <2>1 DEF TypeOK, Locate
    <3> QED
      BY <1>2, <2>1, <2>2, <2>4, <3>1, AddedOrder
  <2>6. NotCrossed'
    <3> DEFINE opp == Opposite(side)
    <3> HIDE DEF old
    <3>1. opp \in Side /\ opp # side
      BY <2>2, OppositeSide
    <3>2. \A r \in DOMAIN levels[opp] : IF side = "Buy" THEN p < r ELSE r < p
      <4>1. CASE ~HasBest(opp)
        BY <4>1 DEF HasBest
      <4>2. CASE HasBest(opp)
        <5>1. DOMAIN levels[opp] \subseteq Price
          BY <2>2, <3>1 DEF LevelsType
        <5>2. /\ Best(opp) \in DOMAIN levels[opp]
              /\ \A r \in DOMAIN levels[opp] : ~Better(opp, r, Best(opp))
          BY <3>1, <4>2, <5>1, BestIsBest
        <5>3. ~Crosses(taker, Best(opp))
          BY <1>1, <1>2, <2>4, <3>1, <4>2, <5>2 DEF CanMatch, WellFormed
        <5>4. \A r \in DOMAIN levels[opp] : r \in Int
          BY <5>1, BookAssumption DEF Price
        <5>5. p \in Int
          BY <2>2, BookAssumption DEF Price
        <5> QED
          BY <1>2, <2>2, <5>2, <5>3, <5>4, <5>5 DEF Crosses, Better, Opposite, Side
      <4> QED
        BY <4>1, <4>2
    <3>3. levels'[opp] = levels[opp]
      <4>1. \A s \in Side : s # side =>
              SetLevel(side, p, Append(old, taker))[s] = levels[s]
        BY <2>2, <2>3, SetLevelProperties
      <4> QED
        BY <2>3, <3>1, <4>1
    <3>4. DOMAIN levels'[side] = DOMAIN levels[side] \cup {p}
      BY <2>2, <2>3, SetLevelProperties
    <3>5. \A b \in DOMAIN levels["Buy"], a \in DOMAIN levels["Sell"] : b < a
      BY DEF BookInv, NotCrossed, Uncrossed
    <3>6. CASE side = "Buy"
      BY <3>2, <3>3, <3>4, <3>5, <3>6 DEF Opposite, NotCrossed, Uncrossed
    <3>7. CASE side = "Sell"
      BY <3>2, <3>3, <3>4, <3>5, <3>7 DEF Opposite, NotCrossed, Uncrossed
    <3> QED
      BY <2>2, <3>6, <3>7 DEF Side
  <2> QED
    BY <2>5, <2>6 DEF BookInv, BookConsistent
<1> QED
  BY <1>3

\* The index may lose an id that it locates elsewhere.
LEMMA QueueOKErase ==
  ASSUME NEW queue, NEW side, NEW price, NEW ix, QueueOK(queue, side, price, ix),
         NEW id, ix[id] # [side |-> side, price |-> price]
  PROVE  QueueOK(queue, side, price, Erase(ix, id))
BY DEF QueueOK, Erase

\* Unlinking a resting order keeps the book consistent and uncrossed.
LEMMA CancelOpenBook ==
  ASSUME TypeInv, BookInv, NEW id \in OrderId, CancelOpen(id)
  PROVE  BookInv'
<1>1. TypeOK /\ LevelsType(levels) /\ ~ub /\ UNCHANGED ub
  BY DEF TypeInv, TypeOK, CancelOpen
<1>2. PICK side \in Side, price \in Price :
        /\ index[id] = [side |-> side, price |-> price]
        /\ price \in DOMAIN levels[side]
        /\ levels[side][price] \in Seq(Order)
        /\ \E i \in 1..Len(levels[side][price]) :
             /\ levels[side][price][i].id = id
             /\ levels[side][price][i] \in Order
             /\ withdrawn' = levels[side][price][i]
             /\ levels' = SetLevel(side, price, RemoveAt(levels[side][price], i))
             /\ index' = Erase(index, id)
  BY <1>1, CancelOpenFacts
<1>3. PICK i \in 1..Len(levels[side][price]) :
        /\ levels[side][price][i].id = id
        /\ levels' = SetLevel(side, price, RemoveAt(levels[side][price], i))
        /\ index' = Erase(index, id)
  BY <1>2
<1> DEFINE q == RemoveAt(levels[side][price], i)
<1>4. q \in Seq(Order)
  BY <1>2, RemoveAtProperties
<1>5. WellFormed(levels, index)
  BY <1>1 DEF BookInv, BookConsistent
<1>6. QueueOK(q, side, price, index')
  <2>1. QueueOK(levels[side][price], side, price, index)
    BY <1>2, <1>5 DEF WellFormed
  <2>2. QueueOK(q, side, price, Erase(index, levels[side][price][i].id))
    BY <1>2, <2>1, RemoveAtOK
  <2> QED
    BY <1>3, <2>2
<1> HIDE DEF q
<1>7. ASSUME NEW s \in Side, NEW r \in DOMAIN levels[s], s # side \/ r # price
      PROVE  QueueOK(levels[s][r], s, r, index')
  <2>1. QueueOK(levels[s][r], s, r, index)
    BY <1>5 DEF WellFormed
  <2>2. index[id] # [side |-> s, price |-> r]
    BY <1>2, <1>7
  <2> QED
    BY <1>3, <2>1, <2>2, QueueOKErase
<1>8. WellFormed(SetLevel(side, price, q), index')
  BY <1>1, <1>4, <1>5, <1>6, <1>7, WellFormedStep
<1>9. WellFormed(levels', index')
  BY <1>3, <1>8 DEF q
<1>10. NotCrossed'
  <2>1. \A s \in Side : DOMAIN SetLevel(side, price, q)[s] \subseteq DOMAIN levels[s]
    BY <1>1, <1>2, <1>4, SetLevelDomain
  <2>2. \A s \in Side : DOMAIN levels'[s] \subseteq DOMAIN levels[s]
    BY <1>3, <2>1 DEF q
  <2> QED
    BY <2>2, StillUncrossed DEF BookInv
<1> QED
  BY <1>9, <1>10 DEF BookInv, BookConsistent

\* Every step preserves the consistency of the book.
LEMMA BookStep == TypeInv /\ BookInv /\ [Next]_vars => BookInv'
<1> SUFFICES ASSUME TypeInv, BookInv, [Next]_vars PROVE BookInv'
  OBVIOUS
<1>1. ASSUME NEW o \in Request, Refuse(o) \/ Accept(o) PROVE BookInv'
  BY <1>1, UnchangedBook DEF Refuse, Accept, bookVars
<1>2. CASE Fill
  BY <1>2, FillBook
<1>3. CASE Rest
  BY <1>3, RestBookInv
<1>4. CASE Settle \/ Complete \/ CancelDone
  BY <1>4, UnchangedBook DEF Settle, Complete, Conclude, CancelDone, bookVars
<1>5. ASSUME NEW id \in OrderId, CancelOpen(id) PROVE BookInv'
  BY <1>5, CancelOpenBook
<1>6. ASSUME NEW id \in OrderId, CancelDangling(id) PROVE BookInv'
  <2>1. ub'
    BY <1>6 DEF CancelDangling
  <2>2. \A s \in Side : DOMAIN levels'[s] \subseteq DOMAIN levels[s]
    BY <1>6, CancelDanglingType DEF Side
  <2> QED
    BY <2>1, <2>2, StillUncrossed DEF BookInv, BookConsistent
<1>7. ASSUME NEW u \in User, Connect(u) PROVE BookInv'
  BY <1>7, UnchangedBook DEF Connect, bookVars
<1>8. CASE UNCHANGED vars
  BY <1>8, UnchangedBook DEF vars, bookVars
<1> QED
  BY <1>1, <1>2, <1>3, <1>4, <1>5, <1>6, <1>7, <1>8 DEF Next, CancelUnknown, Corrupted

\* The book is consistent and not crossed: neither is inductive alone, because
\* the loop tests for a crossing at the best price of a book whose levels are
\* not empty.
THEOREM BookInvariant == Spec => []BookInv
<1>1. TypeInv /\ BookInv /\ [Next]_vars => BookInv'
  BY BookStep
<1> QED
  BY <1>1, BookInit, TypeInvariant, PTL DEF Spec

\* As long as no filled order has been cancelled, every resting order is found
\* by the index where it rests, no level is empty and no resting quantity is 0,
\* for any number of orders, also between two fills of one sweep.
THEOREM BookAlwaysConsistent == Spec => []BookConsistent
<1>1. BookInv => BookConsistent
  BY DEF BookInv
<1> QED
  BY <1>1, BookInvariant, PTL

\* The book is never crossed.
THEOREM NeverCrossed == Spec => []NotCrossed
<1>1. BookInv => NotCrossed
  BY DEF BookInv
<1> QED
  BY <1>1, BookInvariant, PTL

-----------------------------------------------------------------------------
(* Shares. SharesSolvent counts what the order in the loop may still sell, *)
(* which makes it inductive: a sell order is admitted against the shares   *)
(* that are free, uses them up fill by fill, and locks up what it rests.   *)

Sellable(pos) == pos.shares - pos.reserved_shares

\* What each change of a position does to its free shares.
LEMMA FreeShares ==
  ASSUME NEW pos \in Position, NEW side \in Side, NEW price \in Int, NEW qty \in Int
  PROVE  /\ Sellable(pos) \in Int
         /\ side = "Buy" => /\ Sellable(Executed(pos, side, price, qty)) = Sellable(pos) + qty
                            /\ Sellable(Reserve(pos, side, price, qty)) = Sellable(pos)
                            /\ Sellable(Release(pos, side, price, qty)) = Sellable(pos)
         /\ side = "Sell" => /\ Sellable(Executed(pos, side, price, qty)) = Sellable(pos) - qty
                             /\ Sellable(Reserve(pos, side, price, qty)) = Sellable(pos) - qty
                             /\ Sellable(Release(pos, side, price, qty)) = Sellable(pos) + qty
<1>1. pos.shares \in Int /\ pos.reserved_shares \in Int
  BY DEF Position
<1>2. ASSUME NEW v \in Int
      PROVE  /\ Bought(pos, v, qty).shares = pos.shares + qty
             /\ Bought(pos, v, qty).reserved_shares = pos.reserved_shares
             /\ Sold(pos, v, qty).shares = pos.shares - qty
             /\ Sold(pos, v, qty).reserved_shares = pos.reserved_shares
  BY DEF Bought, Sold, Position
<1>3. price * qty \in Int
  OBVIOUS
<1>4. /\ side = "Buy" => Sellable(Executed(pos, side, price, qty)) = Sellable(pos) + qty
      /\ side = "Sell" => Sellable(Executed(pos, side, price, qty)) = Sellable(pos) - qty
  BY <1>1, <1>2, <1>3 DEF Executed, Sellable
<1>5. /\ side = "Buy" => /\ Reserve(pos, side, price, qty).shares = pos.shares
                         /\ Reserve(pos, side, price, qty).reserved_shares = pos.reserved_shares
                         /\ Release(pos, side, price, qty).shares = pos.shares
                         /\ Release(pos, side, price, qty).reserved_shares = pos.reserved_shares
      /\ side = "Sell" => /\ Reserve(pos, side, price, qty).shares = pos.shares
                          /\ Reserve(pos, side, price, qty).reserved_shares
                               = pos.reserved_shares + qty
                          /\ Release(pos, side, price, qty).shares = pos.shares
                          /\ Release(pos, side, price, qty).reserved_shares
                               = pos.reserved_shares - qty
  BY DEF Reserve, Release, Position
<1> QED
  BY <1>1, <1>4, <1>5 DEF Sellable

\* A fill takes free shares from nobody but the seller who is the taker.
LEMMA FillShares ==
  ASSUME TypeOK, NEW m, NEW t, NEW price \in Int, NEW qty \in Nat, NEW side \in Side,
         NEW u \in User
  PROVE  LET np == Filled(m, t, price, qty, side)
         IN  /\ Sellable(np[u]) \in Int
             /\ u # UserOf(t) \/ side = "Buy" => Sellable(np[u]) >= Sellable(positions[u])
             /\ u = UserOf(t) => Sellable(np[u]) >= Sellable(positions[u]) - qty
<1> DEFINE np == Filled(m, t, price, qty, side)
           p1 == TakerFilled(positions, UserOf(t), side, price, qty)
           mside == Opposite(side)
<1>1. /\ positions \in [User -> Position] /\ UserOf(t) \in User /\ UserOf(m) \in User
      /\ qty \in Int
  BY UserOfType DEF TypeOK
<1>2. p1 = [positions EXCEPT ![UserOf(t)] = Executed(positions[UserOf(t)], side, price, qty)]
  BY DEF TakerFilled
<1>3. p1 \in [User -> Position]
  BY <1>1, <1>2, PositionOps
<1>4. np = [p1 EXCEPT ![UserOf(m)] =
              Release(Executed(p1[UserOf(m)], mside, price, qty), mside, price, qty)]
  BY DEF Filled, MakerFilled
<1> HIDE DEF np, p1
<1>5. /\ Sellable(positions[u]) \in Int
      /\ u # UserOf(t) => p1[u] = positions[u]
      /\ u = UserOf(t) => p1[u] = Executed(positions[u], side, price, qty)
  BY <1>1, <1>2, FreeShares
<1>6. /\ Sellable(p1[u]) \in Int
      /\ u # UserOf(t) \/ side = "Buy" => Sellable(p1[u]) >= Sellable(positions[u])
      /\ u = UserOf(t) => Sellable(p1[u]) >= Sellable(positions[u]) - qty
  <2>1. Sellable(p1[u]) \in Int
    BY <1>3, FreeShares
  <2>2. CASE u # UserOf(t)
    BY <1>5, <2>1, <2>2
  <2>3. CASE u = UserOf(t)
    <3>1. positions[u] \in Position
      BY <1>1
    <3>2. /\ side = "Buy" => Sellable(p1[u]) = Sellable(positions[u]) + qty
          /\ side = "Sell" => Sellable(p1[u]) = Sellable(positions[u]) - qty
      BY <1>1, <1>5, <2>3, <3>1, FreeShares
    <3> QED
      BY <1>1, <1>5, <2>1, <2>3, <3>2 DEF Side
  <2> QED
    BY <2>2, <2>3
<1>7. Sellable(np[u]) \in Int /\ Sellable(np[u]) >= Sellable(p1[u])
  <2>1. CASE u # UserOf(m)
    BY <1>1, <1>3, <1>4, <1>6, <2>1
  <2>2. CASE u = UserOf(m)
    <3> DEFINE e == Executed(p1[u], mside, price, qty)
    <3>1. mside \in Side /\ p1[u] \in Position
      BY <1>3, OppositeSide
    <3>2. e \in Position
      BY <1>1, <3>1, PositionOps
    <3>3. /\ mside = "Buy" => Sellable(e) = Sellable(p1[u]) + qty
          /\ mside = "Sell" => Sellable(e) = Sellable(p1[u]) - qty
      BY <1>1, <3>1, FreeShares
    <3>4. np[u] = Release(e, mside, price, qty)
      BY <1>1, <1>3, <1>4, <2>2
    <3> HIDE DEF e, mside
    <3>5. /\ mside = "Buy" => Sellable(np[u]) = Sellable(e)
          /\ mside = "Sell" => Sellable(np[u]) = Sellable(e) + qty
      BY <1>1, <3>1, <3>2, <3>4, FreeShares
    <3> QED
      BY <1>6, <3>1, <3>3, <3>5 DEF Side
  <2> QED
    BY <2>1, <2>2
<1> QED
  BY <1>1, <1>5, <1>6, <1>7 DEF np

\* What a long long holds of an amount that is not negative is not above it.
LEMMA WrappedBelow ==
  ASSUME NEW n \in Int, n >= 0
  PROVE  Wrapped(n, LongMax) \in Int /\ Wrapped(n, LongMax) <= n
<1> DEFINE w == 2 * LongMax + 2
           m == n + LongMax + 1
<1>1. LongMax \in Nat
  BY UserAssumption
<1>2. m \in Nat /\ w \in Nat \ {0}
  BY <1>1
<1> HIDE DEF m, w
<1>3. m % w \in Nat /\ m % w <= m
  BY <1>2
<1> QED
  BY <1>1, <1>3 DEF m, w, Wrapped

\* A new user has nothing reserved.
LEMMA SharesInit == Init => SharesSolvent
BY UserAssumption DEF Init, UserInit, DefaultPosition, SharesSolvent, InFlight

\* A step outside the loop that changes no position keeps everybody solvent.
LEMMA UnchangedShares ==
  ASSUME SharesSolvent, {pc, pc'} \cap {"match", "rest"} = {},
         UNCHANGED <<positions, wiped, ub>>
  PROVE  SharesSolvent'
BY DEF SharesSolvent, InFlight

\* The preflight covers the whole quantity of a sell order from free shares.
LEMMA AcceptShares ==
  ASSUME TypeInv, SharesSolvent, NEW o \in Request, Accept(o)
  PROVE  SharesSolvent'
<1>1. /\ ~ub /\ ~ub' /\ pc = "idle" /\ pc' = "match" /\ taker' = o /\ UNCHANGED <<positions, wiped>>
      /\ Preflight(o) = "Ok"
  BY DEF Accept
<1>2. o \in Order /\ o.qty \in Nat /\ o.user_id \in User
  BY RequestFacts DEF Order
<1>3. ASSUME NEW u \in User \ ({0} \cup wiped)
      PROVE  positions[u].shares - positions[u].reserved_shares >= InFlight(u, "Sell")'
  <2>1. positions[u].shares - positions[u].reserved_shares >= 0
    BY <1>1 DEF SharesSolvent, InFlight
  <2>2. CASE o.user_id = u /\ o.side = "Sell"
    <3>1. ~Unfunded(o)
      BY <1>1 DEF Preflight
    <3>2. o.user_id > 0
      BY <2>2, BookAssumption
    <3> DEFINE free == positions[u].shares - positions[u].reserved_shares
    <3>3. ~(Wrapped(free, LongMax) < o.qty)
      BY <2>2, <3>1, <3>2 DEF Unfunded
    <3>4. free \in Int
      BY DEF TypeInv, TypeOK, Position
    <3> HIDE DEF free
    <3>5. Wrapped(free, LongMax) \in Int /\ Wrapped(free, LongMax) <= free
      BY <2>1, <3>4, WrappedBelow DEF free
    <3>6. free >= o.qty
      BY <1>2, <3>3, <3>4, <3>5
    <3> QED
      BY <1>1, <1>2, <2>2, <3>6 DEF InFlight, free
  <2>3. CASE ~(o.user_id = u /\ o.side = "Sell")
    BY <1>1, <2>1, <2>3 DEF InFlight
  <2> QED
    BY <2>2, <2>3
<1> QED
  BY <1>1, <1>3 DEF SharesSolvent

\* A fill takes from the free shares what it takes from the order in the loop.
LEMMA FillSharesSolvent ==
  ASSUME TypeInv, SharesSolvent, Fill
  PROVE  SharesSolvent'
<1> DEFINE side  == Opposite(taker.side)
           price == Best(side)
           queue == levels[side][price]
           maker == Head(queue)
           qty   == FillQty(taker.qty, maker.qty)
<1>1. pc = "match" /\ CanMatch /\ TypeOK
  BY DEF Fill, TypeInv
<1>2. taker \in Order /\ price \in Int /\ qty \in Nat /\ qty <= taker.qty
  BY <1>1, FillFacts
<1>3. /\ positions' = Filled(maker.id, taker.id, price, qty, taker.side)
      /\ taker' = [taker EXCEPT !.qty = @ - qty]
      /\ UNCHANGED <<pc, wiped, ub>>
  BY DEF Fill, OnFill
<1> HIDE DEF side, price, queue, maker, qty
<1>4. taker.side \in Side /\ taker.qty \in Nat
  BY <1>2 DEF Order
<1>5. /\ taker'.user_id = taker.user_id /\ taker'.side = taker.side
      /\ taker'.qty = taker.qty - qty
  BY <1>2, <1>3 DEF Order
<1>6. ~ub /\ UserOf(taker.id) = taker.user_id
  BY <1>1 DEF TypeInv, InFlightOK, UserOf
<1>7. ASSUME NEW u \in User \ ({0} \cup wiped)
      PROVE  Sellable(positions'[u]) >= InFlight(u, "Sell")'
  <2>1. Sellable(positions[u]) >= InFlight(u, "Sell")
    BY <1>6 DEF SharesSolvent, Sellable
  <2>2. /\ Sellable(positions'[u]) \in Int
        /\ u # taker.user_id \/ taker.side = "Buy" =>
             Sellable(positions'[u]) >= Sellable(positions[u])
        /\ u = taker.user_id => Sellable(positions'[u]) >= Sellable(positions[u]) - qty
    BY <1>1, <1>2, <1>3, <1>4, <1>6, FillShares
  <2>3. Sellable(positions[u]) \in Int
    BY <1>1 DEF TypeOK, Sellable, Position
  <2>4. CASE u = taker.user_id /\ taker.side = "Sell"
    BY <1>1, <1>2, <1>3, <1>4, <1>5, <2>1, <2>2, <2>3, <2>4 DEF InFlight
  <2>5. CASE u # taker.user_id
    BY <1>1, <1>3, <1>5, <2>1, <2>2, <2>3, <2>5 DEF InFlight
  <2>6. CASE taker.side = "Buy"
    BY <1>1, <1>3, <1>5, <2>1, <2>2, <2>3, <2>6 DEF InFlight
  <2> QED
    BY <1>4, <2>4, <2>5, <2>6 DEF Side
<1> QED
  BY <1>3, <1>7 DEF SharesSolvent, Sellable

\* Reserving an order that rests takes what the loop has left of it.
LEMMA SettleShares ==
  ASSUME TypeInv, SharesSolvent, Settle
  PROVE  SharesSolvent'
<1>1. pc = "rest" /\ pc' = "idle" /\ UNCHANGED <<wiped, ub>> /\ TypeOK /\ OnOrderResting(taker)
  BY DEF Settle, Conclude, TypeInv
<1>2. /\ ~ub /\ taker \in Order /\ taker.qty \in Nat /\ taker.qty \in Int
      /\ taker.side \in Side /\ taker.price \in Int
      /\ taker.id \in DOMAIN order_to_user /\ order_to_user[taker.id] = taker.user_id
  BY <1>1 DEF TypeInv, TypeOK, InFlightOK, Order
<1>3. ASSUME NEW u \in User \ ({0} \cup wiped)
      PROVE  Sellable(positions'[u]) >= 0
  <2>1. Sellable(positions[u]) >= InFlight(u, "Sell") /\ positions[u] \in Position
    BY <1>1, <1>2 DEF SharesSolvent, Sellable, TypeOK
  <2>2. Sellable(positions[u]) \in Int
    BY <2>1 DEF Sellable, Position
  <2>3. Sellable(positions[u]) >= 0
    BY <1>2, <2>1, <2>2 DEF InFlight
  <2>4. positions' = [positions EXCEPT ![taker.user_id] =
                        Reserve(positions[taker.user_id], taker.side, taker.price, taker.qty)]
    BY <1>1, <1>2 DEF OnOrderResting
  <2>5. CASE u # taker.user_id
    BY <1>1, <2>3, <2>4, <2>5 DEF TypeOK
  <2>6. CASE u = taker.user_id
    <3>1. positions'[u] = Reserve(positions[u], taker.side, taker.price, taker.qty)
      BY <1>1, <2>4, <2>6 DEF TypeOK
    <3>2. /\ taker.side = "Buy" => Sellable(positions'[u]) = Sellable(positions[u])
          /\ taker.side = "Sell" => Sellable(positions'[u]) = Sellable(positions[u]) - taker.qty
      BY <1>2, <2>1, <3>1, FreeShares
    <3> QED
      BY <1>1, <1>2, <2>1, <2>2, <2>3, <2>6, <3>2 DEF InFlight, Side
  <2> QED
    BY <2>5, <2>6
<1> QED
  BY <1>1, <1>3 DEF SharesSolvent, InFlight, Sellable

\* An order that ends without resting has nothing left to sell or drops it.
LEMMA CompleteShares ==
  ASSUME TypeInv, SharesSolvent, Complete
  PROVE  SharesSolvent'
<1>1. pc = "match" /\ pc' = "idle" /\ UNCHANGED <<positions, wiped, ub>>
  BY DEF Complete, Conclude
<1>2. taker.qty \in Nat
  BY <1>1 DEF TypeInv, TypeOK, Order
<1>3. ASSUME NEW u \in User \ ({0} \cup wiped), ~ub
      PROVE  Sellable(positions[u]) >= 0
  <2>1. Sellable(positions[u]) \in Int /\ Sellable(positions[u]) >= InFlight(u, "Sell")
    BY <1>3 DEF SharesSolvent, Sellable, TypeInv, TypeOK, Position
  <2>2. InFlight(u, "Sell") \in Nat
    BY <1>2 DEF InFlight
  <2> QED
    BY <2>1, <2>2
<1> QED
  BY <1>1, <1>3 DEF SharesSolvent, InFlight, Sellable

\* Releasing a cancelled order can only free shares.
LEMMA CancelDoneShares ==
  ASSUME TypeInv, SharesSolvent, CancelDone
  PROVE  SharesSolvent'
<1> DEFINE o == withdrawn
<1>1. /\ TypeOK /\ pc = "cancel" /\ pc' = "idle" /\ ~ub /\ UNCHANGED <<wiped, ub>>
      /\ OnCancel(o.id, o) /\ o \in Order
  BY DEF TypeInv, TypeOK, InFlightOK, CancelDone
<1> HIDE DEF o
<1>2. o.side \in Side /\ o.price \in Int /\ o.qty \in Int /\ o.qty >= 0
  BY <1>1 DEF Order
<1>3. ASSUME NEW u \in User \ ({0} \cup wiped)
      PROVE  Sellable(positions'[u]) >= 0
  <2>1. Sellable(positions[u]) >= 0 /\ positions[u] \in Position
    BY <1>1 DEF SharesSolvent, Sellable, InFlight, TypeOK
  <2>2. /\ Sellable(positions[u]) \in Int
        /\ Sellable(Release(positions[u], o.side, o.price, o.qty)) >= Sellable(positions[u])
    BY <1>2, <2>1, FreeShares DEF Side
  <2>3. positions'[u] \in {positions[u], Release(positions[u], o.side, o.price, o.qty)}
    BY <1>1 DEF OnCancel, TypeOK
  <2>4. CASE positions'[u] = positions[u]
    BY <2>1, <2>4
  <2>5. CASE positions'[u] = Release(positions[u], o.side, o.price, o.qty)
    <3>1. Release(positions[u], o.side, o.price, o.qty) \in Position
      BY <1>2, <2>1, PositionOps
    <3>2. Sellable(positions'[u]) \in Int
      BY <2>5, <3>1 DEF Sellable, Position
    <3> QED
      BY <2>1, <2>2, <2>5, <3>2
  <2> QED
    BY <2>3, <2>4, <2>5
<1> QED
  BY <1>1, <1>3 DEF SharesSolvent, InFlight, Sellable

\* Every step keeps every registered user solvent in shares.
LEMMA SharesStep == TypeInv /\ SharesSolvent /\ [Next]_vars => SharesSolvent'
<1> SUFFICES ASSUME TypeInv, SharesSolvent, [Next]_vars PROVE SharesSolvent'
  OBVIOUS
<1>1. ASSUME NEW o \in Request, Refuse(o) PROVE SharesSolvent'
  BY <1>1, UnchangedShares DEF Refuse
<1>2. ASSUME NEW o \in Request, Accept(o) PROVE SharesSolvent'
  BY <1>2, AcceptShares
<1>3. CASE Fill
  BY <1>3, FillSharesSolvent
<1>4. CASE Rest
  BY <1>4, RestFacts DEF SharesSolvent, InFlight
<1>5. CASE Settle
  BY <1>5, SettleShares
<1>6. CASE Complete
  BY <1>6, CompleteShares
<1>7. ASSUME NEW id \in OrderId, CancelOpen(id) PROVE SharesSolvent'
  BY <1>7, UnchangedShares DEF CancelOpen, userVars
<1>8. ASSUME NEW id \in OrderId, CancelDangling(id) PROVE SharesSolvent'
  BY <1>8 DEF CancelDangling, SharesSolvent
<1>9. CASE CancelDone
  BY <1>9, CancelDoneShares
<1>10. ASSUME NEW v \in User, Connect(v) PROVE SharesSolvent'
  <2>1. /\ wiped' = wiped \cup {v} /\ UNCHANGED <<pc, taker, ub>>
        /\ \A u \in User \ {v} : positions'[u] = positions[u]
    BY <1>10 DEF Connect, NextUserId, TypeInv, TypeOK
  <2> QED
    BY <2>1 DEF SharesSolvent, InFlight
<1>11. CASE UNCHANGED vars
  BY <1>11 DEF vars, userVars, SharesSolvent, InFlight
<1> QED
  BY <1>1, <1>2, <1>3, <1>4, <1>5, <1>6, <1>7, <1>8, <1>9, <1>10, <1>11
     DEF Next, CancelUnknown, Corrupted

\* As long as no filled order has been cancelled, no registered user's shares
\* fall below what his resting sell orders have reserved: preflight_check,
\* on_fill, on_order_resting and on_cancel together never oversell. Only the
\* reset of an id that was used before it was drawn takes shares away.
THEOREM NeverOversold == Spec => []SharesSolvent
<1>1. TypeInv /\ SharesSolvent /\ [Next]_vars => SharesSolvent'
  BY SharesStep
<1> QED
  BY <1>1, SharesInit, TypeInvariant, PTL DEF Spec

-----------------------------------------------------------------------------
(* Price-time priority of every trade.                                     *)

\* The only step that appends a trade is Fill, and it takes the front order of
\* the best level.
LEMMA PriorityStep ==
  ASSUME TypeInv, BookInv, [Next]_vars, Len(trades') > Len(trades),
         NEW t, t = trades'[Len(trades')],
         NEW side, side = Opposite(taker.side)
  PROVE  /\ t.price \in DOMAIN levels[side]
         /\ levels[side][t.price][1].id = t.maker_id
         /\ \A p \in DOMAIN levels[side] :
              IF side = "Buy" THEN p <= t.price ELSE t.price <= p
         /\ taker.type = "Limit" =>
              IF side = "Buy" THEN taker.price <= t.price ELSE t.price <= taker.price
         /\ 0 < t.qty /\ t.qty <= taker.qty
<1>1. trades \in Seq(Trade) /\ Len(trades) \in Nat /\ TypeOK
  BY LenProperties DEF TypeInv, TypeOK
<1>2. Fill
  <2>1. ~UNCHANGED trades
    BY <1>1
  <2>2. trades' # <<>>
    BY <1>1
  <2> QED
    BY <2>1, <2>2 DEF Next, vars, Refuse, Accept, Rest, EnterBook, Settle, Complete, Conclude,
                      CancelUnknown, CancelOpen, CancelDangling, CancelDone, Connect, Corrupted
<1> DEFINE price == Best(side)
           queue == levels[side][price]
           maker == Head(queue)
           qty   == FillQty(taker.qty, maker.qty)
<1>3. pc = "match" /\ CanMatch
  BY <1>2 DEF Fill
<1>4. /\ side \in Side /\ taker \in Order /\ price \in DOMAIN levels[side] /\ price \in Int
      /\ \A r \in DOMAIN levels[side] : ~Better(side, r, price)
      /\ Crosses(taker, price)
      /\ queue \in Seq(Order) /\ queue # <<>> /\ maker = queue[1]
      /\ qty \in Nat /\ qty <= taker.qty /\ (maker.qty > 0 => qty > 0)
  BY <1>1, <1>3, FillFacts
<1>5. t = [maker_id |-> maker.id, taker_id |-> taker.id,
           maker_user_id |-> UserOf(maker.id), taker_user_id |-> taker.user_id,
           price |-> price, qty |-> qty]
  <2> DEFINE rec == [maker_id |-> maker.id, taker_id |-> taker.id,
                     maker_user_id |-> UserOf(maker.id),
                     taker_user_id |-> taker.user_id,
                     price |-> price, qty |-> qty]
  <2>1. trades' = Append(trades, rec)
    BY <1>2 DEF Fill
  <2> HIDE DEF rec
  <2>2. trades \in Seq(Trade \cup {rec}) /\ rec \in Trade \cup {rec}
    BY <1>1
  <2>3. Len(trades') = Len(trades) + 1 /\ trades'[Len(trades) + 1] = rec
    BY <2>1, <2>2, AppendProperties
  <2> QED
    BY <2>3 DEF rec
<1>6. t.maker_id = maker.id /\ t.price = price /\ t.qty = qty
  BY <1>5
<1>7. maker.qty > 0
  <2>1. QueueOK(queue, side, price, index)
    BY <1>3, <1>4 DEF TypeInv, InFlightOK, BookInv, BookConsistent, WellFormed
  <2>2. 1 \in DOMAIN queue
    BY <1>4, LenProperties, EmptySeq
  <2> QED
    BY <1>4, <2>1, <2>2 DEF QueueOK
<1> HIDE DEF price, queue, maker, qty
<1>8. DOMAIN levels[side] \subseteq Int
  BY <1>1, <1>4, BookAssumption DEF TypeOK, LevelsType, Price
<1>9. \A p \in DOMAIN levels[side] : IF side = "Buy" THEN p <= price ELSE price <= p
  BY <1>4, <1>8 DEF Better
<1>10. taker.type = "Limit" =>
         IF side = "Buy" THEN taker.price <= price ELSE price <= taker.price
  BY <1>4 DEF Crosses, Opposite, Order, Side
<1>11. levels[side][price][1].id = maker.id
  BY <1>4 DEF queue
<1> QED
  BY <1>4, <1>6, <1>7, <1>9, <1>10, <1>11

\* Every trade is with the order that has the best price on its side and
\* arrived first at that price, at that price, within the taker's limit and for
\* a positive quantity no larger than the taker has left.
THEOREM TradesHavePriority == Spec => PriceTimePriority
<1>1. TypeInv /\ BookInv /\ [Next]_vars =>
        [Len(trades') > Len(trades) =>
           LET t    == trades'[Len(trades')]
               side == Opposite(taker.side)
           IN  /\ t.price \in DOMAIN levels[side]
               /\ levels[side][t.price][1].id = t.maker_id
               /\ \A p \in DOMAIN levels[side] :
                    IF side = "Buy" THEN p <= t.price ELSE t.price <= p
               /\ taker.type = "Limit" =>
                    IF side = "Buy" THEN taker.price <= t.price ELSE t.price <= taker.price
               /\ 0 < t.qty /\ t.qty <= taker.qty]_vars
  BY PriorityStep
<1> QED
  BY <1>1, TypeInvariant, BookInvariant, PTL DEF Spec, PriceTimePriority

-----------------------------------------------------------------------------
(* Owners. The engine knows the owner of an order twice: user_id travels   *)
(* with the order, and order_to_user_ is asked by id.                      *)

OwnersAgree ==
  ub \/ \A side \in Side : \A p \in DOMAIN levels[side] : \A i \in DOMAIN levels[side][p] :
          levels[side][p][i].user_id = UserOf(levels[side][p][i].id)

\* The same for the order that is being cancelled, which had a price of the book.
WithdrawnAgrees ==
  pc = "cancel" => withdrawn.user_id = UserOf(withdrawn.id) /\ withdrawn.price \in Price

\* Storing a level whose orders agree.
LEMMA OwnersSetLevel ==
  ASSUME LevelsType(levels), OwnersAgree, ~ub, UNCHANGED order_to_user,
         NEW side \in Side, NEW p \in Price, NEW q \in Seq(Order),
         \A i \in DOMAIN q : q[i].user_id = UserOf(q[i].id),
         levels' = SetLevel(side, p, q)
  PROVE  OwnersAgree'
<1>1. /\ \A s \in Side : s # side => levels'[s] = levels[s]
      /\ q = <<>> => DOMAIN levels'[side] = DOMAIN levels[side] \ {p}
      /\ q # <<>> => DOMAIN levels'[side] = DOMAIN levels[side] \cup {p}
      /\ q # <<>> => levels'[side][p] = q
      /\ \A r \in DOMAIN levels'[side] : r # p => levels'[side][r] = levels[side][r]
  BY SetLevelProperties
<1>2. \A id : UserOf(id)' = UserOf(id)
  BY DEF UserOf
<1>3. ASSUME NEW s \in Side, NEW r \in DOMAIN levels'[s], NEW i \in DOMAIN levels'[s][r]
      PROVE  levels'[s][r][i].user_id = UserOf(levels'[s][r][i].id)
  <2>1. CASE s = side /\ r = p
    BY <1>1, <1>3, <2>1
  <2>2. CASE s = side /\ r # p
    BY <1>1, <1>3, <2>2 DEF OwnersAgree
  <2>3. CASE s # side
    BY <1>1, <1>3, <2>3 DEF OwnersAgree
  <2> QED
    BY <2>1, <2>2, <2>3
<1> QED
  BY <1>2, <1>3 DEF OwnersAgree

LEMMA OwnersInit == Init => OwnersAgree
BY SeedAssumption DEF Init, UserInit, UserOf, OwnersAgree, Seeded, OfSystem

\* Registering an id changes the owner of no order that rests: the ids handed
\* out are not in the index before they are registered.
LEMMA OwnersRegister ==
  ASSUME TypeInv, BookInv, OwnersAgree, NEW o \in Request, Refuse(o) \/ Accept(o)
  PROVE  OwnersAgree'
<1>1. /\ ~ub /\ UNCHANGED <<levels, index, ub>>
      /\ o.id \notin DOMAIN order_to_user
      /\ order_to_user' = Put(order_to_user, o.id, o.user_id)
  BY DEF Refuse, Accept, RegisterOrder, bookVars
<1>2. o.id \notin DOMAIN index
  BY <1>1, RequestFacts DEF TypeInv, InFlightOK
<1>3. ASSUME NEW side \in Side, NEW p \in DOMAIN levels[side], NEW i \in DOMAIN levels[side][p]
      PROVE  levels[side][p][i].id # o.id
  <2>1. QueueOK(levels[side][p], side, p, index)
    BY <1>1 DEF BookInv, BookConsistent, WellFormed
  <2> QED
    BY <1>2, <2>1 DEF QueueOK
<1>4. \A id : id # o.id => UserOf(id)' = UserOf(id)
  BY <1>1 DEF UserOf, Put
<1> QED
  BY <1>1, <1>3, <1>4 DEF OwnersAgree

LEMMA OwnersFill ==
  ASSUME TypeInv, OwnersAgree, Fill
  PROVE  OwnersAgree'
<1> DEFINE side  == Opposite(taker.side)
           price == Best(side)
           queue == levels[side][price]
           maker == Head(queue)
           qty   == FillQty(taker.qty, maker.qty)
           left  == maker.qty - qty
<1>1. /\ pc = "match" /\ CanMatch /\ TypeOK /\ ~ub /\ LevelsType(levels)
      /\ levels' = SetLevel(side, price, AfterFill(queue, left))
      /\ UNCHANGED order_to_user
  <2>1. pc = "match" /\ CanMatch
    BY DEF Fill
  <2>2. /\ levels' = SetLevel(side, price, AfterFill(queue, left))
        /\ UNCHANGED <<order_to_user, ub>>
    BY DEF Fill
  <2> QED
    BY <2>1, <2>2 DEF TypeInv, TypeOK, InFlightOK
<1>2. /\ side \in Side /\ price \in Price /\ price \in DOMAIN levels[side]
      /\ queue \in Seq(Order) /\ queue # <<>>
      /\ AfterFill(queue, left) \in Seq(Order)
  BY <1>1, FillFacts
<1>3. \A i \in DOMAIN queue : queue[i].user_id = UserOf(queue[i].id)
  BY <1>1, <1>2 DEF OwnersAgree
<1> HIDE DEF side, price, queue, left
<1>4. \A i \in DOMAIN AfterFill(queue, left) :
        AfterFill(queue, left)[i].user_id = UserOf(AfterFill(queue, left)[i].id)
  <2>1. DOMAIN queue = 1..Len(queue) /\ Len(queue) \in Nat \ {0}
    BY <1>2, LenProperties, EmptySeq
  <2>2. CASE left = 0
    <3>1. /\ DOMAIN Tail(queue) = 1..(Len(queue) - 1)
          /\ \A k \in 1..(Len(queue) - 1) : Tail(queue)[k] = queue[k + 1]
      BY <1>2, HeadTailProperties, LenProperties
    <3>2. \A k \in 1..(Len(queue) - 1) : k + 1 \in 1..Len(queue)
      BY <2>1
    <3> QED
      BY <1>3, <2>1, <2>2, <3>1, <3>2 DEF AfterFill
  <2>3. CASE left # 0
    <3> DEFINE nq == [queue EXCEPT ![1].qty = left]
    <3>1. 1 \in DOMAIN queue /\ queue[1] \in Order
      BY <1>2, <2>1, ElementOfSeq
    <3>2. /\ DOMAIN nq = DOMAIN queue
          /\ nq[1] = [queue[1] EXCEPT !.qty = left]
          /\ \A k \in DOMAIN queue : k # 1 => nq[k] = queue[k]
      BY <1>2, <3>1, LenProperties
    <3>3. nq[1].id = queue[1].id /\ nq[1].user_id = queue[1].user_id
      BY <3>1, <3>2 DEF Order
    <3>4. AfterFill(queue, left) = nq
      BY <2>3 DEF AfterFill
    <3> HIDE DEF nq
    <3> QED
      BY <1>3, <3>2, <3>3, <3>4
  <2> QED
    BY <2>2, <2>3
<1> QED
  BY <1>1, <1>2, <1>4, OwnersSetLevel

\* An order that rests is registered to its user since it was accepted.
LEMMA OwnersRest ==
  ASSUME TypeInv, OwnersAgree, Rest
  PROVE  OwnersAgree'
<1> DEFINE side == taker.side
           p    == taker.price
           old  == IF p \in DOMAIN levels[side] THEN levels[side][p] ELSE <<>>
<1>1. /\ ~ub /\ UNCHANGED <<order_to_user, ub>> /\ LevelsType(levels)
      /\ taker \in Order /\ UserOf(taker.id) = taker.user_id
      /\ levels' = PushBack(taker) /\ side \in Side /\ p \in Price
  BY RestFacts DEF TypeInv, TypeOK, InFlightOK, UserOf
<1>2. /\ old \in Seq(Order) /\ Append(old, taker) \in Seq(Order)
      /\ levels' = SetLevel(side, p, Append(old, taker))
  BY <1>1, PushBackIsSetLevel
<1>3. \A i \in DOMAIN old : old[i].user_id = UserOf(old[i].id)
  BY <1>1, EmptySeq, LenProperties DEF OwnersAgree
<1> HIDE DEF old
<1>4. /\ DOMAIN Append(old, taker) = 1..(Len(old) + 1) /\ DOMAIN old = 1..Len(old)
      /\ \A k \in 1..Len(old) : Append(old, taker)[k] = old[k]
      /\ Append(old, taker)[Len(old) + 1] = taker
  BY <1>1, <1>2, AppendProperties, LenProperties
<1>5. \A i \in DOMAIN Append(old, taker) :
        Append(old, taker)[i].user_id = UserOf(Append(old, taker)[i].id)
  <2>1. Len(old) \in Nat
    BY <1>2, LenProperties
  <2>2. \A i \in 1..(Len(old) + 1) : i \in 1..Len(old) \/ i = Len(old) + 1
    BY <2>1
  <2> QED
    BY <1>1, <1>3, <1>4, <2>2
<1> HIDE DEF side, p
<1> QED
  BY <1>1, <1>2, <1>5, OwnersSetLevel

LEMMA OwnersCancel ==
  ASSUME TypeInv, BookInv, OwnersAgree, NEW id \in OrderId, CancelOpen(id)
  PROVE  OwnersAgree' /\ WithdrawnAgrees'
<1>1. TypeOK /\ LevelsType(levels) /\ ~ub /\ UNCHANGED order_to_user
  BY DEF TypeInv, TypeOK, CancelOpen, userVars
<1>2. PICK side \in Side, p \in Price :
        /\ index[id] = [side |-> side, price |-> p]
        /\ p \in DOMAIN levels[side]
        /\ levels[side][p] \in Seq(Order)
        /\ \E i \in 1..Len(levels[side][p]) :
             /\ levels[side][p][i].id = id
             /\ levels[side][p][i] \in Order
             /\ withdrawn' = levels[side][p][i]
             /\ levels' = SetLevel(side, p, RemoveAt(levels[side][p], i))
             /\ index' = Erase(index, id)
  BY <1>1, CancelOpenFacts
<1>3. PICK i \in 1..Len(levels[side][p]) :
        /\ withdrawn' = levels[side][p][i]
        /\ levels' = SetLevel(side, p, RemoveAt(levels[side][p], i))
  BY <1>2
<1> DEFINE old == levels[side][p]
           q   == RemoveAt(old, i)
<1>4. /\ q \in Seq(Order) /\ Len(q) = Len(old) - 1
      /\ \A k \in 1..(Len(old) - 1) : q[k] = IF k < i THEN old[k] ELSE old[k + 1]
  BY <1>2, RemoveAtProperties
<1>5. \A k \in DOMAIN old : old[k].user_id = UserOf(old[k].id)
  BY <1>1, <1>2 DEF OwnersAgree
<1>6. DOMAIN old = 1..Len(old) /\ Len(old) \in Nat /\ DOMAIN q = 1..(Len(old) - 1)
  BY <1>2, <1>4, LenProperties
<1>7. levels' = SetLevel(side, p, q)
  BY <1>3
<1>10. WithdrawnAgrees'
  <2>1. QueueOK(old, side, p, index)
    BY <1>1, <1>2 DEF BookInv, BookConsistent, WellFormed
  <2>2. old[i].price = p
    BY <1>6, <2>1 DEF QueueOK
  <2> QED
    BY <1>1, <1>3, <1>5, <1>6, <2>2 DEF WithdrawnAgrees, UserOf
<1> HIDE DEF old, q
<1>8. \A k \in 1..(Len(old) - 1) : k \in 1..Len(old) /\ k + 1 \in 1..Len(old)
  BY <1>6
<1>9. \A k \in DOMAIN q : q[k].user_id = UserOf(q[k].id)
  BY <1>4, <1>5, <1>6, <1>8
<1> QED
  BY <1>1, <1>2, <1>4, <1>7, <1>9, <1>10, OwnersSetLevel

LEMMA OwnersStep ==
  TypeInv /\ BookInv /\ OwnersAgree /\ WithdrawnAgrees /\ [Next]_vars
    => OwnersAgree' /\ WithdrawnAgrees'
<1> SUFFICES ASSUME TypeInv, BookInv, OwnersAgree, WithdrawnAgrees, [Next]_vars
             PROVE  OwnersAgree' /\ WithdrawnAgrees'
  OBVIOUS
<1>1. ASSUME NEW o \in Request, Refuse(o) \/ Accept(o) PROVE OwnersAgree' /\ WithdrawnAgrees'
  BY <1>1, OwnersRegister DEF Refuse, Accept, WithdrawnAgrees
<1>2. CASE Fill
  BY <1>2, OwnersFill DEF Fill, WithdrawnAgrees
<1>3. CASE Rest
  BY <1>3, OwnersRest, RestFacts DEF WithdrawnAgrees
<1>4. CASE Settle \/ Complete \/ CancelDone
  <2>1. pc' = "idle" /\ UNCHANGED <<levels, order_to_user, ub>>
    BY <1>4 DEF Settle, Complete, Conclude, CancelDone, bookVars
  <2> QED
    BY <2>1 DEF OwnersAgree, UserOf, WithdrawnAgrees
<1>5. ASSUME NEW id \in OrderId, CancelOpen(id) PROVE OwnersAgree' /\ WithdrawnAgrees'
  BY <1>5, OwnersCancel
<1>6. ASSUME NEW id \in OrderId, CancelDangling(id) PROVE OwnersAgree' /\ WithdrawnAgrees'
  BY <1>6 DEF CancelDangling, OwnersAgree, WithdrawnAgrees
<1>7. ASSUME NEW u \in User, Connect(u) PROVE OwnersAgree' /\ WithdrawnAgrees'
  BY <1>7 DEF Connect, NextUserId, bookVars, OwnersAgree, UserOf, WithdrawnAgrees
<1>8. CASE UNCHANGED vars
  BY <1>8 DEF vars, bookVars, userVars, OwnersAgree, UserOf, WithdrawnAgrees
<1> QED
  BY <1>1, <1>2, <1>3, <1>4, <1>5, <1>6, <1>7, <1>8 DEF Next, CancelUnknown, Corrupted

\* Whom a resting order, or one that is being cancelled, says it belongs to is
\* whom get_user_for_order names, so what on_order_resting reserved for one user
\* is released for the same one.
THEOREM OwnersAlwaysAgree == Spec => [](OwnersAgree /\ WithdrawnAgrees)
<1>1. Init => OwnersAgree /\ WithdrawnAgrees
  BY OwnersInit DEF Init, WithdrawnAgrees
<1> QED
  BY <1>1, OwnersStep, TypeInvariant, BookInvariant, PTL DEF Spec

-----------------------------------------------------------------------------
(* The feed.                                                               *)

\* Until the first fill of an order, and once it rests, the feed shows the book;
\* the batch of trades is what makes process_order send it again.
FeedInv == /\ pc \in {"idle", "cancel"} => trades = <<>>
           /\ pc = "rest" \/ trades = <<>> => feed = levels

LEMMA FeedStep == TypeInv /\ FeedInv /\ [Next]_vars => FeedInv'
<1> SUFFICES ASSUME TypeInv, FeedInv, [Next]_vars PROVE FeedInv'
  OBVIOUS
<1>1. ASSUME NEW o \in Request, Refuse(o) \/ Accept(o) PROVE FeedInv'
  BY <1>1 DEF Refuse, Accept, FeedInv, bookVars
<1>2. CASE Fill
  <2>1. pc = "match" /\ UNCHANGED pc /\ \E t : trades' = Append(trades, t)
    BY <1>2 DEF Fill
  <2>2. trades \in Seq(Trade)
    BY DEF TypeInv, TypeOK
  <2>3. trades' # <<>>
    BY <2>1, <2>2
  <2> QED
    BY <2>1, <2>3 DEF FeedInv
<1>3. CASE Rest
  BY <1>3, RestFacts DEF FeedInv
<1>4. CASE Settle
  BY <1>4 DEF Settle, Conclude, bookVars, FeedInv
<1>5. CASE Complete
  BY <1>5 DEF Complete, Conclude, Broadcast, bookVars, FeedInv
<1>6. ASSUME NEW id \in OrderId, CancelOpen(id) \/ CancelDangling(id) PROVE FeedInv'
  BY <1>6 DEF CancelOpen, CancelDangling, FeedInv
<1>7. CASE CancelDone
  BY <1>7 DEF CancelDone, bookVars, FeedInv
<1>8. ASSUME NEW u \in User, Connect(u) PROVE FeedInv'
  BY <1>8 DEF Connect, bookVars, FeedInv
<1>9. CASE UNCHANGED vars
  BY <1>9 DEF vars, bookVars, FeedInv
<1> QED
  BY <1>1, <1>2, <1>3, <1>4, <1>5, <1>6, <1>7, <1>8, <1>9 DEF Next, CancelUnknown, Corrupted

\* Whoever listens has the book as it is between two operations: no path through
\* process_order or cancel_order changes it without notify_change.
THEOREM FeedAlwaysCurrent == Spec => []FeedCurrent
<1>1. Init => FeedInv
  BY DEF Init, FeedInv
<1>2. TypeInv /\ FeedInv /\ [Next]_vars => FeedInv'
  BY FeedStep
<1>3. FeedInv => FeedCurrent
  BY DEF FeedInv, FeedCurrent
<1> QED
  BY <1>1, <1>2, <1>3, TypeInvariant, PTL DEF Spec

-----------------------------------------------------------------------------
(* The queues.                                                             *)

\* New's orders were in this order in old, or behind all of old.
InTurn(new, old) ==
  \A i, j \in DOMAIN new : i < j =>
    \A l \in DOMAIN old : old[l].id = new[j].id =>
      \E k \in DOMAIN old : k < l /\ old[k].id = new[i].id

\* The ids of a queue are all different.
Distinct(queue) == \A i, j \in DOMAIN queue : queue[i].id = queue[j].id => i = j

\* A queue that leaves out one position of a queue of different ids.
LEMMA InTurnShift ==
  ASSUME NEW old \in Seq(Order), Distinct(old), NEW new \in Seq(Order), NEW c \in Int,
         Len(old) >= Len(new),
         \A k \in 1..Len(new) : k < c => new[k].id = old[k].id,
         \A k \in 1..Len(new) : k >= c => k + 1 \in 1..Len(old) /\ new[k].id = old[k + 1].id
  PROVE  InTurn(new, old)
<1>1. /\ DOMAIN old = 1..Len(old) /\ Len(old) \in Nat
      /\ DOMAIN new = 1..Len(new) /\ Len(new) \in Nat
  BY LenProperties
<1> SUFFICES ASSUME NEW i \in DOMAIN new, NEW j \in DOMAIN new, i < j,
                    NEW l \in DOMAIN old, old[l].id = new[j].id
             PROVE  \E k \in DOMAIN old : k < l /\ old[k].id = new[i].id
  BY DEF InTurn
<1> DEFINE at(k) == IF k < c THEN k ELSE k + 1
<1>2. \A k \in 1..Len(new) : at(k) \in 1..Len(old) /\ new[k].id = old[at(k)].id
  BY <1>1
<1>3. i \in Int /\ j \in Int /\ at(i) < at(j)
  BY <1>1
<1> HIDE DEF at
<1>4. at(j) \in 1..Len(old) /\ old[at(j)].id = old[l].id
  BY <1>1, <1>2
<1>5. at(j) = l
  BY <1>1, <1>4 DEF Distinct
<1> QED
  BY <1>1, <1>2, <1>3, <1>5

LEMMA Below ==
  ASSUME NEW m \in Nat, NEW n \in Nat, NEW i \in 1..m, NEW j \in 1..n, i < j
  PROVE  i \in 1..n
OBVIOUS

\* A queue that kept its ids, with at most one more behind them.
LEMMA InTurnAppend ==
  ASSUME NEW old \in Seq(Order), Distinct(old), NEW new \in Seq(Order),
         \A k \in 1..Len(old) : new[k].id = old[k].id,
         \/ Len(new) = Len(old)
         \/ Len(new) = Len(old) + 1 /\ \A k \in DOMAIN old : old[k].id # new[Len(new)].id
  PROVE  InTurn(new, old)
<1>1. /\ DOMAIN old = 1..Len(old) /\ Len(old) \in Nat
      /\ DOMAIN new = 1..Len(new) /\ Len(new) \in Nat
  BY LenProperties
<1> SUFFICES ASSUME NEW i \in DOMAIN new, NEW j \in DOMAIN new, i < j,
                    NEW l \in DOMAIN old, old[l].id = new[j].id
             PROVE  \E k \in DOMAIN old : k < l /\ old[k].id = new[i].id
  BY DEF InTurn
<1>2. j \in 1..Len(old)
  <2>1. CASE Len(new) = Len(old)
    BY <1>1, <2>1
  <2>2. CASE Len(new) = Len(old) + 1 /\ \A k \in DOMAIN old : old[k].id # new[Len(new)].id
    <3> DEFINE n == Len(old)
    <3>1. j # n + 1 /\ j \in 1..(n + 1) /\ n \in Nat
      BY <1>1, <2>2
    <3> HIDE DEF n
    <3>2. j \in 1..n
      BY <3>1
    <3> QED
      BY <3>2 DEF n
  <2> QED
    BY <2>1, <2>2
<1>3. j = l
  BY <1>1, <1>2 DEF Distinct
<1>4. i \in 1..Len(old)
  <2>1. i \in 1..Len(new)
    BY <1>1
  <2> QED
    BY <1>1, <1>2, <2>1, Below
<1> QED
  BY <1>1, <1>3, <1>4

\* It is enough to look at the level that was stored.
LEMMA InTurnSetLevel ==
  ASSUME LevelsType(levels), WellFormed(levels, index),
         NEW side \in Side, NEW p \in Price, NEW q \in Seq(Order),
         levels' = SetLevel(side, p, q),
         q # <<>> => InTurn(q, IF p \in DOMAIN levels[side] THEN levels[side][p] ELSE <<>>)
  PROVE  \A s \in Side : \A r \in DOMAIN levels'[s] :
           InTurn(levels'[s][r], IF r \in DOMAIN levels[s] THEN levels[s][r] ELSE <<>>)
<1>1. /\ \A s \in Side : s # side => levels'[s] = levels[s]
      /\ q = <<>> => DOMAIN levels'[side] = DOMAIN levels[side] \ {p}
      /\ q # <<>> => DOMAIN levels'[side] = DOMAIN levels[side] \cup {p}
      /\ q # <<>> => levels'[side][p] = q
      /\ \A r \in DOMAIN levels'[side] : r # p => levels'[side][r] = levels[side][r]
  BY SetLevelProperties
<1>2. \A s \in Side : \A r \in DOMAIN levels[s] : InTurn(levels[s][r], levels[s][r])
  <2> SUFFICES ASSUME NEW s \in Side, NEW r \in DOMAIN levels[s]
               PROVE  InTurn(levels[s][r], levels[s][r])
    OBVIOUS
  <2>1. levels[s][r] \in Seq(Order) /\ Distinct(levels[s][r])
    BY DEF LevelsType, WellFormed, QueueOK, Distinct
  <2> QED
    BY <2>1, InTurnAppend
<1>3. ASSUME NEW s \in Side, NEW r \in DOMAIN levels'[s]
      PROVE  InTurn(levels'[s][r], IF r \in DOMAIN levels[s] THEN levels[s][r] ELSE <<>>)
  <2>1. CASE s = side /\ r = p
    BY <1>1, <1>3, <2>1
  <2>2. CASE s # side \/ r # p
    <3>1. r \in DOMAIN levels[s] /\ levels'[s][r] = levels[s][r]
      BY <1>1, <1>3, <2>2
    <3> QED
      BY <1>2, <3>1
  <2> QED
    BY <2>1, <2>2
<1> QED
  BY <1>3

\* The front order leaves, or stays with less.
LEMMA FillInTurn ==
  ASSUME NEW queue \in Seq(Order), queue # <<>>, Distinct(queue), NEW left \in Nat,
         AfterFill(queue, left) \in Seq(Order)
  PROVE  InTurn(AfterFill(queue, left), queue)
<1>1. DOMAIN queue = 1..Len(queue) /\ Len(queue) \in Nat \ {0}
  BY LenProperties, EmptySeq
<1>2. CASE left = 0
  <2> DEFINE rest == Tail(queue)
  <2>1. AfterFill(queue, left) = rest
    BY <1>2 DEF AfterFill
  <2>2. /\ rest \in Seq(Order) /\ Len(rest) = Len(queue) - 1
        /\ \A k \in 1..(Len(queue) - 1) : rest[k] = queue[k + 1]
    BY HeadTailProperties
  <2> HIDE DEF rest
  <2>3. \A k \in 1..Len(rest) : ~(k < 0) /\ k + 1 \in 1..Len(queue) /\ rest[k].id = queue[k + 1].id
    BY <1>1, <2>2
  <2>4. Len(queue) >= Len(rest)
    BY <1>1, <2>2
  <2> QED
    BY <2>1, <2>2, <2>3, <2>4, 0 \in Int, InTurnShift
<1>3. CASE left # 0
  <2> DEFINE nq == [queue EXCEPT ![1].qty = left]
  <2>1. 1 \in DOMAIN queue /\ queue[1] \in Order /\ AfterFill(queue, left) = nq
    BY <1>1, <1>3, ElementOfSeq DEF AfterFill
  <2>2. /\ DOMAIN nq = DOMAIN queue
        /\ nq[1] = [queue[1] EXCEPT !.qty = left]
        /\ \A k \in DOMAIN queue : k # 1 => nq[k] = queue[k]
    BY <2>1, LenProperties
  <2>3. nq[1].id = queue[1].id
    BY <2>1, <2>2 DEF Order
  <2> HIDE DEF nq
  <2>4. nq \in Seq(Order)
    BY <2>1
  <2>5. Len(nq) = Len(queue)
    BY <1>1, <2>2, <2>4, LenProperties
  <2>6. \A k \in 1..Len(queue) : nq[k].id = queue[k].id
    BY <1>1, <2>2, <2>3
  <2> QED
    BY <2>1, <2>4, <2>5, <2>6, InTurnAppend
<1> QED
  BY <1>2, <1>3

LEMMA TurnStep ==
  ASSUME TypeInv, BookInv, Next, ~ub'
  PROVE  \A s \in Side : \A r \in DOMAIN levels'[s] :
           InTurn(levels'[s][r], IF r \in DOMAIN levels[s] THEN levels[s][r] ELSE <<>>)
<1> DEFINE Goal == \A s \in Side : \A r \in DOMAIN levels'[s] :
             InTurn(levels'[s][r], IF r \in DOMAIN levels[s] THEN levels[s][r] ELSE <<>>)
<1>1. ASSUME ~ub PROVE WellFormed(levels, index) /\ LevelsType(levels) /\ TypeOK
  BY <1>1 DEF BookInv, BookConsistent, TypeInv, TypeOK
<1>2. ASSUME NEW side \in Side, NEW p \in DOMAIN levels[side], ~ub
      PROVE  levels[side][p] \in Seq(Order) /\ Distinct(levels[side][p]) /\ p \in Price
             /\ \A k \in DOMAIN levels[side][p] : levels[side][p][k].id \in DOMAIN index
  BY <1>1, <1>2 DEF LevelsType, WellFormed, QueueOK, Distinct
<1>3. ASSUME UNCHANGED levels, ~ub PROVE Goal
  <2>1. \A s \in Side : \A r \in DOMAIN levels[s] : InTurn(levels[s][r], levels[s][r])
    BY <1>2, <1>3, InTurnAppend
  <2> QED
    BY <1>3, <2>1
<1>4. ASSUME NEW o \in Request, Refuse(o) \/ Accept(o) PROVE Goal
  <2>1. UNCHANGED levels /\ ~ub
    BY <1>4 DEF Refuse, Accept, bookVars
  <2> QED
    BY <1>3, <2>1
<1>5. CASE Fill
  <2> DEFINE side  == Opposite(taker.side)
             price == Best(side)
             queue == levels[side][price]
             maker == Head(queue)
             qty   == FillQty(taker.qty, maker.qty)
             q     == AfterFill(queue, maker.qty - qty)
  <2>1. pc = "match" /\ CanMatch /\ ~ub
    BY <1>5 DEF Fill, TypeInv, InFlightOK
  <2>2. /\ side \in Side /\ price \in DOMAIN levels[side] /\ price \in Price
        /\ queue \in Seq(Order) /\ queue # <<>> /\ q \in Seq(Order)
        /\ maker \in Order /\ qty \in Nat /\ qty <= maker.qty
    BY <1>1, <2>1, FillFacts
  <2>3. levels' = SetLevel(side, price, q) /\ UNCHANGED <<index, ub>>
    BY <1>5 DEF Fill
  <2>4. Distinct(queue)
    BY <1>2, <2>1, <2>2
  <2> HIDE DEF side, price, queue, maker, qty
  <2>5. maker.qty - qty \in Nat
    BY <2>2 DEF Order
  <2>6. InTurn(q, queue)
    BY <2>2, <2>4, <2>5, FillInTurn
  <2> HIDE DEF q
  <2> QED
    BY <1>1, <2>1, <2>2, <2>3, <2>6, InTurnSetLevel DEF queue
<1>6. CASE Rest
  <2> DEFINE side == taker.side
             p    == taker.price
             old  == IF p \in DOMAIN levels[side] THEN levels[side][p] ELSE <<>>
  <2>1. /\ ~ub /\ taker.id \notin DOMAIN index /\ levels' = PushBack(taker)
        /\ taker \in Order /\ side \in Side /\ p \in Price
    BY <1>6, RestFacts
  <2>2. /\ old \in Seq(Order) /\ Append(old, taker) \in Seq(Order)
        /\ Len(Append(old, taker)) = Len(old) + 1
        /\ levels' = SetLevel(side, p, Append(old, taker))
    BY <1>1, <2>1, PushBackIsSetLevel
  <2>3. Distinct(old) /\ \A k \in DOMAIN old : old[k].id # taker.id
    <3>1. CASE p \in DOMAIN levels[side]
      BY <1>2, <2>1, <3>1
    <3>2. CASE p \notin DOMAIN levels[side]
      BY <3>2 DEF Distinct
    <3> QED
      BY <3>1, <3>2
  <2> HIDE DEF old
  <2>4. /\ \A k \in 1..Len(old) : Append(old, taker)[k] = old[k]
        /\ Append(old, taker)[Len(old) + 1] = taker
    BY <2>1, <2>2, AppendProperties
  <2>5. InTurn(Append(old, taker), old)
    BY <2>2, <2>3, <2>4, InTurnAppend
  <2> HIDE DEF side, p
  <2> QED
    BY <1>1, <2>1, <2>2, <2>5, InTurnSetLevel DEF old
<1>7. CASE \/ Settle \/ Complete \/ CancelDone
           \/ \E u \in User : Connect(u)
           \/ \E id \in OrderId : CancelUnknown(id)
  <2>1. UNCHANGED <<levels, ub>>
    BY <1>7 DEF Settle, Complete, Conclude, CancelDone, Connect, CancelUnknown, vars, bookVars
  <2> QED
    BY <1>3, <2>1
<1>8. ASSUME NEW id \in OrderId, CancelOpen(id) PROVE Goal
  <2>1. ~ub
    BY <1>8 DEF CancelOpen
  <2>2. PICK side \in Side, p \in Price :
          /\ index[id] = [side |-> side, price |-> p]
          /\ p \in DOMAIN levels[side]
          /\ levels[side][p] \in Seq(Order)
          /\ \E i \in 1..Len(levels[side][p]) :
               /\ levels[side][p][i].id = id
               /\ levels[side][p][i] \in Order
               /\ withdrawn' = levels[side][p][i]
               /\ levels' = SetLevel(side, p, RemoveAt(levels[side][p], i))
               /\ index' = Erase(index, id)
    BY <1>1, <1>8, <2>1, CancelOpenFacts
  <2> DEFINE old == levels[side][p]
  <2>3. PICK i \in 1..Len(old) : levels' = SetLevel(side, p, RemoveAt(old, i))
    BY <2>2
  <2> DEFINE q == RemoveAt(old, i)
  <2>4. /\ q \in Seq(Order) /\ Len(q) = Len(old) - 1
        /\ \A k \in 1..(Len(old) - 1) : q[k] = IF k < i THEN old[k] ELSE old[k + 1]
    BY <2>2, RemoveAtProperties
  <2>5. old \in Seq(Order) /\ Distinct(old) /\ Len(old) \in Nat
    BY <1>2, <2>1, <2>2, LenProperties
  <2>6. levels' = SetLevel(side, p, q)
    BY <2>3
  <2> HIDE DEF old, q
  <2>7. /\ i \in Int /\ Len(old) >= Len(q)
        /\ \A k \in 1..Len(q) : k < i => q[k].id = old[k].id
        /\ \A k \in 1..Len(q) : k >= i => k + 1 \in 1..Len(old) /\ q[k].id = old[k + 1].id
    <3> DEFINE n == Len(old)
    <3>1. /\ Len(q) = n - 1 /\ n \in Nat /\ i \in 1..n
          /\ \A k \in 1..(n - 1) : q[k] = IF k < i THEN old[k] ELSE old[k + 1]
      BY <2>4, <2>5
    <3> HIDE DEF n
    <3>2. /\ i \in Int /\ n >= n - 1
          /\ \A k \in 1..(n - 1) : k < i => q[k].id = old[k].id
          /\ \A k \in 1..(n - 1) : k >= i => k + 1 \in 1..n /\ q[k].id = old[k + 1].id
      BY <3>1
    <3> QED
      BY <3>1, <3>2 DEF n
  <2>8. InTurn(q, old)
    BY <2>4, <2>5, <2>7, InTurnShift
  <2> QED
    BY <1>1, <2>1, <2>2, <2>4, <2>6, <2>8, InTurnSetLevel DEF old
<1>9. ASSUME NEW id \in OrderId, CancelDangling(id) PROVE FALSE
  BY <1>9 DEF CancelDangling
<1>10. CASE Corrupted
  BY <1>10 DEF Corrupted, vars
<1> QED
  BY <1>4, <1>5, <1>6, <1>7, <1>8, <1>9, <1>10 DEF Next

\* Time priority: orders of a level that stay keep their order, and one that joins
\* joins behind all of them.
THEOREM QueuesAreFair == Spec => NoOvertaking
<1>1. TypeInv /\ BookInv /\ [Next]_vars =>
        [~ub' =>
           \A side \in Side : \A p \in DOMAIN levels'[side] :
             LET new == levels'[side][p]
                 old == IF p \in DOMAIN levels[side] THEN levels[side][p] ELSE <<>>
             IN  \A i, j \in DOMAIN new : i < j =>
                   \A l \in DOMAIN old : old[l].id = new[j].id =>
                     \E k \in DOMAIN old : k < l /\ old[k].id = new[i].id]_vars
  <2> SUFFICES ASSUME TypeInv, BookInv, Next, ~ub', NEW side \in Side, NEW p \in DOMAIN levels'[side]
               PROVE  InTurn(levels'[side][p],
                             IF p \in DOMAIN levels[side] THEN levels[side][p] ELSE <<>>)
    BY Zenon DEF InTurn
  <2> QED
    BY TurnStep
<1> QED
  BY <1>1, TypeInvariant, BookInvariant, PTL DEF Spec, NoOvertaking

-----------------------------------------------------------------------------
(* Cash. Unlike the shares of SharesSolvent, cash is not covered at every  *)
(* step: a market buy may overspend, and so may an order whose cost is not *)
(* a long long. What is proved is that nothing else does.                  *)

Cash(pos) == pos.balance - pos.reserved_balance

\* What each change of a position does to its free cash.
LEMMA FreeCash ==
  ASSUME NEW pos \in Position, NEW side \in Side, NEW price \in Int, NEW qty \in Int
  PROVE  /\ Cash(pos) \in Int
         /\ side = "Buy" => /\ Cash(Executed(pos, side, price, qty)) = Cash(pos) - price * qty
                            /\ Cash(Reserve(pos, side, price, qty)) = Cash(pos) - price * qty
                            /\ Cash(Release(pos, side, price, qty)) = Cash(pos) + price * qty
         /\ side = "Sell" => /\ Cash(Executed(pos, side, price, qty)) = Cash(pos) + price * qty
                             /\ Cash(Reserve(pos, side, price, qty)) = Cash(pos)
                             /\ Cash(Release(pos, side, price, qty)) = Cash(pos)
<1> DEFINE v == price * qty
<1>1. pos.balance \in Int /\ pos.reserved_balance \in Int /\ v \in Int
  BY DEF Position
<1>2. /\ Bought(pos, v, qty).balance = pos.balance - v
      /\ Bought(pos, v, qty).reserved_balance = pos.reserved_balance
      /\ Sold(pos, v, qty).balance = pos.balance + v
      /\ Sold(pos, v, qty).reserved_balance = pos.reserved_balance
  BY <1>1 DEF Bought, Sold, Position
<1>3. /\ side = "Buy" => Cash(Executed(pos, side, price, qty)) = Cash(pos) - v
      /\ side = "Sell" => Cash(Executed(pos, side, price, qty)) = Cash(pos) + v
  <2>1. /\ side = "Buy" => Executed(pos, side, price, qty) = Bought(pos, v, qty)
        /\ side = "Sell" => Executed(pos, side, price, qty) = Sold(pos, v, qty)
    BY DEF Executed
  <2> HIDE DEF v
  <2> QED
    BY <1>1, <1>2, <2>1 DEF Cash
<1>4. /\ side = "Buy" => /\ Reserve(pos, side, price, qty).balance = pos.balance
                         /\ Reserve(pos, side, price, qty).reserved_balance
                              = pos.reserved_balance + v
                         /\ Release(pos, side, price, qty).balance = pos.balance
                         /\ Release(pos, side, price, qty).reserved_balance
                              = pos.reserved_balance - v
      /\ side = "Sell" => /\ Reserve(pos, side, price, qty).balance = pos.balance
                          /\ Reserve(pos, side, price, qty).reserved_balance = pos.reserved_balance
                          /\ Release(pos, side, price, qty).balance = pos.balance
                          /\ Release(pos, side, price, qty).reserved_balance = pos.reserved_balance
  BY DEF Reserve, Release, Position
<1> HIDE DEF v
<1>5. /\ side = "Buy" => /\ Cash(Reserve(pos, side, price, qty)) = Cash(pos) - v
                         /\ Cash(Release(pos, side, price, qty)) = Cash(pos) + v
      /\ side = "Sell" => /\ Cash(Reserve(pos, side, price, qty)) = Cash(pos)
                          /\ Cash(Release(pos, side, price, qty)) = Cash(pos)
  BY <1>1, <1>4 DEF Cash
<1>6. Cash(pos) \in Int
  BY <1>1 DEF Cash
<1> QED
  BY <1>3, <1>5, <1>6 DEF v

\* Values are natural numbers.
LEMMA Value == \A p, q \in Nat : p * q \in Nat
OBVIOUS

\* A fill takes free cash from nobody but the buyer who is the taker: a maker
\* who buys has it reserved.
LEMMA FillCash ==
  ASSUME TypeOK, NEW m, NEW t, NEW price \in Nat, NEW qty \in Nat, NEW side \in Side,
         NEW u \in User
  PROVE  LET np == Filled(m, t, price, qty, side)
         IN  /\ Cash(np[u]) \in Int
             /\ u # UserOf(t) \/ side = "Sell" => Cash(np[u]) >= Cash(positions[u])
             /\ u = UserOf(t) => Cash(np[u]) >= Cash(positions[u]) - price * qty
<1> DEFINE np == Filled(m, t, price, qty, side)
           p1 == TakerFilled(positions, UserOf(t), side, price, qty)
           mside == Opposite(side)
           v == price * qty
<1>1. /\ positions \in [User -> Position] /\ UserOf(t) \in User /\ UserOf(m) \in User
      /\ qty \in Int /\ price \in Int /\ v \in Nat
  BY UserOfType, Value DEF TypeOK
<1>2. p1 = [positions EXCEPT ![UserOf(t)] = Executed(positions[UserOf(t)], side, price, qty)]
  BY DEF TakerFilled
<1>3. p1 \in [User -> Position]
  BY <1>1, <1>2, PositionOps
<1>4. np = [p1 EXCEPT ![UserOf(m)] =
              Release(Executed(p1[UserOf(m)], mside, price, qty), mside, price, qty)]
  BY DEF Filled, MakerFilled
<1> HIDE DEF np, p1
<1>5. /\ positions[u] \in Position /\ p1[u] \in Position
      /\ Cash(positions[u]) \in Int /\ Cash(p1[u]) \in Int
      /\ u # UserOf(t) => p1[u] = positions[u]
      /\ u = UserOf(t) => p1[u] = Executed(positions[u], side, price, qty)
  BY <1>1, <1>2, <1>3, FreeCash
<1>6. /\ u # UserOf(t) \/ side = "Sell" => Cash(p1[u]) >= Cash(positions[u])
      /\ u = UserOf(t) => Cash(p1[u]) >= Cash(positions[u]) - v
  <2>1. CASE u # UserOf(t)
    BY <1>5, <2>1
  <2>2. CASE u = UserOf(t)
    <3>1. /\ side = "Buy" => Cash(p1[u]) = Cash(positions[u]) - v
          /\ side = "Sell" => Cash(p1[u]) = Cash(positions[u]) + v
      BY <1>1, <1>5, <2>2, FreeCash
    <3> HIDE DEF v
    <3> QED
      BY <1>1, <1>5, <2>2, <3>1 DEF Side
  <2> QED
    BY <2>1, <2>2
<1>7. Cash(np[u]) \in Int /\ Cash(np[u]) >= Cash(p1[u])
  <2>1. CASE u # UserOf(m)
    BY <1>1, <1>3, <1>4, <1>5, <2>1
  <2>2. CASE u = UserOf(m)
    <3> DEFINE e == Executed(p1[u], mside, price, qty)
    <3>1. mside \in Side /\ e \in Position
      BY <1>1, <1>5, OppositeSide, PositionOps
    <3>2. /\ mside = "Buy" => Cash(e) = Cash(p1[u]) - v
          /\ mside = "Sell" => Cash(e) = Cash(p1[u]) + v
      BY <1>1, <1>5, <3>1, FreeCash
    <3>3. np[u] = Release(e, mside, price, qty)
      BY <1>1, <1>3, <1>4, <2>2
    <3> HIDE DEF e, mside
    <3>4. /\ mside = "Buy" => Cash(np[u]) = Cash(e) + v
          /\ mside = "Sell" => Cash(np[u]) = Cash(e)
      BY <1>1, <3>1, <3>3, FreeCash
    <3> HIDE DEF v
    <3> QED
      BY <1>1, <1>5, <3>1, <3>2, <3>4 DEF Side
  <2> QED
    BY <2>1, <2>2
<1> HIDE DEF v
<1>8. /\ u # UserOf(t) \/ side = "Sell" => Cash(np[u]) >= Cash(positions[u])
      /\ u = UserOf(t) => Cash(np[u]) >= Cash(positions[u]) - v
  BY <1>1, <1>5, <1>6, <1>7
<1> QED
  BY <1>7, <1>8 DEF np, v

\* What a limit order in the loop may still spend.
Promised(u) == IF InFlight(u, "Buy") > 0 THEN taker.price * taker.qty ELSE 0

LEMMA SpendableIs == \A u : Spendable(u) = Cash(positions[u]) - Promised(u)
BY DEF Spendable, Available, Cash, Promised

\* Another trade of the loop at a price within the limit.
LEMMA WithinLimit ==
  \A limit, price, left, qty \in Nat :
    price <= limit /\ qty <= left =>
      /\ limit * (left - qty) \in Nat /\ limit * left \in Nat /\ price * qty \in Nat
      /\ limit * (left - qty) + price * qty <= limit * left
<1> SUFFICES ASSUME NEW limit \in Nat, NEW price \in Nat, NEW left \in Nat, NEW qty \in Nat,
                    price <= limit, qty <= left
             PROVE  /\ limit * (left - qty) \in Nat /\ limit * left \in Nat /\ price * qty \in Nat
                    /\ limit * (left - qty) + price * qty <= limit * left
  OBVIOUS
<1>1. left - qty \in Nat /\ limit - price \in Nat
  OBVIOUS
<1>2. /\ limit * (left - qty) \in Nat /\ limit * left \in Nat /\ price * qty \in Nat
      /\ limit * qty \in Nat /\ (limit - price) * qty \in Nat
  BY <1>1, Value
<1>3. limit * (left - qty) = limit * left - limit * qty
  OBVIOUS
<1>4. (limit - price) * qty = limit * qty - price * qty
  OBVIOUS
<1> QED
  BY <1>2, <1>3, <1>4

\* The first exception; PreflightWrapped is the other.
MarketBuyOf(u) == pc = "match" /\ taker.user_id = u /\ taker.side = "Buy" /\ taker.type = "Market"

\* A step that puts no registered user, or user u at least, deeper into debt.
NotDeeper(u) == \/ Spendable(u)' >= 0 \/ Spendable(u)' >= Spendable(u)
                \/ MarketBuyOf(u) \/ PreflightWrapped(u)

\* Free cash is an integer, and nothing is promised outside the loop.
LEMMA CashTypes ==
  ASSUME TypeOK, NEW u \in User
  PROVE  /\ positions[u] \in Position /\ Cash(positions[u]) \in Int
         /\ pc \in {"idle", "cancel"} => Promised(u) = 0
BY FreeCash DEF TypeOK, Promised, InFlight, Cash, Position

\* What a long long can hold it holds.
LEMMA WrappedFits ==
  ASSUME NEW n \in Int, Fits(n, LongMax)
  PROVE  Wrapped(n, LongMax) = n
<1> DEFINE w == 2 * LongMax + 2
           m == n + LongMax + 1
<1>1. LongMax \in Nat /\ -LongMax - 1 <= n /\ n <= LongMax
  BY UserAssumption DEF Fits
<1>2. m \in 0..(w - 1) /\ w \in Nat \ {0}
  BY <1>1
<1> HIDE DEF m, w
<1>3. m % w = m
  BY <1>2
<1> QED
  BY <1>1, <1>3 DEF m, w, Wrapped

\* The preflight covers the whole cost of a limit buy from free cash, when both
\* are long longs.
LEMMA AcceptCash ==
  ASSUME TypeInv, NEW o \in Request, Accept(o), NEW u \in User \ {0}
  PROVE  NotDeeper(u)
<1>1. /\ pc = "idle" /\ pc' = "match" /\ taker' = o /\ incoming' = o /\ UNCHANGED positions
      /\ ~Unfunded(o)
  BY DEF Accept, Preflight
<1>2. /\ o.qty \in Nat /\ o.price \in Int /\ o.type \in OrderType /\ o.side \in Side
      /\ o.type = "Market" => o.price = 0
  BY RequestFacts DEF Order, Request
<1>3. /\ Cash(positions[u]) \in Int /\ Cash(positions'[u]) = Cash(positions[u])
      /\ Spendable(u) = Cash(positions[u])
  BY <1>1, CashTypes, SpendableIs DEF TypeInv
<1>4. Spendable(u)' = Cash(positions[u]) - Promised(u)'
  BY <1>1 DEF Spendable, Available, Cash, Promised
<1>5. CASE o.user_id = u /\ o.side = "Buy" /\ o.qty > 0
  <2>1. Promised(u)' = o.price * o.qty
    BY <1>1, <1>5 DEF Promised, InFlight
  <2>2. CASE o.type = "Market"
    <3>1. Promised(u)' = 0
      BY <1>2, <2>1, <2>2
    <3> QED
      BY <1>3, <1>4, <3>1 DEF NotDeeper
  <2>3. CASE o.type = "Limit"
    <3>1. u > 0
      BY BookAssumption
    <3> DEFINE free == Cash(positions[u])
               cost == o.price * o.qty
    <3>2. ~(Wrapped(free, LongMax) < Wrapped(cost, LongMax))
      BY <1>1, <1>5, <2>3, <3>1 DEF Unfunded, CostPrice, Cash
    <3>3. free \in Int /\ cost \in Int
      BY <1>2, <1>3
    <3>4. CASE Fits(free, LongMax) /\ Fits(cost, LongMax)
      <4>1. Spendable(u)' = free - cost
        BY <1>4, <2>1
      <4> HIDE DEF free, cost
      <4>2. ~(free < cost)
        BY <3>2, <3>3, <3>4, WrappedFits
      <4> QED
        BY <3>3, <4>1, <4>2 DEF NotDeeper
    <3>5. CASE ~(Fits(free, LongMax) /\ Fits(cost, LongMax))
      BY <1>1, <1>5, <3>5 DEF NotDeeper, PreflightWrapped, Available, Cash
    <3> QED
      BY <3>4, <3>5
  <2> QED
    BY <1>2, <2>2, <2>3 DEF OrderType
<1>6. CASE ~(o.user_id = u /\ o.side = "Buy" /\ o.qty > 0)
  <2>1. Promised(u)' = 0
    BY <1>1, <1>6 DEF Promised, InFlight
  <2> QED
    BY <1>3, <1>4, <2>1 DEF NotDeeper
<1> QED
  BY <1>5, <1>6

\* A fill of a limit buy costs no more than what it takes from the promise.
LEMMA FillCashStep ==
  ASSUME TypeInv, Fill, NEW u \in User \ {0}
  PROVE  NotDeeper(u)
<1> DEFINE side  == Opposite(taker.side)
           price == Best(side)
           queue == levels[side][price]
           maker == Head(queue)
           qty   == FillQty(taker.qty, maker.qty)
<1>1. pc = "match" /\ CanMatch /\ TypeOK
  BY DEF Fill, TypeInv
<1>2. /\ taker \in Order /\ price \in Nat /\ qty \in Nat /\ qty <= taker.qty
      /\ Crosses(taker, price)
  BY <1>1, FillFacts, BookAssumption DEF Price
<1>3. /\ positions' = Filled(maker.id, taker.id, price, qty, taker.side)
      /\ taker' = [taker EXCEPT !.qty = @ - qty]
      /\ UNCHANGED pc
  BY DEF Fill, OnFill
<1> HIDE DEF side, price, queue, maker, qty
<1>4. /\ taker.side \in Side /\ taker.qty \in Nat /\ taker.qty > 0 /\ taker.type \in OrderType
      /\ taker.type = "Limit" => taker.price \in Nat
  BY <1>1, <1>2, BookAssumption DEF Order, CanMatch, TypeInv, InFlightOK, Price
<1>5. /\ taker'.user_id = taker.user_id /\ taker'.side = taker.side
      /\ taker'.price = taker.price /\ taker'.qty = taker.qty - qty
  BY <1>2, <1>3 DEF Order
<1>6. UserOf(taker.id) = taker.user_id
  BY <1>1 DEF TypeInv, InFlightOK, UserOf
<1>7. /\ Cash(positions[u]) \in Int /\ Cash(positions'[u]) \in Int
      /\ u # taker.user_id \/ taker.side = "Sell" => Cash(positions'[u]) >= Cash(positions[u])
      /\ u = taker.user_id => Cash(positions'[u]) >= Cash(positions[u]) - price * qty
  BY <1>1, <1>2, <1>3, <1>4, <1>6, FillCash, CashTypes
<1>8. /\ Spendable(u) = Cash(positions[u]) - Promised(u)
      /\ Spendable(u)' = Cash(positions'[u]) - Promised(u)'
  BY DEF Spendable, Available, Cash, Promised
<1>9. CASE u # taker.user_id \/ taker.side = "Sell"
  <2>1. Promised(u) = 0 /\ Promised(u)' = 0
    BY <1>1, <1>3, <1>5, <1>9 DEF Promised, InFlight
  <2> QED
    BY <1>7, <1>8, <1>9, <2>1 DEF NotDeeper
<1>10. CASE u = taker.user_id /\ taker.side = "Buy" /\ taker.type = "Limit"
  <2>1. price <= taker.price
    BY <1>2, <1>10 DEF Crosses
  <2>2. Promised(u) = taker.price * taker.qty
    BY <1>1, <1>4, <1>10 DEF Promised, InFlight
  <2>3. Promised(u)' = taker.price * (taker.qty - qty)
    <3>1. CASE taker.qty - qty > 0
      BY <1>1, <1>3, <1>5, <1>10, <3>1 DEF Promised, InFlight
    <3>2. CASE taker.qty - qty = 0
      <4>1. Promised(u)' = 0
        BY <1>1, <1>3, <1>5, <1>10, <3>2 DEF Promised, InFlight
      <4>2. taker.price * 0 = 0
        BY <1>4, <1>10
      <4> QED
        BY <3>2, <4>1, <4>2
    <3> QED
      BY <1>2, <1>4, <3>1, <3>2
  <2>4. /\ Promised(u)' \in Nat /\ Promised(u) \in Nat /\ price * qty \in Nat
        /\ Promised(u)' + price * qty <= Promised(u)
    BY <1>2, <1>4, <1>10, <2>1, <2>2, <2>3, WithinLimit
  <2> DEFINE v == price * qty
  <2>5. Cash(positions'[u]) >= Cash(positions[u]) - v /\ v \in Nat /\ Promised(u)' + v <= Promised(u)
    BY <1>7, <1>10, <2>4
  <2> HIDE DEF v
  <2> QED
    BY <1>7, <1>8, <2>4, <2>5 DEF NotDeeper
<1>11. CASE u = taker.user_id /\ taker.side = "Buy" /\ taker.type = "Market"
  BY <1>1, <1>11 DEF NotDeeper, MarketBuyOf
<1> QED
  BY <1>4, <1>9, <1>10, <1>11 DEF Side, OrderType

\* A limit buy, or nothing, is promised, and not less than nothing.
LEMMA PromisedType ==
  ASSUME TypeInv, NEW u \in User, ~MarketBuyOf(u)
  PROVE  Promised(u) \in Nat
<1>1. CASE InFlight(u, "Buy") > 0
  <2>1. pc \in {"match", "rest"} /\ taker.user_id = u /\ taker.side = "Buy"
    BY <1>1 DEF InFlight
  <2>2. taker.qty \in Nat /\ taker.type \in OrderType /\ (pc = "rest" => taker.type = "Limit")
    BY <2>1 DEF TypeInv, TypeOK, InFlightOK, Order, Rests
  <2>3. taker.type = "Limit"
    BY <2>1, <2>2 DEF MarketBuyOf, OrderType
  <2>4. taker.price \in Nat
    BY <2>1, <2>3, BookAssumption DEF TypeInv, InFlightOK, Price
  <2> QED
    BY <1>1, <2>2, <2>4, Value DEF Promised
<1>2. CASE ~(InFlight(u, "Buy") > 0)
  BY <1>2 DEF Promised
<1> QED
  BY <1>1, <1>2

\* What is left of a limit buy was promised, and is reserved when it has rested.
LEMMA SettleCash ==
  ASSUME TypeInv, Settle, NEW u \in User \ {0}
  PROVE  NotDeeper(u)
<1>1. /\ pc = "rest" /\ pc' = "idle" /\ TypeOK /\ positions \in [User -> Position]
      /\ OnOrderResting(taker)
  BY DEF Settle, Conclude, TypeInv, TypeOK
<1>2. /\ taker.qty \in Nat /\ taker.qty > 0 /\ taker.side \in Side /\ taker.price \in Int
      /\ taker.id \in DOMAIN order_to_user
      /\ order_to_user[taker.id] = taker.user_id
  BY <1>1 DEF TypeInv, TypeOK, InFlightOK, Order, Rests
<1>3. /\ positions[u] \in Position /\ Cash(positions[u]) \in Int /\ Promised(u) \in Nat
      /\ Spendable(u) = Cash(positions[u]) - Promised(u)
  BY <1>1, CashTypes, PromisedType, SpendableIs DEF MarketBuyOf
<1>4. Cash(positions'[u]) \in Int /\ Spendable(u)' = Cash(positions'[u])
  <2>1. positions'[u] \in Position
    BY SettleType DEF TypeInv, TypeOK
  <2>2. Cash(positions'[u]) \in Int
    BY <2>1, FreeCash DEF Side
  <2>3. Promised(u)' = 0 /\ Spendable(u)' = Cash(positions'[u]) - Promised(u)'
    BY <1>1 DEF Spendable, Available, Cash, Promised, InFlight
  <2> QED
    BY <2>2, <2>3
<1>5. positions' = [positions EXCEPT ![taker.user_id] =
                      Reserve(positions[taker.user_id], taker.side, taker.price, taker.qty)]
  BY <1>1, <1>2 DEF OnOrderResting
<1>6. CASE u # taker.user_id
  <2>1. positions'[u] = positions[u]
    BY <1>1, <1>5, <1>6
  <2> QED
    BY <1>3, <1>4, <2>1 DEF NotDeeper
<1>7. CASE u = taker.user_id
  <2>1. positions'[u] = Reserve(positions[u], taker.side, taker.price, taker.qty)
    BY <1>1, <1>5, <1>7
  <2>2. /\ taker.side = "Buy" => Cash(positions'[u]) = Cash(positions[u]) - taker.price * taker.qty
        /\ taker.side = "Sell" => Cash(positions'[u]) = Cash(positions[u])
    BY <1>2, <1>3, <2>1, FreeCash
  <2>3. taker.side = "Buy" => Promised(u) = taker.price * taker.qty
    BY <1>1, <1>2, <1>7 DEF Promised, InFlight
  <2>4. CASE taker.side = "Buy"
    <3>1. Cash(positions'[u]) = Cash(positions[u]) - Promised(u)
      BY <2>2, <2>3, <2>4
    <3> QED
      BY <1>3, <1>4, <3>1 DEF NotDeeper
  <2>5. CASE taker.side = "Sell"
    BY <1>3, <1>4, <2>2, <2>5 DEF NotDeeper
  <2> QED
    BY <1>2, <2>4, <2>5 DEF Side
<1> QED
  BY <1>6, <1>7

\* An order that ends without resting promises nothing any more.
LEMMA CompleteCash ==
  ASSUME TypeInv, Complete, NEW u \in User \ {0}
  PROVE  NotDeeper(u)
<1>1. pc' = "idle" /\ UNCHANGED positions
  BY DEF Complete, Conclude
<1>2. Cash(positions[u]) \in Int /\ Spendable(u) = Cash(positions[u]) - Promised(u)
  BY CashTypes, SpendableIs DEF TypeInv
<1>3. Spendable(u)' = Cash(positions[u])
  <2>1. Promised(u)' = 0 /\ Spendable(u)' = Cash(positions[u]) - Promised(u)'
    BY <1>1 DEF Spendable, Available, Cash, Promised, InFlight
  <2> QED
    BY <1>2, <2>1
<1>4. CASE MarketBuyOf(u)
  BY <1>4 DEF NotDeeper
<1>5. CASE ~MarketBuyOf(u)
  BY <1>2, <1>3, <1>5, PromisedType DEF NotDeeper
<1> QED
  BY <1>4, <1>5

\* Releasing a cancelled order can only free cash.
LEMMA CancelDoneCash ==
  ASSUME TypeInv, WithdrawnAgrees, CancelDone, NEW u \in User \ {0}
  PROVE  NotDeeper(u)
<1> DEFINE o == withdrawn
<1>1. /\ TypeOK /\ pc = "cancel" /\ pc' = "idle" /\ positions \in [User -> Position]
      /\ OnCancel(o.id, o)
  BY DEF TypeInv, TypeOK, CancelDone
<1>2. /\ o.side \in Side /\ o.price \in Nat /\ o.qty \in Nat
      /\ o.price * o.qty \in Nat
  <2>1. o \in Order /\ o.price \in Price
    BY <1>1 DEF TypeOK, WithdrawnAgrees
  <2>2. o.side \in Side /\ o.qty \in Nat /\ o.price \in Nat
    BY <2>1, BookAssumption DEF Order, Price
  <2> QED
    BY <2>2, Value
<1> HIDE DEF o
<1>3. positions[u] \in Position /\ Cash(positions[u]) \in Int
  BY <1>1, CashTypes
<1>4. positions'[u] \in {positions[u], Release(positions[u], o.side, o.price, o.qty)}
  BY <1>1 DEF OnCancel
<1>5. Cash(positions'[u]) \in Int /\ Cash(positions'[u]) >= Cash(positions[u])
  <2> DEFINE v == o.price * o.qty
             r == Release(positions[u], o.side, o.price, o.qty)
  <2>1. /\ v \in Nat
        /\ o.side = "Buy" => Cash(r) = Cash(positions[u]) + v
        /\ o.side = "Sell" => Cash(r) = Cash(positions[u])
    BY <1>2, <1>3, FreeCash
  <2>2. positions'[u] \in {positions[u], r}
    BY <1>4
  <2> HIDE DEF v, r
  <2> QED
    BY <1>2, <1>3, <2>1, <2>2 DEF Side
<1>6. /\ Spendable(u) = Cash(positions[u]) - Promised(u) /\ Promised(u) = 0
      /\ Spendable(u)' = Cash(positions'[u]) - Promised(u)' /\ Promised(u)' = 0
  BY <1>1 DEF Spendable, Available, Cash, Promised, InFlight
<1> QED
  BY <1>3, <1>5, <1>6 DEF NotDeeper

\* No step but a market buy, or a preflight whose amounts overflow, puts a user
\* deeper into debt, unless his id is being drawn.
LEMMA CashStep ==
  ASSUME TypeInv, BookInv, WithdrawnAgrees, [Next]_vars, ~ub',
         NEW u \in User \ ({0} \cup wiped')
  PROVE  NotDeeper(u)
<1>1. ASSUME positions'[u] = positions[u],
             \/ UNCHANGED <<pc, taker>>
             \/ pc \in {"idle", "cancel"} /\ pc' \in {"idle", "cancel"}
             \/ pc = "match" /\ pc' = "rest" /\ taker' = taker
      PROVE  NotDeeper(u)
  <2>1. Spendable(u)' = Spendable(u)
    BY <1>1 DEF Spendable, Available, InFlight
  <2>2. Cash(positions[u]) \in Int
    BY CashTypes DEF TypeInv
  <2>3. Promised(u) \in Int
    <3>1. pc \in {"match", "rest"} => taker.price \in Int /\ taker.qty \in Int
      BY DEF TypeInv, TypeOK, Order
    <3> QED
      BY <3>1 DEF Promised, InFlight
  <2> QED
    BY <2>1, <2>2, <2>3, SpendableIs DEF NotDeeper
<1>2. ASSUME NEW o \in Request, Refuse(o) PROVE NotDeeper(u)
  BY <1>1, <1>2 DEF Refuse
<1>3. ASSUME NEW o \in Request, Accept(o) PROVE NotDeeper(u)
  BY <1>3, AcceptCash
<1>4. CASE Fill
  BY <1>4, FillCashStep
<1>5. CASE Rest
  BY <1>1, <1>5, RestFacts
<1>6. CASE Settle
  BY <1>6, SettleCash
<1>7. CASE Complete
  BY <1>7, CompleteCash
<1>8. ASSUME NEW id \in OrderId, CancelOpen(id) PROVE NotDeeper(u)
  BY <1>1, <1>8 DEF CancelOpen, userVars
<1>9. ASSUME NEW id \in OrderId, CancelDangling(id) PROVE FALSE
  BY <1>9 DEF CancelDangling
<1>10. CASE CancelDone
  BY <1>10, CancelDoneCash
<1>11. ASSUME NEW v \in User, Connect(v) PROVE NotDeeper(u)
  <2>1. u # v /\ positions'[u] = positions[u] /\ UNCHANGED <<pc, taker>>
    BY <1>11 DEF Connect, NextUserId, TypeInv, TypeOK
  <2> QED
    BY <1>1, <2>1
<1>12. CASE UNCHANGED vars
  BY <1>1, <1>12 DEF vars, userVars
<1> QED
  BY <1>2, <1>3, <1>4, <1>5, <1>6, <1>7, <1>8, <1>9, <1>10, <1>11, <1>12
     DEF Next, CancelUnknown, Corrupted

\* Nobody overspends but by a market buy, or by an order whose cost, or whose
\* user's cash, is not a long long: for every cash and shares a user begins with,
\* every price and every quantity a long long holds, in the middle of a sweep and
\* for users who trade with themselves, what preflight_check tests, on_fill pays
\* and on_order_resting and on_cancel reserve and release fit together. An id
\* that was in use before it was drawn is not covered.
THEOREM OnlyMarketBuysAndOverflowsOverspend == Spec => CashSolvent
<1>1. TypeInv /\ BookInv /\ (OwnersAgree /\ WithdrawnAgrees) /\ [Next]_vars =>
        [\A u \in User \ ({0} \cup wiped') :
           ~ub' /\ Spendable(u)' < 0 /\ Spendable(u)' < Spendable(u) =>
             \/ pc = "match" /\ taker.user_id = u /\ taker.side = "Buy" /\ taker.type = "Market"
             \/ PreflightWrapped(u)]_vars
  <2> SUFFICES ASSUME TypeInv, BookInv, WithdrawnAgrees, [Next]_vars,
                      NEW u \in User \ ({0} \cup wiped'), ~ub',
                      Spendable(u)' < 0, Spendable(u)' < Spendable(u)
               PROVE  MarketBuyOf(u) \/ PreflightWrapped(u)
    BY DEF MarketBuyOf
  <2>1. NotDeeper(u)
    BY CashStep
  <2>2. Spendable(u) \in Int
    <3>1. /\ positions[u] \in Position
          /\ pc \in {"match", "rest"} => taker.price \in Int /\ taker.qty \in Int
      BY DEF TypeInv, TypeOK, Order
    <3> QED
      BY <3>1 DEF Spendable, Available, InFlight, Position
  <2>3. Spendable(u)' \in Int
    <3>1. TypeInv'
      BY TypeStep
    <3>2. /\ positions'[u] \in Position
          /\ pc' \in {"match", "rest"} => taker'.price \in Int /\ taker'.qty \in Int
      BY <3>1 DEF TypeInv, TypeOK, Order
    <3> QED
      BY <3>2 DEF Spendable, Available, InFlight, Position
  <2> QED
    BY <2>1, <2>2, <2>3 DEF NotDeeper
<1> QED
  BY <1>1, TypeInvariant, BookInvariant, OwnersAlwaysAgree, PTL DEF Spec, CashSolvent

-----------------------------------------------------------------------------
(* Orders the journal leaves open.                                         *)

Linked(id) == \E side \in Side : \E p \in DOMAIN levels[side] :
                \E i \in DOMAIN levels[side][p] : levels[side][p][i].id = id

\* What a call took from the client is something: with nothing left to fill at
\* the end of the loop, something was filled.
Submitted == pc \in {"match", "rest"} => incoming.qty > 0

\* What rests in a set of orders is linked at a place of the book.
LEMMA RestingIsLinked ==
  ASSUME NEW id
  PROVE  /\ Resting(id) <=> Linked(id)
         /\ Resting(id)' <=> Linked(id)'
BY DEF Resting, RestingOrders, ToSet, Linked

\* An order stays in the book when the level that is stored keeps it.
LEMMA StillLinked ==
  ASSUME LevelsType(levels), NEW side \in Side, NEW p \in Price, NEW q \in Seq(Order),
         levels' = SetLevel(side, p, q), NEW id,
         Linked(id) \/ \E j \in DOMAIN q : q[j].id = id,
         p \in DOMAIN levels[side] =>
           \A i \in DOMAIN levels[side][p] :
             levels[side][p][i].id = id => \E j \in DOMAIN q : q[j].id = id
  PROVE  Linked(id)'
<1>1. /\ \A s \in Side : s # side => levels'[s] = levels[s]
      /\ q = <<>> => DOMAIN levels'[side] = DOMAIN levels[side] \ {p}
      /\ q # <<>> => DOMAIN levels'[side] = DOMAIN levels[side] \cup {p}
      /\ q # <<>> => levels'[side][p] = q
      /\ \A r \in DOMAIN levels'[side] : r # p => levels'[side][r] = levels[side][r]
  BY SetLevelProperties
<1>2. CASE \E i \in DOMAIN q : q[i].id = id
  <2>1. q # <<>>
    BY <1>2
  <2>2. p \in DOMAIN levels'[side] /\ levels'[side][p] = q
    BY <1>1, <2>1
  <2> QED
    BY <1>2, <2>2 DEF Linked
<1>3. ASSUME NEW s \in Side, NEW r \in DOMAIN levels[s], NEW i \in DOMAIN levels[s][r],
             s # side \/ r # p, levels[s][r][i].id = id
      PROVE  Linked(id)'
  <2>1. r \in DOMAIN levels'[s] /\ levels'[s][r] = levels[s][r]
    BY <1>1, <1>3
  <2> QED
    BY <1>3, <2>1 DEF Linked
<1> QED
  BY <1>2, <1>3 DEF Linked

\* A line of orders.jsonl is the last of its order, and of no other.
LEMMA EmitLast ==
  ASSUME TypeOK, NEW id \in OrderId, NEW status, NEW qty, NEW remaining,
         Emit(id, status, qty, remaining)
  PROVE  /\ IsOpen(id)' <=> status \in {"New", "PartiallyFilled"}
         /\ \A x \in OrderId : x # id => (IsOpen(x)' <=> IsOpen(x))
<1> DEFINE line == [status |-> status, qty |-> qty, remaining |-> remaining]
<1>1. journal \in [OrderId -> Seq(Event)] /\ journal[id] \in Seq(Event)
  BY DEF TypeOK
<1>2. journal' = [journal EXCEPT ![id] = Append(journal[id], line)]
  BY DEF Emit
<1>3. journal'[id] = Append(journal[id], line)
  BY <1>1, <1>2
<1>4. line.status = status
  OBVIOUS
<1> HIDE DEF line
<1>5. /\ Append(journal[id], line) # <<>>
      /\ Append(journal[id], line)[Len(Append(journal[id], line))] = line
  BY <1>1
<1>6. IsOpen(id)' <=> status \in {"New", "PartiallyFilled"}
  BY <1>3, <1>4, <1>5 DEF IsOpen, LastLine
<1>7. \A x \in OrderId : x # id => journal'[x] = journal[x]
  BY <1>1, <1>2
<1> QED
  BY <1>6, <1>7 DEF IsOpen, LastLine

\* The part of OpenRests about one order.
Strays(id) == Astray(id)' /\ ~Astray(id)
IsMarket(id) == pc = "match" /\ taker.id = id /\ taker.type = "Market"

\* What a step does not journal and leaves in the book does not go astray.
LEMMA NotAstray ==
  ASSUME NEW id, IsOpen(id)' <=> IsOpen(id), Linked(id) => Linked(id)',
         pc = "match" => taker.id # id
  PROVE  ~Strays(id)
BY RestingIsLinked DEF Strays, Astray

\* A new order is refused or goes into the loop.
LEMMA RequestStray ==
  ASSUME TypeInv, NEW o \in Request, Refuse(o) \/ Accept(o), NEW id \in NewId
  PROVE  ~Strays(id)
<1>1. /\ TypeOK /\ o.id \in OrderId /\ id \in OrderId /\ UNCHANGED levels /\ pc = "idle"
      /\ Preflight(o) \in {"Ok", "Rejected", "Canceled"}
  BY RequestFacts, EngineAssumption DEF Refuse, Accept, bookVars, TypeInv
<1>2. CASE id # o.id
  <2>1. IsOpen(id)' <=> IsOpen(id)
    BY <1>1, <1>2, EmitLast DEF Refuse, Accept
  <2>2. Linked(id) => Linked(id)'
    BY <1>1 DEF Linked
  <2> QED
    BY <1>1, <2>1, <2>2, NotAstray
<1>3. CASE id = o.id /\ Refuse(o)
  <2>1. Emit(id, Preflight(o), 0, 0) /\ Preflight(o) \notin {"New", "PartiallyFilled"}
    BY <1>1, <1>3 DEF Refuse
  <2> QED
    BY <1>1, <2>1, EmitLast DEF Strays, Astray
<1>4. CASE id = o.id /\ Accept(o)
  BY <1>4 DEF Accept, Strays, Astray
<1> QED
  BY <1>2, <1>3, <1>4

\* A maker that is popped was filled, one that is not stays in front.
LEMMA FillStray ==
  ASSUME TypeInv, BookInv, Fill, NEW id \in NewId
  PROVE  ~Strays(id)
<1> DEFINE side  == Opposite(taker.side)
           price == Best(side)
           queue == levels[side][price]
           maker == Head(queue)
           qty   == FillQty(taker.qty, maker.qty)
           left  == maker.qty - qty
           q     == AfterFill(queue, left)
<1>1. /\ pc = "match" /\ CanMatch /\ TypeOK /\ LevelsType(levels) /\ taker \in Order
      /\ levels' = SetLevel(side, price, q)
      /\ EmitMaker(maker.id, qty, left)
      /\ taker' = [taker EXCEPT !.qty = @ - qty]
  <2>1. pc = "match" /\ CanMatch
    BY DEF Fill
  <2>2. /\ levels' = SetLevel(side, price, q)
        /\ EmitMaker(maker.id, qty, left)
        /\ taker' = [taker EXCEPT !.qty = @ - qty]
    BY DEF Fill
  <2> QED
    BY <2>1, <2>2 DEF TypeInv, TypeOK
<1>2. /\ side \in Side /\ price \in Price /\ price \in DOMAIN levels[side]
      /\ queue \in Seq(Order) /\ queue # <<>> /\ q \in Seq(Order)
      /\ maker \in Order /\ maker = queue[1]
  <2>1. TypeOK /\ pc = "match" /\ CanMatch
    BY <1>1
  <2>2. side \in Side /\ price \in Price /\ price \in DOMAIN levels[side]
    BY <2>1, FillFacts
  <2>3. queue \in Seq(Order) /\ queue # <<>> /\ maker \in Order /\ maker = queue[1]
    BY <2>1, FillFacts
  <2>4. q \in Seq(Order)
    BY <2>1, FillFacts
  <2> QED
    BY <2>2, <2>3, <2>4
<1>3. taker'.id = taker.id /\ pc' = pc
  BY <1>1 DEF Fill, Order
<1>4. queue = levels[side][price]
  OBVIOUS
<1>5. q = AfterFill(queue, left)
  OBVIOUS
<1> HIDE DEF side, price, queue, maker, qty, left, q
<1>6. DOMAIN queue = 1..Len(queue) /\ Len(queue) \in Nat \ {0} /\ id \in OrderId
  BY <1>2, LenProperties, EmptySeq, EngineAssumption
<1>7. maker.id \in OrderId
  BY <1>2 DEF Order
<1>8. CASE id = taker.id
  BY <1>1, <1>3, <1>8 DEF Strays, Astray
<1>9. CASE id # taker.id /\ left = 0
  <2>1. q = Tail(queue)
    BY <1>5, <1>9 DEF AfterFill
  <2>2. /\ DOMAIN q = 1..(Len(queue) - 1)
        /\ \A k \in 1..(Len(queue) - 1) : q[k] = queue[k + 1]
    BY <1>2, <2>1, HeadTailProperties, LenProperties
  <2>3. Emit(maker.id, "Filled", qty, left)
    BY <1>1, <1>9 DEF EmitMaker
  <2>4. CASE id = maker.id
    BY <1>1, <1>7, <2>3, <2>4, EmitLast DEF Strays, Astray
  <2>5. CASE id # maker.id
    <3>1. IsOpen(id)' <=> IsOpen(id)
      BY <1>1, <1>6, <1>7, <2>3, <2>5, EmitLast
    <3>2. ASSUME NEW i \in DOMAIN queue, queue[i].id = id
          PROVE  \E j \in DOMAIN q : q[j].id = id
      <4>1. i # 1
        BY <1>2, <2>5, <3>2
      <4>2. i - 1 \in 1..(Len(queue) - 1) /\ (i - 1) + 1 = i
        BY <1>6, <4>1
      <4>3. q[i - 1].id = id
        BY <2>2, <3>2, <4>2
      <4> QED
        BY <2>2, <4>2, <4>3
    <3>3. Linked(id) => Linked(id)'
      <4>1. \A i \in DOMAIN levels[side][price] :
              levels[side][price][i].id = id => \E j \in DOMAIN q : q[j].id = id
        BY <1>4, <3>2
      <4>2. LevelsType(levels) /\ levels' = SetLevel(side, price, q)
        BY <1>1
      <4>3. side \in Side /\ price \in Price /\ q \in Seq(Order)
        BY <1>2
      <4> QED
        BY ONLY <4>1, <4>2, <4>3, StillLinked
    <3> QED
      BY <1>9, <3>1, <3>3, NotAstray
  <2> QED
    BY <2>4, <2>5
<1>10. CASE id # taker.id /\ left # 0
  <2>1. q = [queue EXCEPT ![1].qty = left]
    BY <1>5, <1>10 DEF AfterFill
  <2>2. DOMAIN q = DOMAIN queue /\ \A k \in DOMAIN queue : q[k].id = queue[k].id
    <3>1. 1 \in DOMAIN queue /\ queue[1] \in Order
      BY <1>2, <1>6
    <3>2. /\ DOMAIN q = DOMAIN queue
          /\ q[1] = [queue[1] EXCEPT !.qty = left]
          /\ \A k \in DOMAIN queue : k # 1 => q[k] = queue[k]
      BY <1>2, <2>1, <3>1
    <3>3. q[1].id = queue[1].id
      BY <3>1, <3>2 DEF Order
    <3> QED
      BY <3>2, <3>3
  <2>3. Linked(id) => Linked(id)'
    <3>1. \A i \in DOMAIN levels[side][price] :
            levels[side][price][i].id = id => \E j \in DOMAIN q : q[j].id = id
      BY <1>4, <2>2
    <3>2. LevelsType(levels) /\ levels' = SetLevel(side, price, q)
      BY <1>1
    <3>3. side \in Side /\ price \in Price /\ q \in Seq(Order)
      BY <1>2
    <3> QED
      BY ONLY <3>1, <3>2, <3>3, StillLinked
  <2>4. Emit(maker.id, "PartiallyFilled", qty, left)
    BY <1>1, <1>10 DEF EmitMaker
  <2>5. CASE id # maker.id
    <3>1. IsOpen(id)' <=> IsOpen(id)
      BY <1>1, <1>6, <1>7, <2>4, <2>5, EmitLast
    <3> QED
      BY <1>10, <2>3, <3>1, NotAstray
  <2>6. CASE id = maker.id
    <3>1. Linked(id)
      BY <1>2, <1>4, <1>6, <2>6 DEF Linked
    <3> QED
      BY <2>3, <3>1, RestingIsLinked DEF Strays, Astray
  <2> QED
    BY <2>5, <2>6
<1> QED
  BY <1>8, <1>9, <1>10

\* A limit order that rests is linked; the others of its level stay.
LEMMA RestStray ==
  ASSUME TypeInv, Rest, NEW id \in NewId
  PROVE  ~Strays(id)
<1>1. /\ pc' = "rest" /\ taker' = taker /\ journal' = journal /\ LevelsType(levels)
      /\ taker \in Order /\ taker.side \in Side /\ taker.price \in Price
      /\ levels' = PushBack(taker)
  BY RestFacts DEF TypeInv, TypeOK
<1> DEFINE side == taker.side
           p    == taker.price
           old  == IF p \in DOMAIN levels[side] THEN levels[side][p] ELSE <<>>
           q    == Append(old, taker)
<1>2. /\ old \in Seq(Order) /\ q \in Seq(Order)
      /\ levels' = SetLevel(side, p, q)
  BY <1>1, PushBackIsSetLevel
<1>3. /\ DOMAIN q = 1..(Len(old) + 1) /\ DOMAIN old = 1..Len(old) /\ Len(old) \in Nat
      /\ q[Len(old) + 1] = taker
      /\ \A k \in 1..Len(old) : q[k] = old[k]
  BY <1>1, <1>2, AppendProperties, LenProperties
<1>4. p \in DOMAIN levels[side] => old = levels[side][p]
  OBVIOUS
<1>5. side \in Side /\ p \in Price
  BY <1>1
<1> HIDE DEF old, q
<1>6. \A k \in DOMAIN old : k \in DOMAIN q /\ q[k] = old[k]
  BY <1>3
<1>7. \E j \in DOMAIN q : q[j].id = taker.id
  <2>1. Len(old) + 1 \in DOMAIN q
    BY <1>3
  <2> QED
    BY <1>3, <2>1
<1> HIDE DEF side, p
<1>9. CASE id # taker.id
  <2>1. Linked(id) => Linked(id)'
    BY <1>1, <1>2, <1>4, <1>5, <1>6, StillLinked
  <2>2. IsOpen(id)' <=> IsOpen(id)
    BY <1>1 DEF IsOpen, LastLine
  <2> QED
    BY <1>9, <2>1, <2>2, NotAstray
<1>10. CASE id = taker.id
  <2>1. Linked(id)'
    BY <1>1, <1>2, <1>4, <1>5, <1>6, <1>7, <1>10, StillLinked
  <2> QED
    BY <2>1, RestingIsLinked DEF Strays, Astray
<1> QED
  BY <1>9, <1>10

\* The last line is the taker's, so no other order goes astray.
LEMMA ConcludeStray ==
  ASSUME TypeInv, pc \in {"match", "rest"}, Conclude, NEW id \in NewId, id # taker.id
  PROVE  ~Strays(id)
<1> DEFINE filled == incoming.qty - taker.qty
           status == IF taker.qty = 0 THEN "Filled" ELSE "PartiallyFilled"
<1>1. TypeOK /\ taker.id \in OrderId /\ id \in OrderId /\ UNCHANGED levels
  BY EngineAssumption DEF TypeInv, TypeOK, Order, Conclude, bookVars
<1>2. IsOpen(id)' <=> IsOpen(id)
  <2>1. CASE filled = 0
    BY <2>1 DEF Conclude, IsOpen, LastLine
  <2>2. CASE filled # 0
    <3>1. Emit(taker.id, status, filled, taker.qty)
      BY <2>2 DEF Conclude
    <3> HIDE DEF status, filled
    <3> QED
      BY <1>1, <3>1, EmitLast
  <2> QED
    BY <2>1, <2>2
<1>3. Linked(id) => Linked(id)'
  BY <1>1 DEF Linked
<1> QED
  BY <1>2, <1>3, NotAstray

\* What was linked is still there when its last line is written.
LEMMA SettleStray ==
  ASSUME TypeInv, Settle, NEW id \in NewId
  PROVE  ~Strays(id)
<1>1. /\ pc = "rest" /\ Conclude /\ UNCHANGED levels
      /\ taker \in RestingOrders
  BY DEF Settle, Conclude, bookVars, TypeInv, InFlightOK
<1>2. CASE id # taker.id
  BY <1>1, <1>2, ConcludeStray
<1>3. CASE id = taker.id
  <2>1. taker \in RestingOrders'
    BY <1>1 DEF RestingOrders
  <2>2. Resting(id)'
    BY <1>3, <2>1 DEF Resting
  <2> QED
    BY <2>2 DEF Strays, Astray
<1> QED
  BY <1>2, <1>3

\* A limit order that does not rest was filled.
LEMMA CompleteStray ==
  ASSUME TypeInv, Submitted, Complete, NEW id \in NewId, ~IsMarket(id)
  PROVE  ~Strays(id)
<1> DEFINE filled == incoming.qty - taker.qty
<1>1. /\ pc = "match" /\ TypeOK /\ ~Rests /\ Conclude
      /\ taker \in Order /\ taker.qty \in Nat /\ incoming.qty \in Nat /\ incoming.qty > 0
      /\ taker.id \in OrderId
  BY DEF Complete, TypeInv, TypeOK, Order, Submitted
<1>2. CASE id # taker.id
  BY <1>1, <1>2, ConcludeStray
<1>3. CASE id = taker.id
  <2>1. taker.qty = 0
    BY <1>1, <1>3 DEF IsMarket, Rests, Order, OrderType
  <2>2. filled # 0
    BY <1>1, <2>1
  <2>3. Emit(taker.id, "Filled", filled, taker.qty)
    BY <1>1, <2>1, <2>2 DEF Conclude
  <2> QED
    BY <1>1, <1>3, <2>3, EmitLast DEF Strays, Astray
<1> QED
  BY <1>2, <1>3

\* A cancelled order is journaled as such, and the others of its level stay.
LEMMA CancelOpenStray ==
  ASSUME TypeInv, NEW cid \in OrderId, CancelOpen(cid), NEW id \in NewId
  PROVE  ~Strays(id)
<1>1. /\ TypeOK /\ LevelsType(levels) /\ pc = "idle" /\ id \in OrderId
      /\ Emit(cid, "Canceled", 0, 0)
  BY EngineAssumption DEF TypeInv, TypeOK, CancelOpen
<1>2. CASE id = cid
  BY <1>1, <1>2, EmitLast DEF Strays, Astray
<1>3. CASE id # cid
  <2>1. PICK side \in Side, p \in Price :
          /\ index[cid] = [side |-> side, price |-> p]
          /\ p \in DOMAIN levels[side]
          /\ levels[side][p] \in Seq(Order)
          /\ \E i \in 1..Len(levels[side][p]) :
               /\ levels[side][p][i].id = cid
               /\ levels[side][p][i] \in Order
               /\ withdrawn' = levels[side][p][i]
               /\ levels' = SetLevel(side, p, RemoveAt(levels[side][p], i))
               /\ index' = Erase(index, cid)
    BY <1>1, CancelOpenFacts
  <2>2. PICK i \in 1..Len(levels[side][p]) :
          /\ levels[side][p][i].id = cid
          /\ levels' = SetLevel(side, p, RemoveAt(levels[side][p], i))
    BY <2>1
  <2> DEFINE old == levels[side][p]
             q   == RemoveAt(old, i)
  <2>3. /\ q \in Seq(Order) /\ Len(q) = Len(old) - 1
        /\ \A k \in 1..(Len(old) - 1) : q[k] = IF k < i THEN old[k] ELSE old[k + 1]
    BY <2>1, RemoveAtProperties
  <2>4. DOMAIN old = 1..Len(old) /\ Len(old) \in Nat /\ DOMAIN q = 1..(Len(old) - 1)
    BY <2>1, <2>3, LenProperties
  <2>5. levels' = SetLevel(side, p, q) /\ old = levels[side][p] /\ old[i].id = cid
    BY <2>2
  <2> HIDE DEF old, q
  <2>6. ASSUME NEW k \in DOMAIN old, old[k].id = id
        PROVE  \E j \in DOMAIN q : q[j].id = id
    <3>1. k # i
      BY <1>3, <2>5, <2>6
    <3>2. i \in 1..Len(old)
      BY <2>5
    <3>3. CASE k < i
      <4>1. k \in 1..(Len(old) - 1)
        BY <2>4, <3>2, <3>3
      <4> QED
        BY <2>3, <2>4, <2>6, <3>3, <4>1
    <3>4. CASE k > i
      <4>1. k - 1 \in 1..(Len(old) - 1) /\ ~(k - 1 < i) /\ (k - 1) + 1 = k
        BY <2>4, <3>2, <3>4
      <4>2. q[k - 1] = old[k]
        BY <2>3, <4>1
      <4> QED
        BY <2>4, <2>6, <4>1, <4>2
    <3> QED
      BY <2>4, <3>1, <3>2, <3>3, <3>4
  <2>7. Linked(id) => Linked(id)'
    BY <1>1, <2>1, <2>3, <2>5, <2>6, StillLinked
  <2>8. IsOpen(id)' <=> IsOpen(id)
    BY <1>1, <1>3, EmitLast
  <2> QED
    BY <1>1, <2>7, <2>8, NotAstray
<1> QED
  BY <1>2, <1>3

\* Only Accept puts an order into the loop, and the preflight wants a quantity.
LEMMA SubmittedStep == TypeInv /\ Submitted /\ [Next]_vars => Submitted'
<1> SUFFICES ASSUME TypeInv, Submitted, [Next]_vars PROVE Submitted'
  OBVIOUS
<1>1. ASSUME NEW o \in Request, Refuse(o) PROVE Submitted'
  BY <1>1 DEF Refuse, Submitted
<1>2. ASSUME NEW o \in Request, Accept(o) PROVE Submitted'
  BY <1>2, RequestFacts DEF Accept, Submitted
<1>3. CASE Fill \/ Rest
  BY <1>3, RestFacts DEF Fill, Submitted
<1>4. CASE Settle \/ Complete
  BY <1>4 DEF Settle, Complete, Conclude, Submitted
<1>5. ASSUME NEW id \in OrderId, CancelOpen(id) \/ CancelDangling(id)
      PROVE  Submitted'
  BY <1>5 DEF CancelOpen, CancelDangling, Submitted
<1>6. CASE CancelDone
  BY <1>6 DEF CancelDone, Submitted
<1>7. ASSUME UNCHANGED <<pc, incoming>> PROVE Submitted'
  BY <1>7 DEF Submitted
<1> QED
  BY <1>1, <1>2, <1>3, <1>4, <1>5, <1>6, <1>7
     DEF Next, CancelUnknown, Connect, Corrupted, vars

\* Per order, no step but the end of a market order leaves it open for nothing.
LEMMA StrayStep ==
  ASSUME TypeInv, BookInv, Submitted, [Next]_vars, ~ub', NEW id \in NewId, Strays(id)
  PROVE  IsMarket(id)
<1>1. ASSUME NEW o \in Request, Refuse(o) \/ Accept(o) PROVE FALSE
  BY <1>1, RequestStray
<1>2. CASE Fill
  BY <1>2, FillStray
<1>3. CASE Rest \/ Settle \/ Complete
  BY <1>3, RestStray, SettleStray, CompleteStray
<1>4. ASSUME UNCHANGED <<levels, journal, taker>>, pc # "match" \/ pc' = pc PROVE FALSE
  BY <1>4 DEF Strays, Astray, IsOpen, LastLine, Resting, RestingOrders
<1>5. CASE CancelDone
  BY <1>4, <1>5 DEF CancelDone, bookVars
<1>6. ASSUME NEW cid \in OrderId, CancelOpen(cid) PROVE FALSE
  BY <1>6, CancelOpenStray
<1>7. ASSUME NEW cid \in OrderId, CancelDangling(cid) PROVE FALSE
  BY <1>7 DEF CancelDangling
<1>8. ASSUME NEW u \in User, Connect(u) PROVE FALSE
  BY <1>4, <1>8 DEF Connect, bookVars
<1>9. CASE UNCHANGED vars
  BY <1>4, <1>9 DEF vars, bookVars
<1> QED
  BY <1>1, <1>2, <1>3, <1>5, <1>6, <1>7, <1>8, <1>9 DEF Next, CancelUnknown, Corrupted

\* No order is left open in orders.jsonl without resting in the book, except
\* market orders that found less than they asked for: what process_order
\* journals and what it does to the book fit together on every path.
THEOREM OpenOrdersRest == Spec => OpenRests
<1>1. Init => Submitted
  BY DEF Init, Submitted
<1>2. TypeInv /\ BookInv /\ Submitted /\ [Next]_vars =>
        [\A id \in NewId : ~ub' /\ Astray(id)' /\ ~Astray(id) =>
           pc = "match" /\ taker.id = id /\ taker.type = "Market"]_vars
  BY StrayStep DEF Strays, IsMarket
<1> QED
  BY <1>1, <1>2, SubmittedStep, TypeInvariant, BookInvariant, PTL DEF Spec, OpenRests

-----------------------------------------------------------------------------
(* Reservations. Every change of the book takes one order out, puts one in, *)
(* or both; the reservation of its owner changes by exactly its value.      *)

\* Every order of a book.
OrdersOf(lv) == UNION {UNION {ToSet(lv[side][p]) : p \in DOMAIN lv[side]} : side \in Side}

LEMMA RestingOrdersOf ==
  /\ RestingOrders = OrdersOf(levels)
  /\ RestingOrders' = OrdersOf(levels')
BY DEF RestingOrders, OrdersOf

LEMMA InOrdersOf ==
  ASSUME NEW lv, NEW o
  PROVE  o \in OrdersOf(lv) <=>
           \E side \in Side : \E p \in DOMAIN lv[side] :
             \E i \in DOMAIN lv[side][p] : lv[side][p][i] = o
BY DEF OrdersOf, ToSet

\* A book has finitely many orders.
LEMMA FiniteOrders ==
  ASSUME NEW lv, LevelsType(lv)
  PROVE  OrdersOf(lv) \subseteq Order /\ IsFiniteSet(OrdersOf(lv))
<1>1. OrdersOf(lv) \subseteq Order
  <2>1. ASSUME NEW o \in OrdersOf(lv) PROVE o \in Order
    <3>1. PICK side \in Side : \E p \in DOMAIN lv[side] :
                                 \E i \in DOMAIN lv[side][p] : lv[side][p][i] = o
      BY InOrdersOf
    <3>2. PICK p \in DOMAIN lv[side] : \E i \in DOMAIN lv[side][p] : lv[side][p][i] = o
      BY <3>1
    <3>3. lv[side][p] \in Seq(Order)
      BY DEF LevelsType
    <3> QED
      BY <3>2, <3>3, ElementOfSeq, LenProperties
  <2> QED
    BY <2>1
<1> DEFINE A(side) == UNION {ToSet(lv[side][p]) : p \in DOMAIN lv[side]}
<1>2. ASSUME NEW side \in Side PROVE IsFiniteSet(A(side))
  <2>1. IsFiniteSet(DOMAIN lv[side])
    <3>1. IsFiniteSet(1..MaxPrice) /\ DOMAIN lv[side] \subseteq 1..MaxPrice
      BY BookAssumption, FS_Interval DEF LevelsType, Price
    <3> QED
      BY <3>1, FS_Subset
  <2> DEFINE C == {ToSet(lv[side][p]) : p \in DOMAIN lv[side]}
  <2>2. IsFiniteSet(C)
    <3> DEFINE f == [p \in DOMAIN lv[side] |-> ToSet(lv[side][p])]
    <3>1. C = {f[p] : p \in DOMAIN lv[side]}
      OBVIOUS
    <3> HIDE DEF C, f
    <3> QED
      BY <2>1, <3>1, FiniteImage
  <2>3. ASSUME NEW p \in DOMAIN lv[side] PROVE IsFiniteSet(ToSet(lv[side][p]))
    <3> DEFINE s == lv[side][p]
    <3>1. Len(s) \in Nat /\ DOMAIN s = 1..Len(s)
      <4>1. s \in Seq(Order)
        BY DEF LevelsType
      <4> QED
        BY <4>1, LenProperties
    <3> HIDE DEF s
    <3>2. IsFiniteSet(1..Len(s))
      <4>1. \A n \in Nat : IsFiniteSet(1..n)
        BY FS_Interval
      <4> QED
        BY <3>1, <4>1
    <3>3. IsFiniteSet({s[i] : i \in 1..Len(s)})
      BY <3>2, FiniteImage
    <3>4. ToSet(s) = {s[i] : i \in 1..Len(s)}
      BY <3>1 DEF ToSet
    <3> QED
      BY <3>3, <3>4 DEF s
  <2>4. \A c \in C : IsFiniteSet(c)
    BY <2>3
  <2> HIDE DEF C
  <2>5. IsFiniteSet(UNION C)
    BY <2>2, <2>4, FS_UNION
  <2> QED
    BY <2>5 DEF C
<1>3. OrdersOf(lv) = A("Buy") \cup A("Sell")
  BY DEF OrdersOf, Side
<1> HIDE DEF A
<1>4. IsFiniteSet(A("Buy") \cup A("Sell"))
  BY <1>2, FS_Union DEF Side
<1> QED
  BY <1>1, <1>3, <1>4

\* In a well-formed book an id names one order.
LEMMA OneOrderPerId ==
  ASSUME NEW lv, NEW ix, WellFormed(lv, ix),
         NEW a \in OrdersOf(lv), NEW b \in OrdersOf(lv), a.id = b.id
  PROVE  a = b
<1>1. PICK s \in Side : \E p \in DOMAIN lv[s] : \E i \in DOMAIN lv[s][p] : lv[s][p][i] = a
  BY InOrdersOf
<1>2. PICK p \in DOMAIN lv[s] : \E i \in DOMAIN lv[s][p] : lv[s][p][i] = a
  BY <1>1
<1>3. PICK i \in DOMAIN lv[s][p] : lv[s][p][i] = a
  BY <1>2
<1>4. PICK t \in Side : \E r \in DOMAIN lv[t] : \E j \in DOMAIN lv[t][r] : lv[t][r][j] = b
  BY InOrdersOf
<1>5. PICK r \in DOMAIN lv[t] : \E j \in DOMAIN lv[t][r] : lv[t][r][j] = b
  BY <1>4
<1>6. PICK j \in DOMAIN lv[t][r] : lv[t][r][j] = b
  BY <1>5
<1>7. QueueOK(lv[s][p], s, p, ix) /\ QueueOK(lv[t][r], t, r, ix)
  BY DEF WellFormed
<1>8. ix[a.id] = [side |-> s, price |-> p] /\ ix[b.id] = [side |-> t, price |-> r]
  BY <1>3, <1>6, <1>7 DEF QueueOK
<1>9. s = t /\ p = r
  BY <1>8
<1>10. i = j
  BY <1>3, <1>6, <1>7, <1>9 DEF QueueOK
<1> QED
  BY <1>3, <1>6, <1>9, <1>10

\* Storing a level replaces its orders and no others.
LEMMA OrdersAfterSetLevel ==
  ASSUME LevelsType(levels), WellFormed(levels, index),
         NEW side \in Side, NEW p \in Price, NEW q \in Seq(Order),
         NEW old, old = IF p \in DOMAIN levels[side] THEN levels[side][p] ELSE <<>>
  PROVE  /\ OrdersOf(SetLevel(side, p, q)) = (OrdersOf(levels) \ ToSet(old)) \cup ToSet(q)
         /\ ToSet(old) \subseteq OrdersOf(levels)
<1> DEFINE nl == SetLevel(side, p, q)
<1>1. \A s \in Side : s # side => nl[s] = levels[s]
  BY SetLevelProperties
<1>2. q = <<>> => DOMAIN nl[side] = DOMAIN levels[side] \ {p}
  BY SetLevelProperties
<1>3. q # <<>> => DOMAIN nl[side] = DOMAIN levels[side] \cup {p}
  BY SetLevelProperties
<1>4. q # <<>> => nl[side][p] = q
  BY SetLevelProperties
<1>5. \A r \in DOMAIN nl[side] : r # p => nl[side][r] = levels[side][r]
  BY SetLevelProperties
<1> HIDE DEF nl
<1>6. \A o \in ToSet(old) : o.side = side /\ o.price = p /\ o \in OrdersOf(levels)
  <2>1. CASE p \in DOMAIN levels[side]
    <3>1. old = levels[side][p] /\ QueueOK(old, side, p, index)
      BY <2>1 DEF WellFormed
    <3> QED
      BY <2>1, <3>1, InOrdersOf DEF ToSet, QueueOK
  <2>2. CASE p \notin DOMAIN levels[side]
    <3>1. old = <<>> /\ DOMAIN old = {}
      BY <2>2, EmptySeq
    <3> QED
      BY <3>1 DEF ToSet
  <2> QED
    BY <2>1, <2>2
<1>7. ASSUME NEW o \in OrdersOf(nl)
      PROVE  o \in (OrdersOf(levels) \ ToSet(old)) \cup ToSet(q)
  <2>1. PICK s \in Side : \E r \in DOMAIN nl[s] : \E i \in DOMAIN nl[s][r] : nl[s][r][i] = o
    BY InOrdersOf
  <2>2. PICK r \in DOMAIN nl[s] : \E i \in DOMAIN nl[s][r] : nl[s][r][i] = o
    BY <2>1
  <2>3. CASE s = side /\ r = p
    <3>1. q # <<>> /\ nl[s][r] = q
      BY <1>2, <1>4, <2>3
    <3> QED
      BY <2>2, <3>1 DEF ToSet
  <2>4. CASE s # side \/ r # p
    <3>1. r \in DOMAIN levels[s] /\ nl[s][r] = levels[s][r]
      BY <1>1, <1>2, <1>3, <1>5, <2>4
    <3>2. QueueOK(levels[s][r], s, r, index)
      BY <3>1 DEF WellFormed
    <3>3. o.side = s /\ o.price = r
      BY <2>2, <3>1, <3>2 DEF QueueOK
    <3>4. o \in OrdersOf(levels)
      BY <2>2, <3>1, InOrdersOf
    <3> QED
      BY <1>6, <2>4, <3>3, <3>4
  <2> QED
    BY <2>3, <2>4
<1>8. ASSUME NEW o \in OrdersOf(levels), o \notin ToSet(old)
      PROVE  o \in OrdersOf(nl)
  <2>1. PICK s \in Side : \E r \in DOMAIN levels[s] :
                            \E i \in DOMAIN levels[s][r] : levels[s][r][i] = o
    BY InOrdersOf
  <2>2. PICK r \in DOMAIN levels[s] : \E i \in DOMAIN levels[s][r] : levels[s][r][i] = o
    BY <2>1
  <2>3. s # side \/ r # p
    BY <1>8, <2>2 DEF ToSet
  <2>4. r \in DOMAIN nl[s] /\ nl[s][r] = levels[s][r]
    BY <1>1, <1>2, <1>3, <1>5, <2>3
  <2> QED
    BY <2>2, <2>4, InOrdersOf
<1>9. ASSUME NEW o \in ToSet(q)
      PROVE  o \in OrdersOf(nl)
  <2>1. PICK i \in DOMAIN q : q[i] = o
    BY DEF ToSet
  <2>2. q # <<>>
    BY <2>1, EmptySeq
  <2>3. p \in DOMAIN nl[side] /\ nl[side][p] = q
    BY <1>3, <1>4, <2>2
  <2> QED
    BY <2>1, <2>3, InOrdersOf
<1> QED
  BY <1>6, <1>7, <1>8, <1>9 DEF nl

\* What a fill, an order that joins and one that leaves do to the orders of a level.
LEMMA OrdersAfterFill ==
  ASSUME NEW queue \in Seq(Order), queue # <<>>, Distinct(queue), NEW left \in Nat,
         AfterFill(queue, left) \in Seq(Order)
  PROVE  ToSet(AfterFill(queue, left)) =
           (ToSet(queue) \ {queue[1]})
             \cup (IF left = 0 THEN {} ELSE {[queue[1] EXCEPT !.qty = left]})
<1> DEFINE q == AfterFill(queue, left)
           n == Len(queue)
<1>1. n \in Nat \ {0} /\ DOMAIN queue = 1..n
  BY LenProperties, EmptySeq
<1>2. \A k \in 2..n : queue[k] # queue[1]
  BY <1>1 DEF Distinct
<1>3. CASE left = 0
  <2>1. q = Tail(queue)
    BY <1>3 DEF AfterFill
  <2>2. /\ Tail(queue) \in Seq(Order) /\ Len(Tail(queue)) = n - 1
        /\ \A k \in 1..(n - 1) : Tail(queue)[k] = queue[k + 1]
    BY HeadTailProperties
  <2>3. DOMAIN q = 1..(n - 1) /\ \A k \in 1..(n - 1) : q[k] = queue[k + 1]
    BY <2>1, <2>2, LenProperties
  <2> HIDE DEF q, n
  <2>4. \A k \in 1..(n - 1) : k + 1 \in 2..n /\ k + 1 \in 1..n
    BY <1>1
  <2>5. \A k \in 1..n : k = 1 \/ (k - 1 \in 1..(n - 1) /\ (k - 1) + 1 = k)
    BY <1>1
  <2>6. ToSet(q) = ToSet(queue) \ {queue[1]}
    <3>1. ASSUME NEW o \in ToSet(q) PROVE o \in ToSet(queue) \ {queue[1]}
      BY <1>1, <1>2, <2>3, <2>4 DEF ToSet
    <3>2. ASSUME NEW o \in ToSet(queue), o # queue[1] PROVE o \in ToSet(q)
      <4>1. PICK k \in 1..n : queue[k] = o
        BY <1>1 DEF ToSet
      <4>2. k - 1 \in 1..(n - 1) /\ q[k - 1] = o
        BY <2>3, <2>5, <3>2, <4>1
      <4> QED
        BY <2>3, <4>2 DEF ToSet
    <3> QED
      BY <3>1, <3>2
  <2> QED
    BY <1>3, <2>6 DEF q
<1>4. CASE left # 0
  <2>1. q = [queue EXCEPT ![1].qty = left]
    BY <1>4 DEF AfterFill
  <2>2. /\ DOMAIN q = 1..n /\ q[1] = [queue[1] EXCEPT !.qty = left]
        /\ \A k \in 2..n : q[k] = queue[k]
    BY <1>1, <2>1
  <2> HIDE DEF q, n
  <2>3. \A k \in 1..n : k = 1 \/ k \in 2..n
    BY <1>1
  <2>4. 1 \in 1..n /\ \A k \in 2..n : k \in 1..n
    BY <1>1
  <2>5. ToSet(q) = (ToSet(queue) \ {queue[1]}) \cup {[queue[1] EXCEPT !.qty = left]}
    <3>1. ASSUME NEW o \in ToSet(q)
          PROVE  o \in (ToSet(queue) \ {queue[1]}) \cup {[queue[1] EXCEPT !.qty = left]}
      <4>1. PICK k \in 1..n : q[k] = o
        BY <2>2 DEF ToSet
      <4> QED
        BY <1>1, <1>2, <2>2, <2>3, <4>1 DEF ToSet
    <3>2. ASSUME NEW o \in ToSet(queue), o # queue[1] PROVE o \in ToSet(q)
      <4>1. PICK k \in 1..n : queue[k] = o
        BY <1>1 DEF ToSet
      <4> QED
        BY <2>2, <2>3, <3>2, <4>1 DEF ToSet
    <3>3. q[1] \in ToSet(q)
      BY <2>2, <2>4 DEF ToSet
    <3> QED
      BY <2>2, <3>1, <3>2, <3>3
  <2> QED
    BY <1>4, <2>5 DEF q
<1> QED
  BY <1>3, <1>4

LEMMA OrdersAfterAppend ==
  ASSUME NEW old \in Seq(Order), NEW o \in Order
  PROVE  ToSet(Append(old, o)) = ToSet(old) \cup {o}
<1> DEFINE n == Len(old)
           q == Append(old, o)
<1>1. n \in Nat /\ DOMAIN old = 1..n
  BY LenProperties
<1>2. DOMAIN q = 1..(n + 1) /\ q[n + 1] = o /\ \A k \in 1..n : q[k] = old[k]
  BY AppendProperties, LenProperties
<1> HIDE DEF q, n
<1>3. \A k \in 1..(n + 1) : k = n + 1 \/ k \in 1..n
  BY <1>1
<1>4. n + 1 \in 1..(n + 1) /\ \A k \in 1..n : k \in 1..(n + 1)
  BY <1>1
<1>5. ToSet(q) = ToSet(old) \cup {o}
  BY <1>1, <1>2, <1>3, <1>4 DEF ToSet
<1> QED
  BY <1>5 DEF q

LEMMA OrdersAfterRemove ==
  ASSUME NEW queue \in Seq(Order), Distinct(queue), NEW i \in 1..Len(queue)
  PROVE  ToSet(RemoveAt(queue, i)) = ToSet(queue) \ {queue[i]}
<1> DEFINE n == Len(queue)
           q == RemoveAt(queue, i)
<1>1. n \in Nat /\ DOMAIN queue = 1..n /\ i \in 1..n
  BY LenProperties
<1>2. /\ q \in Seq(Order) /\ Len(q) = n - 1
      /\ \A k \in 1..(n - 1) : q[k] = IF k < i THEN queue[k] ELSE queue[k + 1]
  BY RemoveAtProperties
<1>3. DOMAIN q = 1..(n - 1)
  BY <1>2, LenProperties
<1>4. \A k \in 1..n : k # i => queue[k] # queue[i]
  BY <1>1 DEF Distinct
<1> HIDE DEF q, n
<1>5. ASSUME NEW o \in ToSet(q) PROVE o \in ToSet(queue) \ {queue[i]}
  <2>1. PICK k \in 1..(n - 1) : q[k] = o
    BY <1>3 DEF ToSet
  <2>2. CASE k < i
    <3>1. k \in 1..n /\ k # i /\ o = queue[k]
      BY <1>1, <1>2, <2>1, <2>2
    <3> QED
      BY <1>1, <1>4, <3>1 DEF ToSet
  <2>3. CASE ~(k < i)
    <3>1. k + 1 \in 1..n /\ k + 1 # i /\ o = queue[k + 1]
      BY <1>1, <1>2, <2>1, <2>3
    <3> QED
      BY <1>1, <1>4, <3>1 DEF ToSet
  <2> QED
    BY <2>2, <2>3
<1>6. ASSUME NEW o \in ToSet(queue), o # queue[i] PROVE o \in ToSet(q)
  <2>1. PICK k \in 1..n : queue[k] = o
    BY <1>1 DEF ToSet
  <2>2. CASE k < i
    <3>1. k \in 1..(n - 1) /\ q[k] = o
      BY <1>1, <1>2, <2>1, <2>2
    <3> QED
      BY <1>3, <3>1 DEF ToSet
  <2>3. CASE k > i
    <3>1. k - 1 \in 1..(n - 1) /\ ~(k - 1 < i) /\ (k - 1) + 1 = k
      BY <1>1, <2>3
    <3>2. q[k - 1] = o
      BY <1>2, <2>1, <3>1
    <3> QED
      BY <1>3, <3>1, <3>2 DEF ToSet
  <2>4. k # i
    BY <1>6, <2>1
  <2> QED
    BY <1>1, <2>2, <2>3, <2>4
<1> QED
  BY <1>5, <1>6 DEF q

\* Fill takes its maker out of the book, or leaves it there with less.
LEMMA FillOrders ==
  ASSUME TypeInv, BookInv, Fill
  PROVE  \E maker \in RestingOrders, qty \in Nat :
           /\ maker \in Order /\ maker.side = Opposite(taker.side)
           /\ maker.price \in Price /\ maker.price = Best(Opposite(taker.side))
           /\ maker.id \in DOMAIN index
           /\ taker \in Order /\ qty <= taker.qty /\ qty <= maker.qty /\ 0 < qty
           /\ trades' = Append(trades,
                          [maker_id |-> maker.id, taker_id |-> taker.id,
                           maker_user_id |-> UserOf(maker.id), taker_user_id |-> taker.user_id,
                           price |-> maker.price, qty |-> qty])
           /\ OnFill(maker.id, taker.id, maker.price, qty, taker.side)
           /\ taker' = [taker EXCEPT !.qty = @ - qty]
           /\ EmitMaker(maker.id, qty, maker.qty - qty)
           /\ RestingOrders' = (RestingOrders \ {maker})
                \cup (IF maker.qty - qty = 0 THEN {}
                                             ELSE {[maker EXCEPT !.qty = maker.qty - qty]})
<1> DEFINE side  == Opposite(taker.side)
           price == Best(side)
           queue == levels[side][price]
           maker == Head(queue)
           qty   == FillQty(taker.qty, maker.qty)
           left  == maker.qty - qty
<1>1. pc = "match" /\ CanMatch /\ ~ub /\ TypeOK /\ LevelsType(levels)
  BY DEF Fill, TypeInv, InFlightOK, TypeOK
<1>2. /\ side \in Side /\ price \in DOMAIN levels[side] /\ price \in Price /\ taker \in Order
      /\ queue \in Seq(Order) /\ queue # <<>> /\ maker \in Order /\ maker = queue[1]
      /\ qty \in Nat /\ qty <= taker.qty /\ qty <= maker.qty /\ (maker.qty > 0 => qty > 0)
      /\ AfterFill(queue, left) \in Seq(Order)
  BY <1>1, FillFacts
<1>3. /\ trades' = Append(trades,
                          [maker_id |-> maker.id, taker_id |-> taker.id,
                           maker_user_id |-> UserOf(maker.id), taker_user_id |-> taker.user_id,
                           price |-> price, qty |-> qty])
      /\ OnFill(maker.id, taker.id, price, qty, taker.side)
      /\ taker' = [taker EXCEPT !.qty = @ - qty]
      /\ EmitMaker(maker.id, qty, left)
      /\ levels' = SetLevel(side, price, AfterFill(queue, left))
  BY DEF Fill
<1>4. queue = levels[side][price] /\ left = maker.qty - qty
  OBVIOUS
<1> HIDE DEF side, price, queue, maker, qty, left
<1>5. left \in Nat
  BY <1>2, <1>4 DEF Order
<1>6. WellFormed(levels, index) /\ QueueOK(queue, side, price, index)
  BY <1>1, <1>2, <1>4 DEF BookInv, BookConsistent, WellFormed
<1>7. Distinct(queue) /\ 1 \in DOMAIN queue
  BY <1>2, <1>6, EmptySeq, LenProperties DEF QueueOK, Distinct
<1>8. ToSet(AfterFill(queue, left)) = (ToSet(queue) \ {maker})
         \cup (IF left = 0 THEN {} ELSE {[maker EXCEPT !.qty = left]})
  BY <1>2, <1>5, <1>7, OrdersAfterFill
<1>9. /\ OrdersOf(levels') = (OrdersOf(levels) \ ToSet(queue)) \cup ToSet(AfterFill(queue, left))
      /\ ToSet(queue) \subseteq OrdersOf(levels)
  BY <1>1, <1>2, <1>3, <1>4, <1>6, OrdersAfterSetLevel
<1>10. maker \in ToSet(queue) /\ maker.side = side /\ maker.price = price
       /\ maker.id \in DOMAIN index /\ maker.qty > 0
  BY <1>2, <1>6, <1>7 DEF ToSet, QueueOK
<1>11. OrdersOf(levels') = (OrdersOf(levels) \ {maker})
              \cup (IF left = 0 THEN {} ELSE {[maker EXCEPT !.qty = left]})
  <2> DEFINE new == IF left = 0 THEN {} ELSE {[maker EXCEPT !.qty = left]}
  <2>1. ToSet(AfterFill(queue, left)) = (ToSet(queue) \ {maker}) \cup new
    BY <1>8
  <2> HIDE DEF new
  <2>2. OrdersOf(levels') = (OrdersOf(levels) \ {maker}) \cup new
    BY <2>1, <1>9, <1>10
  <2> QED
    BY <2>2 DEF new
<1>12. /\ maker \in RestingOrders
       /\ RestingOrders' = (RestingOrders \ {maker})
              \cup (IF left = 0 THEN {} ELSE {[maker EXCEPT !.qty = left]})
  BY <1>9, <1>10, <1>11, RestingOrdersOf
<1>13. side = Opposite(taker.side) /\ price = Best(Opposite(taker.side)) /\ qty > 0
  BY <1>2, <1>10 DEF side, price
<1>14. maker \in RestingOrders /\ qty \in Nat
  BY <1>2, <1>12
<1> USE <1>14
<1> WITNESS maker \in RestingOrders, qty \in Nat
<1> QED
  BY <1>2, <1>3, <1>4, <1>10, <1>12, <1>13

\* Rest puts the order into the book.
LEMMA RestOrders ==
  ASSUME TypeInv, BookInv, Rest
  PROVE  RestingOrders' = RestingOrders \cup {taker}
<1>1. /\ pc = "match" /\ TypeOK /\ LevelsType(levels) /\ ~ub
      /\ taker \in Order /\ taker.price \in Price /\ taker.side \in Side
      /\ levels' = PushBack(taker)
  BY RestFacts DEF TypeInv, TypeOK
<1> DEFINE old == IF taker.price \in DOMAIN levels[taker.side]
                  THEN levels[taker.side][taker.price] ELSE <<>>
<1>2. WellFormed(levels, index)
  BY <1>1 DEF BookInv, BookConsistent
<1>3. /\ old \in Seq(Order) /\ Append(old, taker) \in Seq(Order)
      /\ levels' = SetLevel(taker.side, taker.price, Append(old, taker))
  BY <1>1, PushBackIsSetLevel
<1>4. old = IF taker.price \in DOMAIN levels[taker.side]
            THEN levels[taker.side][taker.price] ELSE <<>>
  OBVIOUS
<1> HIDE DEF old
<1>5. ToSet(Append(old, taker)) = ToSet(old) \cup {taker}
  BY <1>1, <1>3, OrdersAfterAppend
<1>6. /\ OrdersOf(levels') = (OrdersOf(levels) \ ToSet(old)) \cup ToSet(Append(old, taker))
      /\ ToSet(old) \subseteq OrdersOf(levels)
  <2> DEFINE q == Append(old, taker)
             t == taker.side
             p == taker.price
  <2>1. t \in Side /\ p \in Price /\ q \in Seq(Order)
    BY <1>1, <1>3
  <2>2. old = IF p \in DOMAIN levels[t] THEN levels[t][p] ELSE <<>>
    BY <1>4
  <2> HIDE DEF q, t, p
  <2>3. /\ OrdersOf(SetLevel(t, p, q)) = (OrdersOf(levels) \ ToSet(old)) \cup ToSet(q)
        /\ ToSet(old) \subseteq OrdersOf(levels)
    BY <1>1, <1>2, <2>1, <2>2, OrdersAfterSetLevel
  <2> QED
    BY <1>3, <2>3 DEF q, t, p
<1> QED
  BY <1>5, <1>6, RestingOrdersOf

\* CancelOpen takes the order out.
LEMMA CancelOpenOrders ==
  ASSUME TypeInv, BookInv, NEW id \in OrderId, CancelOpen(id)
  PROVE  \E o \in RestingOrders :
           /\ o.id = id /\ withdrawn' = o
           /\ RestingOrders' = RestingOrders \ {o}
<1>1. TypeOK /\ LevelsType(levels) /\ ~ub
  BY DEF CancelOpen, TypeInv, TypeOK
<1>2. PICK side \in Side, price \in Price :
           /\ index[id] = [side |-> side, price |-> price]
           /\ price \in DOMAIN levels[side]
           /\ levels[side][price] \in Seq(Order)
           /\ \E i \in 1..Len(levels[side][price]) :
                /\ levels[side][price][i].id = id
                /\ levels[side][price][i] \in Order
                /\ withdrawn' = levels[side][price][i]
                /\ levels' = SetLevel(side, price, RemoveAt(levels[side][price], i))
                /\ index' = Erase(index, id)
  BY <1>1, CancelOpenFacts
<1> DEFINE queue == levels[side][price]
<1>3. PICK i \in 1..Len(queue) : /\ queue[i].id = id
                                 /\ withdrawn' = queue[i]
                                 /\ levels' = SetLevel(side, price, RemoveAt(queue, i))
  BY <1>2
<1>4. WellFormed(levels, index) /\ QueueOK(queue, side, price, index)
  BY <1>1, <1>2 DEF BookInv, BookConsistent, WellFormed
<1>5. queue \in Seq(Order) /\ Distinct(queue) /\ i \in DOMAIN queue
  BY <1>2, <1>4, LenProperties DEF QueueOK, Distinct
<1>6. RemoveAt(queue, i) \in Seq(Order)
  BY <1>5, RemoveAtProperties
<1>7. ToSet(RemoveAt(queue, i)) = ToSet(queue) \ {queue[i]}
  BY <1>5, OrdersAfterRemove
<1>8. /\ OrdersOf(levels') = (OrdersOf(levels) \ ToSet(queue)) \cup ToSet(RemoveAt(queue, i))
      /\ ToSet(queue) \subseteq OrdersOf(levels)
  BY <1>1, <1>2, <1>3, <1>4, <1>6, OrdersAfterSetLevel
<1>9. queue[i] \in ToSet(queue)
  BY <1>5 DEF ToSet
<1>10. queue[i] \in RestingOrders /\ RestingOrders' = RestingOrders \ {queue[i]}
  BY <1>7, <1>8, <1>9, RestingOrdersOf
<1> QED
  BY <1>3, <1>10

\* An order's id is in the index, its owner is the user it is registered to.
LEMMA OwnedOrder ==
  ASSUME ~ub, BookConsistent, OwnersAgree, NEW o \in RestingOrders
  PROVE  o.id \in DOMAIN index /\ o.user_id = UserOf(o.id)
<1>1. PICK side \in Side : \E p \in DOMAIN levels[side] :
                             \E i \in DOMAIN levels[side][p] : levels[side][p][i] = o
  BY InOrdersOf, RestingOrdersOf
<1>2. PICK p \in DOMAIN levels[side] : \E i \in DOMAIN levels[side][p] : levels[side][p][i] = o
  BY <1>1
<1>3. QueueOK(levels[side][p], side, p, index)
  BY DEF BookConsistent, WellFormed
<1> QED
  BY <1>2, <1>3 DEF QueueOK, OwnersAgree

\* What an order of side, price and qty locks up, and what a position has locked.
Amount(side, price, qty) == IF side = "Buy" THEN price * qty ELSE qty
Held(pos, side) == IF side = "Buy" THEN pos.reserved_balance ELSE pos.reserved_shares

\* What the orders of user u on one side lock up, of a set of orders.
Lock(side) == [o \in Order |-> Amount(side, o.price, o.qty)]
OwnedBy(orders, u, side) == {o \in orders : o.user_id = u /\ o.side = side}
Locked(orders, u, side) == SumFunctionOnSet(Lock(side), OwnedBy(orders, u, side))

LEMMA AmountType ==
  \A side, price, qty : price \in Int /\ qty \in Int => Amount(side, price, qty) \in Int
BY DEF Amount

LEMMA LockOf ==
  ASSUME NEW side \in Side, NEW o \in Order
  PROVE  Lock(side)[o] = Amount(side, o.price, o.qty) /\ Lock(side)[o] \in Int
<1>1. o.price \in Int /\ o.qty \in Int
  BY DEF Order
<1> QED
  BY <1>1, AmountType DEF Lock

\* ReservedExactly in these words, before a step and after it.
HeldIsLocked(pos, orders, u) == \A side \in Side : Held(pos[u], side) = Locked(orders, u, side)

LEMMA LockedSums ==
  ASSUME NEW orders \in SUBSET Order, IsFiniteSet(orders), NEW u
  PROVE  /\ SumFunction([o \in OwnedBy(orders, u, "Buy") |-> o.price * o.qty])
              = Locked(orders, u, "Buy")
         /\ SumFunction([o \in OwnedBy(orders, u, "Sell") |-> o.qty])
              = Locked(orders, u, "Sell")
<1>1. ASSUME NEW side \in Side, NEW f, DOMAIN f = OwnedBy(orders, u, side),
             \A o \in OwnedBy(orders, u, side) : f[o] = Amount(side, o.price, o.qty)
      PROVE  SumFunction(f) = Locked(orders, u, side)
  <2> DEFINE S == OwnedBy(orders, u, side)
  <2>1. S \subseteq Order /\ S \subseteq orders
    BY DEF OwnedBy
  <2>2. IsFiniteSet(S)
    BY <2>1, FS_Subset
  <2>3. \A o \in S : f[o] = Lock(side)[o]
    BY <1>1, <2>1, LockOf
  <2> HIDE DEF S
  <2>4. SumFunctionOnSet(f, S) = SumFunctionOnSet(Lock(side), S)
    BY <2>2, <2>3, SumAgrees
  <2> QED
    BY <1>1, <2>4 DEF S, SumFunction, Locked
<1>2. /\ DOMAIN [o \in OwnedBy(orders, u, "Buy") |-> o.price * o.qty] = OwnedBy(orders, u, "Buy")
      /\ \A o \in OwnedBy(orders, u, "Buy") :
           [x \in OwnedBy(orders, u, "Buy") |-> x.price * x.qty][o] = Amount("Buy", o.price, o.qty)
  BY DEF Amount
<1>3. /\ DOMAIN [o \in OwnedBy(orders, u, "Sell") |-> o.qty] = OwnedBy(orders, u, "Sell")
      /\ \A o \in OwnedBy(orders, u, "Sell") :
           [x \in OwnedBy(orders, u, "Sell") |-> x.qty][o] = Amount("Sell", o.price, o.qty)
  BY DEF Amount
<1> QED
  BY <1>1, <1>2, <1>3 DEF Side

LEMMA SecuredType ==
  /\ TypeOK => Secured \in SUBSET Order /\ IsFiniteSet(Secured)
  /\ TypeOK' => Secured' \in SUBSET Order /\ IsFiniteSet(Secured')
<1>1. ASSUME NEW lv, LevelsType(lv), NEW out, NEW in \in SUBSET Order, IsFiniteSet(in)
      PROVE  /\ (OrdersOf(lv) \ out) \cup in \in SUBSET Order
             /\ IsFiniteSet((OrdersOf(lv) \ out) \cup in)
  <2>1. OrdersOf(lv) \subseteq Order /\ IsFiniteSet(OrdersOf(lv))
    BY <1>1, FiniteOrders
  <2>2. IsFiniteSet(OrdersOf(lv) \ out)
    BY <2>1, FS_Subset
  <2> QED
    BY <1>1, <2>1, <2>2, FS_Union
<1>2. ASSUME NEW o \in Order PROVE IsFiniteSet({o})
  BY FS_Singleton
<1>3. IsFiniteSet({})
  BY FS_EmptySet
<1>4. ASSUME TypeOK PROVE Secured \in SUBSET Order /\ IsFiniteSet(Secured)
  <2> DEFINE in == IF pc = "cancel" THEN {withdrawn} ELSE {}
  <2>1. LevelsType(levels) /\ in \in SUBSET Order /\ IsFiniteSet(in)
    BY <1>2, <1>3, <1>4 DEF TypeOK
  <2> QED
    BY <1>1, <2>1, RestingOrdersOf DEF Secured
<1>5. ASSUME TypeOK' PROVE Secured' \in SUBSET Order /\ IsFiniteSet(Secured')
  <2> DEFINE in == IF pc' = "cancel" THEN {withdrawn'} ELSE {}
  <2>1. LevelsType(levels') /\ in \in SUBSET Order /\ IsFiniteSet(in)
    BY <1>2, <1>3, <1>5 DEF TypeOK
  <2> QED
    BY <1>1, <2>1, RestingOrdersOf DEF Secured
<1> QED
  BY <1>4, <1>5

LEMMA ReservedIsHeld ==
  ASSUME NEW u
  PROVE  /\ TypeOK => (ReservedExactly(u) <=> HeldIsLocked(positions, Secured, u))
         /\ TypeOK' => (ReservedExactly(u)' <=> HeldIsLocked(positions', Secured', u))
<1>1. ASSUME TypeOK
      PROVE  ReservedExactly(u) <=> HeldIsLocked(positions, Secured, u)
  <2> DEFINE R == Secured
  <2>1. /\ SumFunction([o \in OwnedBy(R, u, "Buy") |-> o.price * o.qty]) = Locked(R, u, "Buy")
        /\ SumFunction([o \in OwnedBy(R, u, "Sell") |-> o.qty]) = Locked(R, u, "Sell")
    <3>1. R \in SUBSET Order /\ IsFiniteSet(R)
      BY <1>1, SecuredType
    <3> HIDE DEF R
    <3> QED
      BY <3>1, LockedSums
  <2>2. ReservedExactly(u) <=>
          /\ positions[u].reserved_balance
               = SumFunction([o \in OwnedBy(R, u, "Buy") |-> o.price * o.qty])
          /\ positions[u].reserved_shares
               = SumFunction([o \in OwnedBy(R, u, "Sell") |-> o.qty])
    BY DEF ReservedExactly, OwnedBy
  <2> HIDE DEF R
  <2>3. ReservedExactly(u) <=> HeldIsLocked(positions, R, u)
    BY <2>1, <2>2 DEF HeldIsLocked, Held, Side
  <2> QED
    BY <2>3 DEF R
<1>2. ASSUME TypeOK'
      PROVE  ReservedExactly(u)' <=> HeldIsLocked(positions', Secured', u)
  <2> DEFINE R == Secured'
  <2>1. /\ SumFunction([o \in OwnedBy(R, u, "Buy") |-> o.price * o.qty]) = Locked(R, u, "Buy")
        /\ SumFunction([o \in OwnedBy(R, u, "Sell") |-> o.qty]) = Locked(R, u, "Sell")
    <3>1. R \in SUBSET Order /\ IsFiniteSet(R)
      BY <1>2, SecuredType
    <3> HIDE DEF R
    <3> QED
      BY <3>1, LockedSums
  <2>2. ReservedExactly(u)' <=>
          /\ positions'[u].reserved_balance
               = SumFunction([o \in OwnedBy(R, u, "Buy") |-> o.price * o.qty])
          /\ positions'[u].reserved_shares
               = SumFunction([o \in OwnedBy(R, u, "Sell") |-> o.qty])
    BY DEF ReservedExactly, OwnedBy
  <2> HIDE DEF R
  <2>3. ReservedExactly(u)' <=> HeldIsLocked(positions', R, u)
    BY <2>1, <2>2 DEF HeldIsLocked, Held, Side
  <2> QED
    BY <2>3 DEF R
<1> QED
  BY <1>1, <1>2

\* One order more, one order less.
LEMMA LockedInsert ==
  ASSUME NEW orders \in SUBSET Order, IsFiniteSet(orders), NEW a \in Order, a \notin orders,
         NEW u, NEW side \in Side
  PROVE  /\ Locked(orders, u, side) \in Int
         /\ a.user_id = u /\ a.side = side =>
              Locked(orders \cup {a}, u, side)
                = Locked(orders, u, side) + Amount(side, a.price, a.qty)
         /\ a.user_id # u \/ a.side # side =>
              Locked(orders \cup {a}, u, side) = Locked(orders, u, side)
<1> DEFINE S == OwnedBy(orders, u, side)
           f == Lock(side)
<1>1. S \subseteq orders /\ S \subseteq Order /\ a \notin S
  BY DEF OwnedBy
<1>2. IsFiniteSet(S)
  BY <1>1, FS_Subset
<1>3. \A o \in S \cup {a} : f[o] \in Int
  BY <1>1, LockOf
<1>4. f[a] = Amount(side, a.price, a.qty)
  BY LockOf
<1>5. /\ a.user_id = u /\ a.side = side => OwnedBy(orders \cup {a}, u, side) = S \cup {a}
      /\ a.user_id # u \/ a.side # side => OwnedBy(orders \cup {a}, u, side) = S
  BY DEF OwnedBy
<1> HIDE DEF S, f
<1>6. /\ SumFunctionOnSet(f, S) \in Int
      /\ SumFunctionOnSet(f, S \cup {a}) = f[a] + SumFunctionOnSet(f, S)
  BY <1>1, <1>2, <1>3, SumInsert
<1>7. f[a] \in Int
  BY <1>3
<1>8. SumFunctionOnSet(f, S \cup {a}) = SumFunctionOnSet(f, S) + f[a]
  BY <1>6, <1>7
<1>9. Locked(orders, u, side) = SumFunctionOnSet(f, S)
  BY DEF Locked, S, f
<1>10. Locked(orders \cup {a}, u, side) = SumFunctionOnSet(f, OwnedBy(orders \cup {a}, u, side))
  BY DEF Locked, f
<1> QED
  BY <1>4, <1>5, <1>6, <1>8, <1>9, <1>10, Zenon

LEMMA LockedRemove ==
  ASSUME NEW orders \in SUBSET Order, IsFiniteSet(orders), NEW a \in orders,
         NEW u, NEW side \in Side
  PROVE  /\ Locked(orders \ {a}, u, side) \in Int
         /\ a.user_id = u /\ a.side = side =>
              Locked(orders \ {a}, u, side)
                = Locked(orders, u, side) - Amount(side, a.price, a.qty)
         /\ a.user_id # u \/ a.side # side =>
              Locked(orders \ {a}, u, side) = Locked(orders, u, side)
<1> DEFINE rest == orders \ {a}
<1>1. /\ rest \in SUBSET Order /\ a \notin rest /\ rest \cup {a} = orders /\ a \in Order
      /\ IsFiniteSet(rest)
  BY FS_RemoveElement
<1> HIDE DEF rest
<1> DEFINE l == Locked(rest, u, side)
           m == Locked(orders, u, side)
           n == Amount(side, a.price, a.qty)
<1>2. /\ l \in Int
      /\ a.user_id = u /\ a.side = side => m = l + n
      /\ a.user_id # u \/ a.side # side => m = l
  BY <1>1, LockedInsert
<1>3. n \in Int
  BY <1>1, AmountType DEF Order
<1> HIDE DEF l, m, n
<1>4. /\ l \in Int
      /\ a.user_id = u /\ a.side = side => l = m - n
      /\ a.user_id # u \/ a.side # side => l = m
  BY <1>2, <1>3
<1> QED
  BY <1>4 DEF l, m, n, rest

\* What each change of a position does to what it has reserved.
LEMMA HeldChanges ==
  ASSUME NEW pos \in Position, NEW side \in Side, NEW s \in Side,
         NEW price \in Int, NEW qty \in Int
  PROVE  /\ Held(pos, s) \in Int /\ Amount(side, price, qty) \in Int
         /\ Held(Executed(pos, side, price, qty), s) = Held(pos, s)
         /\ s # side => /\ Held(Reserve(pos, side, price, qty), s) = Held(pos, s)
                        /\ Held(Release(pos, side, price, qty), s) = Held(pos, s)
         /\ s = side => /\ Held(Reserve(pos, side, price, qty), s)
                             = Held(pos, s) + Amount(side, price, qty)
                        /\ Held(Release(pos, side, price, qty), s)
                             = Held(pos, s) - Amount(side, price, qty)
<1> DEFINE v == price * qty
<1>1. /\ pos.reserved_balance \in Int /\ pos.reserved_shares \in Int /\ v \in Int
      /\ Amount(side, price, qty) \in Int
  BY AmountType DEF Position
<1>2. /\ Bought(pos, v, qty).reserved_balance = pos.reserved_balance
      /\ Bought(pos, v, qty).reserved_shares = pos.reserved_shares
      /\ Sold(pos, v, qty).reserved_balance = pos.reserved_balance
      /\ Sold(pos, v, qty).reserved_shares = pos.reserved_shares
  BY DEF Bought, Sold, Position
<1>3. Held(Executed(pos, side, price, qty), s) = Held(pos, s)
  BY <1>2 DEF Executed, Held
<1>4. /\ side = "Buy" => /\ Reserve(pos, side, price, qty).reserved_balance
                              = pos.reserved_balance + v
                         /\ Reserve(pos, side, price, qty).reserved_shares = pos.reserved_shares
                         /\ Release(pos, side, price, qty).reserved_balance
                              = pos.reserved_balance - v
                         /\ Release(pos, side, price, qty).reserved_shares = pos.reserved_shares
      /\ side = "Sell" => /\ Reserve(pos, side, price, qty).reserved_balance = pos.reserved_balance
                          /\ Reserve(pos, side, price, qty).reserved_shares
                               = pos.reserved_shares + qty
                          /\ Release(pos, side, price, qty).reserved_balance = pos.reserved_balance
                          /\ Release(pos, side, price, qty).reserved_shares
                               = pos.reserved_shares - qty
  BY DEF Reserve, Release, Position
<1>5. /\ side = "Buy" => Amount(side, price, qty) = v
      /\ side = "Sell" => Amount(side, price, qty) = qty
  BY DEF Amount
<1> HIDE DEF v
<1> QED
  BY <1>1, <1>3, <1>4, <1>5 DEF Held, Side

\* A fill releases what the maker's order had locked up for it, and reserves nothing.
LEMMA FillHeld ==
  ASSUME TypeOK, NEW m, NEW t, NEW price \in Int, NEW qty \in Int, NEW side \in Side,
         NEW u \in User, NEW s \in Side
  PROVE  LET np == Filled(m, t, price, qty, side)
         IN  /\ u = UserOf(m) /\ s = Opposite(side) =>
                  Held(np[u], s) = Held(positions[u], s) - Amount(s, price, qty)
             /\ u # UserOf(m) \/ s # Opposite(side) => Held(np[u], s) = Held(positions[u], s)
<1> DEFINE np == Filled(m, t, price, qty, side)
           p1 == TakerFilled(positions, UserOf(t), side, price, qty)
           mside == Opposite(side)
<1>1. /\ positions \in [User -> Position] /\ UserOf(t) \in User /\ UserOf(m) \in User
      /\ mside \in Side
  BY UserOfType, OppositeSide DEF TypeOK
<1>2. p1 = [positions EXCEPT ![UserOf(t)] = Executed(positions[UserOf(t)], side, price, qty)]
  BY DEF TakerFilled
<1>3. p1 \in [User -> Position]
  BY <1>1, <1>2, PositionOps
<1>4. np = [p1 EXCEPT ![UserOf(m)] =
              Release(Executed(p1[UserOf(m)], mside, price, qty), mside, price, qty)]
  BY DEF Filled, MakerFilled
<1> HIDE DEF np, p1, mside
<1>5. positions[u] \in Position /\ p1[u] \in Position
  BY <1>1, <1>3
<1>6. Held(p1[u], s) = Held(positions[u], s)
  <2>1. CASE u = UserOf(t)
    <3>1. p1[u] = Executed(positions[u], side, price, qty)
      BY <1>1, <1>2, <2>1
    <3> QED
      BY <1>5, <3>1, HeldChanges
  <2>2. CASE u # UserOf(t)
    BY <1>1, <1>2, <2>2
  <2> QED
    BY <2>1, <2>2
<1>7. CASE u # UserOf(m)
  BY <1>1, <1>3, <1>4, <1>6, <1>7 DEF np
<1>8. CASE u = UserOf(m)
  <2> DEFINE e == Executed(p1[u], mside, price, qty)
  <2>1. e \in Position /\ Held(e, s) = Held(positions[u], s)
    BY <1>1, <1>5, <1>6, PositionOps, HeldChanges
  <2>2. np[u] = Release(e, mside, price, qty)
    BY <1>1, <1>3, <1>4, <1>8
  <2> HIDE DEF e
  <2>3. /\ s = mside => Held(np[u], s) = Held(e, s) - Amount(s, price, qty)
        /\ s # mside => Held(np[u], s) = Held(e, s)
    BY <1>1, <2>1, <2>2, HeldChanges
  <2> QED
    BY <1>8, <2>1, <2>3 DEF np, mside
<1> QED
  BY <1>7, <1>8

LEMMA AmountSplit ==
  \A side : \A price, all, part \in Int :
    Amount(side, price, all) = Amount(side, price, part) + Amount(side, price, all - part)
BY DEF Amount

\* What is known before a step, and what is to be shown of it.
LEMMA ReservedBefore ==
  ASSUME TypeOK, ReservationsExact, ~ub, NEW u \in User \ ({0} \cup wiped), NEW side \in Side
  PROVE  /\ Secured \in SUBSET Order /\ IsFiniteSet(Secured)
         /\ Held(positions[u], side) = Locked(Secured, u, side)
BY SecuredType, ReservedIsHeld DEF ReservationsExact, HeldIsLocked

LEMMA ReservedAfter ==
  ASSUME TypeOK',
         \A u \in User \ ({0} \cup wiped') : \A side \in Side :
           Held(positions'[u], side) = Locked(Secured', u, side)
  PROVE  ReservationsExact'
<1>1. \A u \in User \ ({0} \cup wiped') : HeldIsLocked(positions', Secured', u)
  BY DEF HeldIsLocked
<1>2. \A u \in User \ ({0} \cup wiped') : ReservedExactly(u)'
  BY <1>1, ReservedIsHeld
<1> QED
  BY <1>2 DEF ReservationsExact

\* A step that changes neither what is secured nor a position, but that of a
\* user who is new.
LEMMA ReservedUnchanged ==
  ASSUME ReservationsExact, Secured' = Secured, ub' = ub, wiped \subseteq wiped',
         \A u \in User \ ({0} \cup wiped') : positions'[u] = positions[u]
  PROVE  ReservationsExact'
<1>1. ASSUME NEW u \in User \ ({0} \cup wiped'), ReservedExactly(u)
      PROVE  ReservedExactly(u)'
  BY <1>1 DEF ReservedExactly
<1> QED
  BY <1>1 DEF ReservationsExact

LEMMA ReservedInit == Init => ReservationsExact
<1> SUFFICES ASSUME Init PROVE ReservationsExact
  OBVIOUS
<1>1. TypeOK
  BY TypeInit DEF TypeInv
<1>2. LevelsType(levels) /\ OfSystem(levels)
  BY SeedAssumption DEF Init, Seeded
<1>3. Secured = OrdersOf(levels)
  BY RestingOrdersOf DEF Init, Secured
<1>4. ASSUME NEW u \in User \ {0}, NEW side \in Side
      PROVE  Held(positions[u], side) = Locked(Secured, u, side)
  <2>1. Held(positions[u], side) = 0
    BY DEF Init, UserInit, DefaultPosition, Held
  <2>2. OwnedBy(Secured, u, side) = {}
    <3>1. ASSUME NEW o \in OrdersOf(levels) PROVE o.user_id = 0
      <4>1. PICK s \in Side : \E p \in DOMAIN levels[s] :
                                \E i \in DOMAIN levels[s][p] : levels[s][p][i] = o
        BY InOrdersOf
      <4> QED
        BY <1>2, <4>1 DEF OfSystem
    <3> QED
      BY <1>3, <3>1 DEF OwnedBy
  <2>3. SumFunctionOnSet(Lock(side), {}) = 0
    BY FS_EmptySet, SumUnfolds
  <2> QED
    BY <2>1, <2>2, <2>3 DEF Locked
<1>5. \A u \in User \ {0} : HeldIsLocked(positions, Secured, u)
  BY <1>4 DEF HeldIsLocked
<1>6. \A u \in User \ {0} : ReservedExactly(u)
  BY <1>1, <1>5, ReservedIsHeld
<1> QED
  BY <1>6 DEF ReservationsExact

LEMMA ReservedFill ==
  ASSUME TypeInv, BookInv, OwnersAgree, ReservationsExact, Fill
  PROVE  ReservationsExact'
<1>1. PICK maker \in RestingOrders, qty \in Nat :
           /\ maker \in Order /\ maker.side = Opposite(taker.side)
           /\ maker.price \in Price /\ maker.id \in DOMAIN index
           /\ taker \in Order /\ qty <= taker.qty /\ qty <= maker.qty /\ 0 < qty
           /\ trades' = Append(trades,
                          [maker_id |-> maker.id, taker_id |-> taker.id,
                           maker_user_id |-> UserOf(maker.id), taker_user_id |-> taker.user_id,
                           price |-> maker.price, qty |-> qty])
           /\ OnFill(maker.id, taker.id, maker.price, qty, taker.side)
           /\ taker' = [taker EXCEPT !.qty = @ - qty]
           /\ EmitMaker(maker.id, qty, maker.qty - qty)
           /\ RestingOrders' = (RestingOrders \ {maker})
                \cup (IF maker.qty - qty = 0 THEN {}
                                             ELSE {[maker EXCEPT !.qty = maker.qty - qty]})
  BY FillOrders
<1>2. /\ ~ub /\ TypeOK /\ TypeOK' /\ wiped' = wiped
      /\ Secured = RestingOrders /\ Secured' = RestingOrders'
  BY FillType DEF Fill, TypeInv, InFlightOK, Secured
<1> DEFINE left == maker.qty - qty
           new  == [maker EXCEPT !.qty = left]
           rest == RestingOrders \ {maker}
<1>3. /\ left \in Nat /\ maker.price \in Int /\ maker.qty \in Int /\ maker.side \in Side
      /\ taker.side \in Side /\ qty \in Int
  BY <1>1, BookAssumption DEF Order, Price
<1>4. UserOf(maker.id) = maker.user_id
  BY <1>1, <1>2, OwnedOrder DEF BookInv
<1>5. /\ new \in Order /\ new.user_id = maker.user_id /\ new.side = maker.side
      /\ new.price = maker.price /\ new.qty = left /\ new.id = maker.id
  BY <1>1, <1>3 DEF Order
<1>6. new \notin rest
  <2>1. WellFormed(levels, index)
    BY <1>2 DEF BookInv, BookConsistent
  <2>2. \A b \in RestingOrders : maker.id = b.id => maker = b
    BY <1>1, <2>1, OneOrderPerId, RestingOrdersOf
  <2> QED
    BY <1>5, <2>2
<1>7. RestingOrders' = rest \cup (IF left = 0 THEN {} ELSE {new})
  BY <1>1
<1>8. positions' = Filled(maker.id, taker.id, maker.price, qty, taker.side)
  BY <1>1 DEF OnFill
<1> HIDE DEF left, new, rest
<1>9. ASSUME NEW u \in User \ ({0} \cup wiped'), NEW s \in Side
      PROVE  Held(positions'[u], s) = Locked(Secured', u, s)
  <2> DEFINE h == Held(positions[u], s)
             l == Locked(RestingOrders, u, s)
             r == Locked(rest, u, s)
             taken == Amount(s, maker.price, qty)
             whole == Amount(s, maker.price, maker.qty)
             part  == Amount(s, maker.price, left)
  <2>1. RestingOrders \in SUBSET Order /\ IsFiniteSet(RestingOrders) /\ h = l
    BY <1>2, ReservedBefore
  <2>2. rest \in SUBSET Order /\ IsFiniteSet(rest)
    BY <2>1, FS_RemoveElement DEF rest
  <2>3. /\ u = maker.user_id /\ s = maker.side => Held(positions'[u], s) = h - taken
        /\ u # maker.user_id \/ s # maker.side => Held(positions'[u], s) = h
    <3> DEFINE np == Filled(maker.id, taker.id, maker.price, qty, taker.side)
    <3>1. /\ u = UserOf(maker.id) /\ s = Opposite(taker.side) => Held(np[u], s) = h - taken
          /\ u # UserOf(maker.id) \/ s # Opposite(taker.side) => Held(np[u], s) = h
      BY <1>2, <1>3, FillHeld
    <3> HIDE DEF np, h, taken
    <3>2. maker.side = Opposite(taker.side) /\ positions' = np
      BY <1>1, <1>8 DEF np
    <3> QED
      BY <1>4, <3>1, <3>2
  <2>4. /\ r \in Int
        /\ u = maker.user_id /\ s = maker.side => r = l - whole
        /\ u # maker.user_id \/ s # maker.side => r = l
    BY <1>1, <2>1, LockedRemove DEF rest
  <2>5. /\ u = maker.user_id /\ s = maker.side => Locked(rest \cup {new}, u, s) = r + part
        /\ u # maker.user_id \/ s # maker.side => Locked(rest \cup {new}, u, s) = r
    BY <1>5, <1>6, <2>2, LockedInsert
  <2>6. whole = taken + part
    BY <1>3, AmountSplit DEF left
  <2>7. whole \in Int /\ taken \in Int /\ part \in Int /\ h \in Int
    <3>1. positions[u] \in Position
      BY <1>2 DEF TypeOK
    <3>2. h \in Int
      BY <1>3, <3>1, HeldChanges
    <3> QED
      BY <1>3, <3>2, AmountType
  <2>8. left = 0 => whole = taken
    BY <1>3 DEF left
  <2>9. CASE left = 0
    <3>1. RestingOrders' = rest
      BY <1>7, <2>9
    <3> HIDE DEF h, l, r, taken, whole, part
    <3>2. Locked(rest, u, s) = r
      BY DEF r
    <3> QED
      BY <1>2, <2>1, <2>3, <2>4, <2>7, <2>8, <2>9, <3>1, <3>2
  <2>10. CASE left # 0
    <3>1. RestingOrders' = rest \cup {new}
      BY <1>7, <2>10
    <3> HIDE DEF h, l, r, taken, whole, part
    <3> QED
      BY <1>2, <2>1, <2>3, <2>4, <2>5, <2>6, <2>7, <3>1
  <2> QED
    BY <2>9, <2>10
<1> QED
  BY <1>2, <1>9, ReservedAfter

LEMMA ReservedRest ==
  ASSUME TypeInv, BookInv, OwnersAgree, ReservationsExact, Rest
  PROVE  ReservationsExact'
<1>1. /\ pc = "match" /\ pc' = "rest" /\ ~ub /\ taker.id \notin DOMAIN index
      /\ UNCHANGED <<positions, wiped, taker, ub>>
  BY RestFacts
<1>2. taker \notin RestingOrders
  BY <1>1, OwnedOrder DEF BookInv
<1>3. Secured' = Secured
  BY <1>1, <1>2, RestOrders DEF Secured
<1> QED
  BY <1>1, <1>3, ReservedUnchanged

LEMMA ReservedSettle ==
  ASSUME TypeInv, ReservationsExact, Settle
  PROVE  ReservationsExact'
<1>1. /\ pc = "rest" /\ pc' = "idle" /\ ~ub /\ wiped' = wiped
      /\ TypeOK /\ TypeOK' /\ positions \in [User -> Position]
      /\ taker \in Order /\ taker \in RestingOrders /\ OnOrderResting(taker)
      /\ taker.id \in DOMAIN order_to_user /\ order_to_user[taker.id] = taker.user_id
  BY SettleType DEF Settle, Conclude, TypeInv, InFlightOK, TypeOK
<1>2. RestingOrders' = RestingOrders
  BY DEF Settle, Conclude, bookVars, RestingOrders
<1>3. taker \notin Secured /\ Secured' = Secured \cup {taker}
  BY <1>1, <1>2 DEF Secured
<1>4. positions' = [positions EXCEPT ![taker.user_id] =
          Reserve(positions[taker.user_id], taker.side, taker.price, taker.qty)]
  BY <1>1 DEF OnOrderResting
<1>5. taker.side \in Side /\ taker.price \in Int /\ taker.qty \in Int
  BY <1>1 DEF Order
<1>6. ASSUME NEW u \in User \ ({0} \cup wiped'), NEW s \in Side
      PROVE  Held(positions'[u], s) = Locked(Secured', u, s)
  <2> DEFINE h == Held(positions[u], s)
             l == Locked(Secured, u, s)
             n == Amount(s, taker.price, taker.qty)
  <2>1. Secured \in SUBSET Order /\ IsFiniteSet(Secured) /\ h = l
    BY <1>1, ReservedBefore
  <2>2. /\ u = taker.user_id /\ s = taker.side => Locked(Secured', u, s) = l + n
        /\ u # taker.user_id \/ s # taker.side => Locked(Secured', u, s) = l
    <3> DEFINE R == Secured
    <3>1. /\ taker.user_id = u /\ taker.side = s =>
               Locked(R \cup {taker}, u, s) = Locked(R, u, s) + n
          /\ taker.user_id # u \/ taker.side # s =>
               Locked(R \cup {taker}, u, s) = Locked(R, u, s)
      <4> HIDE DEF R
      <4>1. R \in SUBSET Order /\ IsFiniteSet(R) /\ taker \notin R /\ taker \in Order
        BY <1>1, <1>3, <2>1 DEF R
      <4> QED
        BY <4>1, LockedInsert
    <3> QED
      BY <1>3, <3>1
  <2>3. positions[u] \in Position /\ u \in User
    BY <1>1
  <2>4. CASE u # taker.user_id
    <3>1. positions'[u] = positions[u]
      BY <1>1, <1>4, <2>3, <2>4
    <3> QED
      BY <2>1, <2>2, <2>4, <3>1
  <2>5. CASE u = taker.user_id
    <3>1. positions'[u] = Reserve(positions[u], taker.side, taker.price, taker.qty)
      BY <1>1, <1>4, <2>3, <2>5
    <3>2. /\ s = taker.side => Held(positions'[u], s) = h + n
          /\ s # taker.side => Held(positions'[u], s) = h
      BY <1>5, <2>3, <3>1, HeldChanges
    <3> HIDE DEF h, l, n
    <3> QED
      BY <2>1, <2>2, <2>5, <3>2
  <2> QED
    BY <2>4, <2>5
<1> QED
  BY <1>1, <1>6, ReservedAfter

LEMMA ReservedCancelOpen ==
  ASSUME TypeInv, BookInv, ReservationsExact, NEW id \in OrderId, CancelOpen(id)
  PROVE  ReservationsExact'
<1>1. /\ pc = "idle" /\ pc' = "cancel"
      /\ UNCHANGED <<positions, wiped, ub>>
  BY DEF CancelOpen, userVars
<1>2. PICK o \in RestingOrders : withdrawn' = o /\ RestingOrders' = RestingOrders \ {o}
  BY CancelOpenOrders
<1>3. Secured' = Secured
  BY <1>1, <1>2 DEF Secured
<1> QED
  BY <1>1, <1>3, ReservedUnchanged

LEMMA ReservedCancelDone ==
  ASSUME TypeInv, BookInv, OwnersAgree, WithdrawnAgrees, ReservationsExact, CancelDone
  PROVE  ReservationsExact'
<1> DEFINE o == withdrawn
<1>1. /\ pc = "cancel" /\ pc' = "idle" /\ ~ub /\ wiped' = wiped
      /\ TypeOK /\ TypeOK' /\ positions \in [User -> Position]
      /\ o \in Order /\ o.id \notin DOMAIN index /\ OnCancel(o.id, o)
      /\ o.user_id = UserOf(o.id)
  BY CancelDoneType DEF CancelDone, TypeInv, InFlightOK, TypeOK, WithdrawnAgrees
<1>2. o \notin RestingOrders
  BY <1>1, OwnedOrder DEF BookInv
<1>3. RestingOrders' = RestingOrders
  BY DEF CancelDone, bookVars, RestingOrders
<1>4. o \in Secured /\ Secured' = Secured \ {o}
  BY <1>1, <1>2, <1>3 DEF Secured
<1> HIDE DEF o
<1>5. o.side \in Side /\ o.price \in Int /\ o.qty \in Int
  BY <1>1 DEF Order
<1>6. ASSUME NEW u \in User \ ({0} \cup wiped'), NEW s \in Side
      PROVE  Held(positions'[u], s) = Locked(Secured', u, s)
  <2> DEFINE h == Held(positions[u], s)
             l == Locked(Secured, u, s)
             n == Amount(s, o.price, o.qty)
  <2>1. Secured \in SUBSET Order /\ IsFiniteSet(Secured) /\ h = l
    BY <1>1, ReservedBefore
  <2>2. /\ u = o.user_id /\ s = o.side => Locked(Secured', u, s) = l - n
        /\ u # o.user_id \/ s # o.side => Locked(Secured', u, s) = l
    <3> DEFINE R == Secured
    <3>1. /\ o.user_id = u /\ o.side = s => Locked(R \ {o}, u, s) = Locked(R, u, s) - n
          /\ o.user_id # u \/ o.side # s => Locked(R \ {o}, u, s) = Locked(R, u, s)
      <4> HIDE DEF R
      <4>1. R \in SUBSET Order /\ IsFiniteSet(R) /\ o \in R
        BY <1>4, <2>1 DEF R
      <4> QED
        BY <4>1, LockedRemove
    <3> QED
      BY <1>4, <3>1
  <2>3. positions[u] \in Position /\ u \in User
    BY <1>1
  <2>4. CASE u = o.user_id
    <3>1. o.id \in DOMAIN order_to_user /\ order_to_user[o.id] = u
      BY <1>1, <2>4 DEF UserOf
    <3>2. positions' = [positions EXCEPT ![u] = Release(positions[u], o.side, o.price, o.qty)]
      BY <1>1, <3>1 DEF OnCancel
    <3>3. positions'[u] = Release(positions[u], o.side, o.price, o.qty)
      BY <1>1, <2>3, <3>2
    <3>4. /\ s = o.side => Held(positions'[u], s) = h - n
          /\ s # o.side => Held(positions'[u], s) = h
      BY <1>5, <2>3, <3>3, HeldChanges
    <3> HIDE DEF h, l, n
    <3> QED
      BY <2>1, <2>2, <2>4, <3>4
  <2>5. CASE u # o.user_id
    <3>1. positions'[u] = positions[u]
      <4>1. CASE o.id \in DOMAIN order_to_user
        <5>1. /\ order_to_user[o.id] # u
              /\ positions' = [positions EXCEPT ![order_to_user[o.id]] =
                     Release(positions[order_to_user[o.id]], o.side, o.price, o.qty)]
          BY <1>1, <2>5, <4>1 DEF UserOf, OnCancel
        <5> QED
          BY <1>1, <2>3, <5>1
      <4>2. CASE o.id \notin DOMAIN order_to_user
        BY <1>1, <4>2 DEF OnCancel
      <4> QED
        BY <4>1, <4>2
    <3> QED
      BY <2>1, <2>2, <2>5, <3>1
  <2> QED
    BY <2>4, <2>5
<1> QED
  BY <1>1, <1>6, ReservedAfter

LEMMA ReservedStep ==
  /\ TypeInv /\ BookInv /\ OwnersAgree /\ WithdrawnAgrees
  /\ ReservationsExact /\ [Next]_vars
  => ReservationsExact'
<1> SUFFICES ASSUME TypeInv, BookInv, OwnersAgree, WithdrawnAgrees, ReservationsExact,
                    [Next]_vars
             PROVE  ReservationsExact'
  OBVIOUS
<1>1. ASSUME UNCHANGED <<levels, positions, wiped, ub>>,
             {pc, pc'} \cap {"rest", "cancel"} = {}
      PROVE  ReservationsExact'
  <2>1. pc \notin {"rest", "cancel"} /\ pc' \notin {"rest", "cancel"}
    BY <1>1
  <2>2. RestingOrders' = RestingOrders
    BY <1>1 DEF RestingOrders
  <2>3. Secured' = Secured
    BY <2>1, <2>2 DEF Secured
  <2> QED
    BY <1>1, <2>3, ReservedUnchanged
<1>2. ASSUME NEW o \in Request, Refuse(o) \/ Accept(o) PROVE ReservationsExact'
  BY <1>1, <1>2 DEF Refuse, Accept, bookVars
<1>3. CASE Fill
  BY <1>3, ReservedFill
<1>4. CASE Rest \/ Settle
  BY <1>4, ReservedRest, ReservedSettle
<1>5. CASE Complete
  BY <1>1, <1>5 DEF Complete, Conclude, bookVars
<1>6. ASSUME NEW id \in OrderId, CancelOpen(id) PROVE ReservationsExact'
  BY <1>6, ReservedCancelOpen
<1>7. CASE CancelDone
  BY <1>7, ReservedCancelDone
<1>8. ASSUME NEW id \in OrderId, CancelDangling(id) PROVE ReservationsExact'
  BY <1>8 DEF CancelDangling, ReservationsExact
<1>9. ASSUME NEW u \in User, Connect(u) PROVE ReservationsExact'
  <2>1. /\ UNCHANGED <<levels, pc, taker, withdrawn, ub>>
        /\ positions' = [positions EXCEPT ![u] = DefaultPosition]
        /\ wiped' = wiped \cup {u}
    BY <1>9 DEF Connect, NextUserId, bookVars
  <2>2. \A v \in User \ ({0} \cup wiped') : positions'[v] = positions[v]
    BY <2>1
  <2>3. Secured' = Secured
    BY <2>1 DEF Secured, RestingOrders
  <2> QED
    BY <2>1, <2>2, <2>3, ReservedUnchanged
<1>10. CASE UNCHANGED vars
  <2>1. Secured' = Secured
    BY <1>10 DEF vars, bookVars, Secured, RestingOrders
  <2> QED
    BY <1>10, <2>1, ReservedUnchanged DEF vars, userVars
<1> QED
  BY <1>2, <1>3, <1>4, <1>5, <1>6, <1>7, <1>8, <1>9, <1>10
     DEF Next, CancelUnknown, Corrupted

\* As long as no filled order has been cancelled, what a position says is
\* reserved is what its user's resting orders lock up, in the middle of a sweep
\* too: on_order_resting, on_fill and on_cancel together neither leak a
\* reservation nor release one twice. At two moments the position lags behind
\* the book, by exactly the order that is being linked (before on_order_resting)
\* or unlinked (before on_cancel). Not covered are a user whose id was in use
\* before it was drawn, and the system's user 0.
THEOREM ReservedIsWhatRests == Spec => []ReservationsExact
<1>1. /\ TypeInv /\ BookInv /\ (OwnersAgree /\ WithdrawnAgrees)
      /\ ReservationsExact /\ [Next]_vars
      => ReservationsExact'
  BY ReservedStep
<1> QED
  BY <1>1, ReservedInit, TypeInvariant, BookInvariant, OwnersAlwaysAgree, PTL DEF Spec

-----------------------------------------------------------------------------
(* Accounts. What the tape shows of a user is his turnover once the trades  *)
(* of the order in the loop are counted with it.                           *)

Total(pos) == pos.total_buy_value + pos.total_sell_value
Balances(ps) == SumFunctionOnSet([u \in User |-> ps[u].balance], User)
Holdings(ps) == SumFunctionOnSet([u \in User |-> ps[u].shares], User)

\* What a trade is worth to user u: twice its value when he trades with himself.
TradeValue(u) ==
  [t \in Trade |-> (IF t.maker_user_id = u THEN t.price * t.qty ELSE 0)
                   + (IF t.taker_user_id = u THEN t.price * t.qty ELSE 0)]

AccountsInv ==
  /\ wiped = {} => /\ Balances(positions) = Cardinality(User) * InitBalance
                   /\ Holdings(positions) = Cardinality(User) * InitShares
  /\ \A u \in User \ wiped : Total(positions[u]) = SumOver(TradeValue(u), tape \o trades)
  /\ pc \in {"idle", "cancel"} => trades = <<>>

\* What each change of a position does to what AccountsInv counts.
LEMMA AccountChanges ==
  ASSUME NEW pos \in Position, NEW side \in Side, NEW price \in Int, NEW qty \in Int
  PROVE  /\ pos.balance \in Int /\ pos.shares \in Int /\ Total(pos) \in Int
         /\ Total(Executed(pos, side, price, qty)) = Total(pos) + price * qty
         /\ Executed(pos, side, price, qty).balance
              = IF side = "Buy" THEN pos.balance - price * qty ELSE pos.balance + price * qty
         /\ Executed(pos, side, price, qty).shares
              = IF side = "Buy" THEN pos.shares + qty ELSE pos.shares - qty
         /\ \A p \in {Reserve(pos, side, price, qty), Release(pos, side, price, qty)} :
              p.balance = pos.balance /\ p.shares = pos.shares /\ Total(p) = Total(pos)
<1> DEFINE v == price * qty
<1>1. /\ pos.balance \in Int /\ pos.shares \in Int /\ v \in Int
      /\ pos.total_buy_value \in Int /\ pos.total_sell_value \in Int
  BY DEF Position
<1>2. /\ Bought(pos, v, qty).balance = pos.balance - v
      /\ Bought(pos, v, qty).shares = pos.shares + qty
      /\ Bought(pos, v, qty).total_buy_value = pos.total_buy_value + v
      /\ Bought(pos, v, qty).total_sell_value = pos.total_sell_value
      /\ Sold(pos, v, qty).balance = pos.balance + v
      /\ Sold(pos, v, qty).shares = pos.shares - qty
      /\ Sold(pos, v, qty).total_buy_value = pos.total_buy_value
      /\ Sold(pos, v, qty).total_sell_value = pos.total_sell_value + v
  BY <1>1 DEF Bought, Sold, Position
<1>3. ASSUME NEW p \in {Reserve(pos, side, price, qty), Release(pos, side, price, qty)}
      PROVE  p.balance = pos.balance /\ p.shares = pos.shares /\ Total(p) = Total(pos)
  BY DEF Reserve, Release, Position, Total
<1>4. /\ side = "Buy" => Executed(pos, side, price, qty) = Bought(pos, v, qty)
      /\ side # "Buy" => Executed(pos, side, price, qty) = Sold(pos, v, qty)
  BY DEF Executed
<1> HIDE DEF v
<1>5. /\ Total(pos) \in Int
      /\ Total(Bought(pos, v, qty)) = Total(pos) + v
      /\ Total(Sold(pos, v, qty)) = Total(pos) + v
  BY <1>1, <1>2 DEF Total
<1>6. /\ Total(Executed(pos, side, price, qty)) = Total(pos) + v
      /\ Executed(pos, side, price, qty).balance
              = IF side = "Buy" THEN pos.balance - v ELSE pos.balance + v
      /\ Executed(pos, side, price, qty).shares
              = IF side = "Buy" THEN pos.shares + qty ELSE pos.shares - qty
  BY <1>2, <1>4, <1>5
<1> QED
  BY <1>1, <1>3, <1>5, <1>6 DEF v

\* One position changes: the sums move by what it moves.
LEMMA SumsMove ==
  ASSUME IsFiniteSet(User), NEW ps \in [User -> Position], NEW a \in User,
         NEW pos \in Position
  PROVE  /\ Balances(ps) \in Int /\ Holdings(ps) \in Int
         /\ Balances([ps EXCEPT ![a] = pos]) = Balances(ps) + (pos.balance - ps[a].balance)
         /\ Holdings([ps EXCEPT ![a] = pos]) = Holdings(ps) + (pos.shares - ps[a].shares)
<1> DEFINE ns == [ps EXCEPT ![a] = pos]
           bo == [u \in User |-> ps[u].balance]
           bn == [u \in User |-> ns[u].balance]
           so == [u \in User |-> ps[u].shares]
           sn == [u \in User |-> ns[u].shares]
<1>1. /\ \A u \in User : ps[u].balance \in Int /\ ps[u].shares \in Int
      /\ pos.balance \in Int /\ pos.shares \in Int
  BY DEF Position
<1>2. ns[a] = pos /\ \A u \in User \ {a} : ns[u] = ps[u]
  OBVIOUS
<1>3. /\ \A u \in User : bo[u] \in Int /\ bn[u] \in Int /\ so[u] \in Int /\ sn[u] \in Int
      /\ \A u \in User \ {a} : bn[u] = bo[u] /\ sn[u] = so[u]
      /\ bo[a] = ps[a].balance /\ bn[a] = pos.balance
      /\ so[a] = ps[a].shares /\ sn[a] = pos.shares
  BY <1>1, <1>2
<1>4. /\ Balances(ps) = SumFunctionOnSet(bo, User) /\ Balances(ns) = SumFunctionOnSet(bn, User)
      /\ Holdings(ps) = SumFunctionOnSet(so, User) /\ Holdings(ns) = SumFunctionOnSet(sn, User)
  BY DEF Balances, Holdings
<1> HIDE DEF bo, bn, so, sn, ns
<1>5. SumFunctionOnSet(bn, User) = SumFunctionOnSet(bo, User) + (bn[a] - bo[a])
  BY <1>3, SumUpdate
<1>6. SumFunctionOnSet(sn, User) = SumFunctionOnSet(so, User) + (sn[a] - so[a])
  BY <1>3, SumUpdate
<1>7. SumFunctionOnSet(bo, User) \in Int /\ SumFunctionOnSet(so, User) \in Int
  BY <1>3, SumType
<1> QED
  BY <1>3, <1>4, <1>5, <1>6, <1>7 DEF ns

\* A fill moves cash and shares from one side to the other, and both sides' turnover.
LEMMA FillAccounts ==
  ASSUME TypeOK, NEW m, NEW t, NEW price \in Int, NEW qty \in Int, NEW side \in Side
  PROVE  LET np == Filled(m, t, price, qty, side)
         IN  /\ IsFiniteSet(User) => /\ Balances(np) = Balances(positions)
                                     /\ Holdings(np) = Holdings(positions)
             /\ \A u \in User : /\ Total(positions[u]) \in Int
                                /\ Total(np[u]) = Total(positions[u])
                                     + ((IF UserOf(m) = u THEN price * qty ELSE 0)
                                        + (IF UserOf(t) = u THEN price * qty ELSE 0))
<1> DEFINE np == Filled(m, t, price, qty, side)
           a  == UserOf(t)
           b  == UserOf(m)
           mside == Opposite(side)
           e1 == Executed(positions[a], side, price, qty)
           p1 == [positions EXCEPT ![a] = e1]
           e2 == Executed(p1[b], mside, price, qty)
           r2 == Release(e2, mside, price, qty)
           v  == price * qty
<1>1. positions \in [User -> Position] /\ a \in User /\ b \in User /\ mside \in Side /\ v \in Int
  BY UserOfType, OppositeSide DEF TypeOK
<1>2. np = [p1 EXCEPT ![b] = r2]
  BY DEF Filled, MakerFilled, TakerFilled
<1>3. side = "Buy" <=> mside # "Buy"
  BY DEF Opposite, Side
<1> HIDE DEF np, a, b, mside
<1>4. e1 \in Position /\ p1 \in [User -> Position] /\ p1 = [positions EXCEPT ![a] = e1]
  BY <1>1, PositionOps
<1>5. /\ positions[a].balance \in Int /\ positions[a].shares \in Int
      /\ Total(e1) = Total(positions[a]) + v
      /\ e1.balance = IF side = "Buy" THEN positions[a].balance - v ELSE positions[a].balance + v
      /\ e1.shares = IF side = "Buy" THEN positions[a].shares + qty ELSE positions[a].shares - qty
  BY <1>1, AccountChanges
<1>6. p1[a] = e1 /\ \A u \in User \ {a} : p1[u] = positions[u]
  BY <1>1
<1> HIDE DEF e1, p1
<1>7. e2 \in Position /\ r2 \in Position
  BY <1>1, <1>4, PositionOps
<1>8. /\ p1[b].balance \in Int /\ p1[b].shares \in Int
      /\ Total(e2) = Total(p1[b]) + v
      /\ e2.balance = IF mside = "Buy" THEN p1[b].balance - v ELSE p1[b].balance + v
      /\ e2.shares = IF mside = "Buy" THEN p1[b].shares + qty ELSE p1[b].shares - qty
  BY <1>1, <1>4, AccountChanges
<1>9. r2.balance = e2.balance /\ r2.shares = e2.shares /\ Total(r2) = Total(e2)
  <2> HIDE DEF e2
  <2> QED
    BY <1>1, <1>7, AccountChanges
<1>10. np[b] = r2 /\ \A u \in User \ {b} : np[u] = p1[u]
  BY <1>1, <1>2, <1>4
<1> HIDE DEF e2, r2, v
<1>11. ASSUME IsFiniteSet(User)
       PROVE  Balances(np) = Balances(positions) /\ Holdings(np) = Holdings(positions)
  <2>1. /\ Balances(positions) \in Int /\ Holdings(positions) \in Int
        /\ Balances(p1) = Balances(positions) + (e1.balance - positions[a].balance)
        /\ Holdings(p1) = Holdings(positions) + (e1.shares - positions[a].shares)
    <3> DEFINE ps == positions
    <3>1. ps \in [User -> Position] /\ p1 = [ps EXCEPT ![a] = e1]
      BY <1>1, <1>4
    <3> HIDE DEF ps
    <3>2. /\ Balances(ps) \in Int /\ Holdings(ps) \in Int
          /\ Balances([ps EXCEPT ![a] = e1]) = Balances(ps) + (e1.balance - ps[a].balance)
          /\ Holdings([ps EXCEPT ![a] = e1]) = Holdings(ps) + (e1.shares - ps[a].shares)
      BY <1>1, <1>4, <1>11, <3>1, SumsMove
    <3> QED
      BY <3>1, <3>2 DEF ps
  <2>2. /\ Balances(np) = Balances(p1) + (r2.balance - p1[b].balance)
        /\ Holdings(np) = Holdings(p1) + (r2.shares - p1[b].shares)
    <3>1. /\ Balances([p1 EXCEPT ![b] = r2]) = Balances(p1) + (r2.balance - p1[b].balance)
          /\ Holdings([p1 EXCEPT ![b] = r2]) = Holdings(p1) + (r2.shares - p1[b].shares)
      BY <1>1, <1>4, <1>7, <1>11, SumsMove
    <3> QED
      BY <1>2, <3>1
  <2>3. CASE side = "Buy"
    BY <1>1, <1>3, <1>5, <1>8, <1>9, <2>1, <2>2, <2>3
  <2>4. CASE side # "Buy"
    BY <1>1, <1>3, <1>5, <1>8, <1>9, <2>1, <2>2, <2>4
  <2> QED
    BY <2>3, <2>4
<1>12. ASSUME NEW u \in User
       PROVE  /\ Total(positions[u]) \in Int
              /\ Total(np[u]) = Total(positions[u])
                                 + ((IF b = u THEN v ELSE 0) + (IF a = u THEN v ELSE 0))
  <2>1. Total(positions[u]) \in Int
    BY <1>1, AccountChanges, 0 \in Int DEF Side
  <2>2. Total(p1[u]) = Total(positions[u]) + (IF a = u THEN v ELSE 0)
    BY <1>1, <1>5, <1>6, <2>1
  <2>3. Total(np[u]) = Total(p1[u]) + (IF b = u THEN v ELSE 0)
    <3>1. Total(p1[u]) \in Int
      BY <1>1, <2>1, <2>2
    <3> QED
      BY <1>1, <1>8, <1>9, <1>10, <3>1
  <2> QED
    BY <1>1, <2>1, <2>2, <2>3
<1> QED
  BY <1>11, <1>12 DEF np, a, b, v

LEMMA TurnoverIs ==
  ASSUME TypeOK, NEW u
  PROVE  Turnover(u) = SumOver(TradeValue(u), tape)
<1>1. \A i \in DOMAIN tape : tape[i] \in Trade
  BY ElementOfSeq, LenProperties DEF TypeOK
<1> DEFINE f == [i \in DOMAIN tape |-> LET v == tape[i].price * tape[i].qty
                                       IN  (IF tape[i].maker_user_id = u THEN v ELSE 0)
                                           + (IF tape[i].taker_user_id = u THEN v ELSE 0)]
           g == [i \in DOMAIN tape |-> TradeValue(u)[tape[i]]]
<1>2. f = g /\ DOMAIN f = DOMAIN tape
  BY <1>1 DEF TradeValue
<1>3. Turnover(u) = SumFunctionOnSet(f, DOMAIN f)
  BY DEF Turnover, SumFunction
<1>4. SumOver(TradeValue(u), tape) = SumFunctionOnSet(g, DOMAIN tape)
  BY DEF SumOver
<1> HIDE DEF f, g
<1> QED
  BY <1>2, <1>3, <1>4

LEMMA TradeValueType ==
  ASSUME NEW u, NEW t \in Trade
  PROVE  /\ TradeValue(u)[t] \in Int
         /\ TradeValue(u)[t] = (IF t.maker_user_id = u THEN t.price * t.qty ELSE 0)
                               + (IF t.taker_user_id = u THEN t.price * t.qty ELSE 0)
<1>1. t.price \in Int /\ t.qty \in Int
  BY BookAssumption DEF Trade, Price
<1>2. t.price * t.qty \in Int
  BY <1>1
<1> DEFINE v == t.price * t.qty
<1>3. TradeValue(u)[t] = (IF t.maker_user_id = u THEN v ELSE 0)
                         + (IF t.taker_user_id = u THEN v ELSE 0)
  BY DEF TradeValue
<1>4. v \in Int
  BY <1>2
<1> HIDE DEF v
<1>5. TradeValue(u)[t] \in Int
  BY <1>3, <1>4
<1> QED
  BY <1>3, <1>5 DEF v

\* A step that moves no cash, no shares and no turnover.
LEMMA SameAccounts ==
  ASSUME AccountsInv, tape' \o trades' = tape \o trades, wiped' = wiped,
         pc' \in {"idle", "cancel"} => trades' = <<>>,
         \A u \in User : /\ positions'[u].balance = positions[u].balance
                         /\ positions'[u].shares = positions[u].shares
                         /\ Total(positions'[u]) = Total(positions[u])
  PROVE  AccountsInv'
<1>1. Balances(positions') = Balances(positions)
  <2>1. [u \in User |-> positions'[u].balance] = [u \in User |-> positions[u].balance]
    OBVIOUS
  <2> QED
    BY <2>1 DEF Balances
<1>2. Holdings(positions') = Holdings(positions)
  <2>1. [u \in User |-> positions'[u].shares] = [u \in User |-> positions[u].shares]
    OBVIOUS
  <2> QED
    BY <2>1 DEF Holdings
<1>3. \A u \in User \ wiped' : Total(positions'[u]) = SumOver(TradeValue(u), tape' \o trades')
  BY DEF AccountsInv
<1>4. /\ Balances(positions)' = Balances(positions') /\ Holdings(positions)' = Holdings(positions')
      /\ \A u \in User : Total(positions[u])' = Total(positions'[u])
      /\ \A u \in User : SumOver(TradeValue(u), tape \o trades)'
                           = SumOver(TradeValue(u), tape' \o trades')
  BY DEF Balances, Holdings, Total, SumOver, TradeValue
<1>5. wiped' = {} => /\ Balances(positions)' = Cardinality(User) * InitBalance
                     /\ Holdings(positions)' = Cardinality(User) * InitShares
  BY <1>1, <1>2, <1>4 DEF AccountsInv
<1> QED
  BY <1>3, <1>4, <1>5 DEF AccountsInv

\* Reserving and releasing is such a step.
LEMMA CancelAccounts ==
  ASSUME TypeInv, AccountsInv, NEW id, NEW o \in Order, OnCancel(id, o),
         UNCHANGED <<tape, trades, wiped>>, pc' \in {"idle", "cancel"} => pc \in {"idle", "cancel"}
  PROVE  AccountsInv'
<1>1. positions \in [User -> Position] /\ o.side \in Side /\ o.price \in Int /\ o.qty \in Int
  BY DEF TypeInv, TypeOK, Order
<1>2. ASSUME NEW u \in User
      PROVE  /\ positions'[u].balance = positions[u].balance
             /\ positions'[u].shares = positions[u].shares
             /\ Total(positions'[u]) = Total(positions[u])
  <2>1. \/ positions'[u] = positions[u]
        \/ positions'[u] = Release(positions[u], o.side, o.price, o.qty)
    BY <1>1 DEF OnCancel
  <2> QED
    BY <1>1, <2>1, AccountChanges
<1> QED
  BY <1>2, SameAccounts DEF AccountsInv

\* The tape takes over the trades of the order that ends.
LEMMA ConcludeAccounts ==
  ASSUME TypeInv, AccountsInv, Conclude, taker \in Order,
         OnOrderResting(taker) \/ UNCHANGED positions
  PROVE  AccountsInv'
<1>1. /\ positions \in [User -> Position] /\ tape \in Seq(Trade) /\ wiped' = wiped
      /\ trades \in Seq(Trade) /\ pc' = "idle" /\ trades' = <<>> /\ tape' = tape \o trades
  BY DEF TypeInv, TypeOK, Conclude, EmitTrades
<1>2. taker.side \in Side /\ taker.price \in Int /\ taker.qty \in Int
  BY DEF Order
<1>3. tape' \o trades' = tape \o trades
  BY <1>1, ConcatProperties, ConcatEmptySeq
<1>4. ASSUME NEW u \in User
      PROVE  /\ positions'[u].balance = positions[u].balance
             /\ positions'[u].shares = positions[u].shares
             /\ Total(positions'[u]) = Total(positions[u])
  <2>1. \/ positions'[u] = positions[u]
        \/ positions'[u] = Reserve(positions[u], taker.side, taker.price, taker.qty)
    BY <1>1 DEF OnOrderResting
  <2>2. positions[u] \in Position
    BY <1>1
  <2> QED
    BY <1>2, <2>1, <2>2, AccountChanges
<1> QED
  BY <1>1, <1>3, <1>4, SameAccounts

LEMMA FillAccountsStep ==
  ASSUME IsFiniteSet(User), TypeInv, BookInv, AccountsInv, Fill
  PROVE  AccountsInv'
<1>1. PICK maker \in RestingOrders, qty \in Nat :
           /\ maker \in Order /\ maker.side = Opposite(taker.side)
           /\ maker.price \in Price /\ maker.id \in DOMAIN index
           /\ taker \in Order /\ qty <= taker.qty /\ qty <= maker.qty /\ 0 < qty
           /\ trades' = Append(trades,
                          [maker_id |-> maker.id, taker_id |-> taker.id,
                           maker_user_id |-> UserOf(maker.id), taker_user_id |-> taker.user_id,
                           price |-> maker.price, qty |-> qty])
           /\ OnFill(maker.id, taker.id, maker.price, qty, taker.side)
           /\ taker' = [taker EXCEPT !.qty = @ - qty]
           /\ EmitMaker(maker.id, qty, maker.qty - qty)
           /\ RestingOrders' = (RestingOrders \ {maker})
                \cup (IF maker.qty - qty = 0 THEN {}
                                             ELSE {[maker EXCEPT !.qty = maker.qty - qty]})
  BY FillOrders
<1> DEFINE t == [maker_id |-> maker.id, taker_id |-> taker.id,
                 maker_user_id |-> UserOf(maker.id), taker_user_id |-> taker.user_id,
                 price |-> maker.price, qty |-> qty]
           v == maker.price * qty
<1>2. /\ TypeOK /\ pc = "match" /\ UNCHANGED <<pc, tape, wiped>>
      /\ tape \in Seq(Trade) /\ trades \in Seq(Trade)
      /\ UserOf(taker.id) = taker.user_id
  BY DEF Fill, TypeInv, TypeOK, InFlightOK, UserOf
<1>3. /\ t \in Trade /\ t.maker_user_id = UserOf(maker.id) /\ t.taker_user_id = taker.user_id
      /\ t.price * t.qty = v /\ trades' = Append(trades, t)
  <2>1. UserOf(maker.id) \in User /\ taker.user_id \in User /\ maker.id \in OrderId /\ taker.id \in OrderId
    BY <1>1, <1>2, UserOfType DEF Order
  <2> QED
    BY <1>1, <2>1 DEF Trade
<1>4. /\ maker.price \in Int /\ qty \in Int /\ taker.side \in Side
      /\ positions' = Filled(maker.id, taker.id, maker.price, qty, taker.side)
  BY <1>1, BookAssumption DEF Order, Price, OnFill
<1> HIDE DEF t, v
<1>5. /\ Balances(positions') = Balances(positions) /\ Holdings(positions') = Holdings(positions)
      /\ \A u \in User : /\ Total(positions[u]) \in Int
                         /\ Total(positions'[u]) = Total(positions[u])
                               + ((IF UserOf(maker.id) = u THEN v ELSE 0)
                                  + (IF UserOf(taker.id) = u THEN v ELSE 0))
  <2> DEFINE np == Filled(maker.id, taker.id, maker.price, qty, taker.side)
  <2>1. /\ Balances(np) = Balances(positions) /\ Holdings(np) = Holdings(positions)
        /\ \A u \in User : /\ Total(positions[u]) \in Int
                           /\ Total(np[u]) = Total(positions[u])
                                 + ((IF UserOf(maker.id) = u THEN maker.price * qty ELSE 0)
                                    + (IF UserOf(taker.id) = u THEN maker.price * qty ELSE 0))
    <3> DEFINE m == maker.id
               t2 == taker.id
               price == maker.price
               side == taker.side
    <3>1. TypeOK /\ price \in Int /\ qty \in Int /\ side \in Side
      BY <1>2, <1>4
    <3> HIDE DEF m, t2, price, side
    <3>2. /\ Balances(Filled(m, t2, price, qty, side)) = Balances(positions)
          /\ Holdings(Filled(m, t2, price, qty, side)) = Holdings(positions)
          /\ \A u \in User : /\ Total(positions[u]) \in Int
                             /\ Total(Filled(m, t2, price, qty, side)[u]) = Total(positions[u])
                                   + ((IF UserOf(m) = u THEN price * qty ELSE 0)
                                      + (IF UserOf(t2) = u THEN price * qty ELSE 0))
      BY <3>1, FillAccounts
    <3> QED
      BY <3>2 DEF m, t2, price, side
  <2> QED
    BY <1>4, <2>1 DEF v
<1>6. tape' \o trades' = Append(tape \o trades, t) /\ tape \o trades \in Seq(Trade)
  BY <1>2, <1>3, ConcatAppend, ConcatProperties
<1>7. ASSUME NEW u \in User \ wiped'
      PROVE  Total(positions'[u]) = SumOver(TradeValue(u), tape' \o trades')
  <2> DEFINE S == tape \o trades
  <2>1. \A x \in Trade : TradeValue(u)[x] \in Int
    BY TradeValueType
  <2>2. SumOver(TradeValue(u), Append(S, t)) = SumOver(TradeValue(u), S) + TradeValue(u)[t]
    <3> HIDE DEF S
    <3>1. S \in Seq(Trade) /\ t \in Trade
      BY <1>3, <1>6 DEF S
    <3> QED
      BY <2>1, <3>1, SumOverAppend
  <2>3. TradeValue(u)[t] = (IF UserOf(maker.id) = u THEN v ELSE 0)
                           + (IF UserOf(taker.id) = u THEN v ELSE 0)
    BY <1>2, <1>3, TradeValueType
  <2>4. Total(positions[u]) = SumOver(TradeValue(u), S)
    BY <1>2 DEF AccountsInv
  <2> HIDE DEF S
  <2> QED
    BY <1>5, <1>6, <2>2, <2>3, <2>4 DEF S
<1>8. /\ Balances(positions)' = Balances(positions') /\ Holdings(positions)' = Holdings(positions')
      /\ \A u \in User : Total(positions[u])' = Total(positions'[u])
      /\ \A u \in User : SumOver(TradeValue(u), tape \o trades)'
                           = SumOver(TradeValue(u), tape' \o trades')
  BY DEF Balances, Holdings, Total, SumOver, TradeValue
<1>9. wiped' = {} => /\ Balances(positions)' = Cardinality(User) * InitBalance
                     /\ Holdings(positions)' = Cardinality(User) * InitShares
  BY <1>2, <1>5, <1>8 DEF AccountsInv
<1>10. pc' \notin {"idle", "cancel"}
  BY <1>2
<1> QED
  BY <1>7, <1>8, <1>9, <1>10 DEF AccountsInv

\* The freed order that find_order may still read is an order.
LEMMA FreedIsOrder ==
  ASSUME TypeOK, NEW id \in OrderId, id \in DOMAIN index
  PROVE  Freed(id) \in Order
<1>1. PICK side \in Side, price \in Price : index[id] = [side |-> side, price |-> price]
  BY DEF TypeOK, IndexType
<1>2. index[id].side = side /\ index[id].price = price
  BY <1>1
<1>3. UserOf(id) \in User /\ price \in Int /\ "Limit" \in OrderType
  BY UserOfType, BookAssumption DEF Price, OrderType
<1> QED
  BY <1>2, <1>3 DEF Freed, Order

LEMMA AccountsInit == IsFiniteSet(User) /\ Init => AccountsInv
<1> SUFFICES ASSUME IsFiniteSet(User), Init PROVE AccountsInv
  OBVIOUS
<1>1. /\ positions = [u \in User |-> DefaultPosition] /\ tape = <<>> /\ trades = <<>>
      /\ InitBalance \in Int /\ InitShares \in Int
  BY UserAssumption DEF Init, UserInit
<1>2. /\ DefaultPosition.balance = InitBalance /\ DefaultPosition.shares = InitShares
      /\ Total(DefaultPosition) = 0
  BY DEF DefaultPosition, Total
<1>3. Balances(positions) = Cardinality(User) * InitBalance
  <2> DEFINE f == [u \in User |-> positions[u].balance]
  <2>1. \A u \in User : f[u] = InitBalance
    BY <1>1, <1>2
  <2> HIDE DEF f
  <2>2. SumFunctionOnSet(f, User) = Cardinality(User) * InitBalance
    BY <1>1, <2>1, SumConstant
  <2> QED
    BY <2>2 DEF Balances, f
<1>4. Holdings(positions) = Cardinality(User) * InitShares
  <2> DEFINE f == [u \in User |-> positions[u].shares]
  <2>1. \A u \in User : f[u] = InitShares
    BY <1>1, <1>2
  <2> HIDE DEF f
  <2>2. SumFunctionOnSet(f, User) = Cardinality(User) * InitShares
    BY <1>1, <2>1, SumConstant
  <2> QED
    BY <2>2 DEF Holdings, f
<1>5. tape \o trades = <<>>
  <2>1. <<>> \in Seq(Trade)
    BY EmptySeq
  <2> QED
    BY <1>1, <2>1, ConcatEmptySeq
<1>6. \A u \in User : Total(positions[u]) = SumOver(TradeValue(u), tape \o trades)
  BY <1>1, <1>2, <1>5, SumOverEmpty
<1> QED
  BY <1>1, <1>3, <1>4, <1>6 DEF AccountsInv

LEMMA AccountsStep ==
  IsFiniteSet(User) /\ TypeInv /\ BookInv /\ AccountsInv /\ [Next]_vars => AccountsInv'
<1> SUFFICES ASSUME IsFiniteSet(User), TypeInv, BookInv, AccountsInv, [Next]_vars
             PROVE  AccountsInv'
  OBVIOUS
<1>1. ASSUME UNCHANGED <<positions, tape, trades, wiped>>,
             pc' \in {"idle", "cancel"} => pc \in {"idle", "cancel"}
      PROVE  AccountsInv'
  BY <1>1, SameAccounts DEF AccountsInv
<1>2. ASSUME NEW o \in Request, Refuse(o) \/ Accept(o) PROVE AccountsInv'
  BY <1>1, <1>2 DEF Refuse, Accept
<1>3. CASE Fill
  BY <1>3, FillAccountsStep
<1>4. CASE Rest
  BY <1>1, <1>4, RestFacts
<1>5. CASE Settle \/ Complete
  <2>1. pc \in {"match", "rest"} /\ Conclude /\ (OnOrderResting(taker) \/ UNCHANGED positions)
    BY <1>5 DEF Settle, Complete
  <2> QED
    BY <2>1, ConcludeAccounts DEF TypeInv, TypeOK
<1>6. RestingOrders \subseteq Order
  BY FiniteOrders, RestingOrdersOf DEF TypeInv, TypeOK
<1>7. ASSUME NEW id \in OrderId, CancelOpen(id) PROVE AccountsInv'
  BY <1>1, <1>7 DEF CancelOpen, userVars
<1>8. CASE CancelDone
  <2>1. /\ UNCHANGED <<tape, trades, wiped>> /\ pc = "cancel"
        /\ OnCancel(withdrawn.id, withdrawn) /\ withdrawn \in Order
    BY <1>8 DEF CancelDone, TypeInv, TypeOK
  <2> QED
    BY <2>1, CancelAccounts
<1>9. ASSUME NEW id \in OrderId, CancelDangling(id) PROVE AccountsInv'
  <2>1. /\ UNCHANGED <<tape, trades, wiped, pc>>
        /\ \E o \in {Freed(id)} \cup RestingOrders : OnCancel(id, o)
    BY <1>9 DEF CancelDangling
  <2>2. Freed(id) \in Order
    BY <1>9, FreedIsOrder DEF CancelDangling, TypeInv
  <2> QED
    BY <1>6, <2>1, <2>2, CancelAccounts
<1>10. ASSUME NEW u \in User, Connect(u) PROVE AccountsInv'
  <2>1. /\ UNCHANGED <<tape, trades, pc>>
        /\ positions' = [positions EXCEPT ![u] = DefaultPosition]
        /\ wiped' = wiped \cup {u}
    BY <1>10 DEF Connect, NextUserId
  <2>2. \A v \in User \ wiped' : v \in User \ wiped /\ positions'[v] = positions[v]
    BY <2>1
  <2>3. \A v \in User \ wiped' : Total(positions[v])' = SumOver(TradeValue(v), tape \o trades)'
    <3>1. \A v \in User : SumOver(TradeValue(v), tape \o trades)'
                            = SumOver(TradeValue(v), tape \o trades)
      BY <2>1
    <3>2. \A v \in User : Total(positions[v])' = Total(positions'[v])
      BY DEF Total
    <3> QED
      BY <2>2, <3>1, <3>2 DEF AccountsInv
  <2>4. wiped' # {}
    BY <2>1
  <2> QED
    BY <2>1, <2>3, <2>4 DEF AccountsInv
<1>11. CASE UNCHANGED vars
  BY <1>1, <1>11 DEF vars, userVars
<1> QED
  BY <1>2, <1>3, <1>4, <1>5, <1>7, <1>8, <1>9, <1>10, <1>11
     DEF Next, CancelUnknown, Corrupted

\* Among finitely many users cash and shares are moved, never made or lost, and
\* between two operations a user's total_buy_value and total_sell_value are his
\* turnover on the tape: on_fill books both sides of every trade once, for a user
\* who trades with himself too. A user whose id traded before next_user_id drew
\* it is left out, and the sums hold as long as there is none.
THEOREM AccountsAlwaysMatchTape ==
  ASSUME IsFiniteSet(User)
  PROVE  Spec => []AccountsMatchTape
<1>1. Init => AccountsInv
  BY AccountsInit
<1>2. TypeInv /\ BookInv /\ AccountsInv /\ [Next]_vars => AccountsInv'
  BY AccountsStep
<1>3. TypeInv /\ AccountsInv => AccountsMatchTape
  <2> SUFFICES ASSUME TypeInv, AccountsInv PROVE AccountsMatchTape
    OBVIOUS
  <2>1. TypeOK /\ tape \in Seq(Trade)
    BY DEF TypeInv, TypeOK
  <2>2. /\ SumFunction([u \in User |-> positions[u].balance]) = Balances(positions)
        /\ SumFunction([u \in User |-> positions[u].shares]) = Holdings(positions)
    BY DEF SumFunction, Balances, Holdings
  <2>3. ASSUME pc = "idle", NEW u \in User \ wiped
        PROVE  positions[u].total_buy_value + positions[u].total_sell_value = Turnover(u)
    <3>1. tape \o trades = tape
      BY <2>1, <2>3, ConcatEmptySeq DEF AccountsInv
    <3> QED
      BY <2>1, <3>1, TurnoverIs DEF AccountsInv, Total
  <2> QED
    BY <2>2, <2>3 DEF AccountsMatchTape, AccountsInv
<1> QED
  BY <1>1, <1>2, <1>3, TypeInvariant, BookInvariant, PTL DEF Spec

-----------------------------------------------------------------------------
(* The two journals. Between the NEW event of an order and its last one the *)
(* orders journal is behind the trades by what the loop has filled, and the *)
(* tape by the batch that emit_trades has not written yet.                 *)

\* The quantity a line of orders.jsonl, and a trade, show as traded of an order.
LineQty == [e \in Event |-> IF e.status \in {"PartiallyFilled", "Filled"} THEN e.qty ELSE 0]
TradeQty(id) == [t \in Trade |-> IF id \in {t.maker_id, t.taker_id} THEN t.qty ELSE 0]

\* What the loop has filled of order id and has not journaled yet.
Unjournaled(id) == IF pc \in {"match", "rest"} /\ taker.id = id THEN incoming.qty - taker.qty ELSE 0

NewLine(qty) == [status |-> "New", qty |-> qty, remaining |-> qty]

\* The lines of an order: the last one is open with remaining = qty; they add up.
OpenWith(lines, qty) == /\ lines # <<>>
                        /\ Last(lines).status \in {"New", "PartiallyFilled"}
                        /\ Last(lines).remaining = qty
Covers(lines, left) == lines[1].qty = SumOver(LineQty, lines) + left
AddUp(lines) ==
  lines # <<>> /\ Last(lines).status \notin {"Canceled", "Rejected"} =>
    Covers(lines, Last(lines).remaining)

\* The order that has been linked, and whose last line is not written yet.
JustLinked(o) == pc = "rest" /\ o = taker

JournalInv ==
  /\ \A id \in NewId : id \notin DOMAIN order_to_user => journal[id] = <<>>
  /\ pc \in {"match", "rest"} => journal[taker.id] = <<NewLine(incoming.qty)>>
  /\ ub \/ \A o \in RestingOrders :
             o.id \in NewId => OpenWith(journal[o.id], o.qty) \/ JustLinked(o)
  /\ \A id \in OrderId :
       SumOver(LineQty, journal[id]) + Unjournaled(id) = SumOver(TradeQty(id), tape \o trades)
  /\ \A id \in NewId : AddUp(journal[id])
  /\ pc \in {"idle", "cancel"} => trades = <<>>

LEMMA LineQtyType ==
  \A e \in Event : /\ LineQty[e] \in Int
                   /\ LineQty[e] = IF e.status \in {"PartiallyFilled", "Filled"} THEN e.qty ELSE 0
BY DEF LineQty, Event

LEMMA TradeQtyType ==
  ASSUME NEW id
  PROVE  \A t \in Trade :
           /\ TradeQty(id)[t] \in Int
           /\ TradeQty(id)[t] = IF id \in {t.maker_id, t.taker_id} THEN t.qty ELSE 0
BY DEF TradeQty, Trade

\* One more line.
LEMMA OneMoreLine ==
  ASSUME NEW s \in Seq(Event), NEW line \in Event
  PROVE  /\ Append(s, line) # <<>> /\ Last(Append(s, line)) = line
         /\ SumOver(LineQty, s) \in Int
         /\ SumOver(LineQty, Append(s, line)) = SumOver(LineQty, s) + LineQty[line]
         /\ s # <<>> => Append(s, line)[1] = s[1]
         /\ s = <<>> => Append(s, line) = <<line>> /\ Append(s, line)[1] = line
<1> DEFINE q == Append(s, line)
           n == Len(s)
<1>1. n \in Nat /\ (s # <<>> => n > 0)
  BY LenProperties, EmptySeq
<1>2. /\ q # <<>> /\ Len(q) = n + 1 /\ q[n + 1] = line
      /\ \A i \in 1..n : q[i] = s[i]
  BY AppendProperties
<1>3. Last(q) = line
  BY <1>2 DEF Last
<1>4. s # <<>> => q[1] = s[1]
  <2> HIDE DEF q, n
  <2> QED
    BY <1>1, <1>2
<1>5. s = <<>> => q = <<line>> /\ q[1] = line
  OBVIOUS
<1>6. /\ SumOver(LineQty, s) \in Int
      /\ SumOver(LineQty, q) = SumOver(LineQty, s) + LineQty[line]
  <2>1. \A e \in Event : LineQty[e] \in Int
    BY LineQtyType
  <2> QED
    BY <2>1, SumOverAppend
<1> QED
  BY <1>2, <1>3, <1>4, <1>5, <1>6

\* emit_order_event writes that line, and nobody else's.
LEMMA EmittedLine ==
  ASSUME TypeOK, NEW id \in OrderId, NEW status \in Status, NEW qty \in Nat,
         NEW remaining \in Nat, Emit(id, status, qty, remaining)
  PROVE  \E line \in Event :
           /\ line.status = status /\ line.qty = qty /\ line.remaining = remaining
           /\ line = [status |-> status, qty |-> qty, remaining |-> remaining]
           /\ journal'[id] = Append(journal[id], line)
           /\ \A x \in OrderId : x # id => journal'[x] = journal[x]
<1> DEFINE line == [status |-> status, qty |-> qty, remaining |-> remaining]
<1>1. /\ line \in Event /\ line.status = status /\ line.qty = qty
      /\ line.remaining = remaining
  BY DEF Event
<1>2. journal' = [journal EXCEPT ![id] = Append(journal[id], line)]
  BY DEF Emit
<1> HIDE DEF line
<1>3. journal'[id] = Append(journal[id], line)
  BY <1>2 DEF TypeOK
<1>4. \A x \in OrderId : x # id => journal'[x] = journal[x]
  BY <1>2 DEF TypeOK
<1>5. line = [status |-> status, qty |-> qty, remaining |-> remaining]
  BY DEF line
<1> QED
  BY <1>1, <1>3, <1>4, <1>5

\* One more trade on the tape or in the batch.
LEMMA OneMoreTrade ==
  ASSUME NEW s \in Seq(Trade), NEW t \in Trade, NEW id
  PROVE  /\ SumOver(TradeQty(id), s) \in Int
         /\ SumOver(TradeQty(id), Append(s, t)) = SumOver(TradeQty(id), s) + TradeQty(id)[t]
<1>1. \A x \in Trade : TradeQty(id)[x] \in Int
  BY TradeQtyType
<1> QED
  BY <1>1, SumOverAppend

\* JournalsReconcile in these words.
LEMMA JournaledIs ==
  ASSUME TypeOK, NEW id \in OrderId
  PROVE  /\ JournaledQty(id) = SumOver(LineQty, journal[id])
         /\ TapedQty(id) = SumOver(TradeQty(id), tape)
<1>1. JournaledQty(id) = SumOver(LineQty, journal[id])
  <2> DEFINE s == journal[id]
             f == [i \in DOMAIN s |-> IF s[i].status \in {"PartiallyFilled", "Filled"}
                                      THEN s[i].qty ELSE 0]
             g == [i \in DOMAIN s |-> LineQty[s[i]]]
  <2>1. \A i \in DOMAIN s : s[i] \in Event
    BY ElementOfSeq, LenProperties DEF TypeOK
  <2>2. f = g /\ DOMAIN f = DOMAIN s
    BY <2>1, LineQtyType
  <2>3. JournaledQty(id) = SumFunctionOnSet(f, DOMAIN f)
    BY DEF JournaledQty, SumFunction
  <2>4. SumOver(LineQty, s) = SumFunctionOnSet(g, DOMAIN s)
    BY DEF SumOver
  <2> HIDE DEF f, g
  <2> QED
    BY <2>2, <2>3, <2>4
<1>2. TapedQty(id) = SumOver(TradeQty(id), tape)
  <2> DEFINE f == [i \in DOMAIN tape |-> IF id \in {tape[i].maker_id, tape[i].taker_id}
                                         THEN tape[i].qty ELSE 0]
             g == [i \in DOMAIN tape |-> TradeQty(id)[tape[i]]]
  <2>1. \A i \in DOMAIN tape : tape[i] \in Trade
    BY ElementOfSeq, LenProperties DEF TypeOK
  <2>2. f = g /\ DOMAIN f = DOMAIN tape
    BY <2>1, TradeQtyType
  <2>3. TapedQty(id) = SumFunctionOnSet(f, DOMAIN f)
    BY DEF TapedQty, SumFunction
  <2>4. SumOver(TradeQty(id), tape) = SumFunctionOnSet(g, DOMAIN tape)
    BY DEF SumOver
  <2> HIDE DEF f, g
  <2> QED
    BY <2>2, <2>3, <2>4
<1> QED
  BY <1>1, <1>2

\* What one more line says of its order.
LEMMA LineEmitted ==
  ASSUME TypeOK, NEW id \in OrderId, NEW status \in Status, NEW qty \in Nat,
         NEW remaining \in Nat, Emit(id, status, qty, remaining)
  PROVE  /\ \A x \in OrderId : x # id => journal'[x] = journal[x]
         /\ SumOver(LineQty, journal'[id]) = SumOver(LineQty, journal[id])
              + (IF status \in {"PartiallyFilled", "Filled"} THEN qty ELSE 0)
         /\ status \in {"New", "PartiallyFilled"} => OpenWith(journal'[id], remaining)
         /\ status \in {"Canceled", "Rejected"} => AddUp(journal'[id])
         /\ journal[id] # <<>> => journal'[id][1] = journal[id][1]
         /\ Covers(journal'[id], remaining) => AddUp(journal'[id])
         /\ journal[id] = <<>> => journal'[id] = <<[status |-> status, qty |-> qty,
                                                    remaining |-> remaining]>>
<1>1. PICK line \in Event :
           /\ line.status = status /\ line.qty = qty /\ line.remaining = remaining
           /\ line = [status |-> status, qty |-> qty, remaining |-> remaining]
           /\ journal'[id] = Append(journal[id], line)
           /\ \A x \in OrderId : x # id => journal'[x] = journal[x]
  BY EmittedLine
<1> DEFINE old == journal[id]
           new == journal'[id]
<1>2. old \in Seq(Event) /\ new = Append(old, line)
  BY <1>1 DEF TypeOK
<1> HIDE DEF old, new
<1>3. /\ new # <<>> /\ Last(new) = line
      /\ SumOver(LineQty, new) = SumOver(LineQty, old) + LineQty[line]
      /\ old # <<>> => new[1] = old[1]
      /\ old = <<>> => new = <<line>>
  BY <1>2, OneMoreLine
<1>4. LineQty[line] = IF status \in {"PartiallyFilled", "Filled"} THEN qty ELSE 0
  BY <1>1, LineQtyType
<1>5. status \in {"New", "PartiallyFilled"} => OpenWith(new, remaining)
  BY <1>1, <1>3 DEF OpenWith
<1>6. status \in {"Canceled", "Rejected"} => AddUp(new)
  BY <1>1, <1>3 DEF AddUp
<1>7. Covers(new, remaining) => AddUp(new)
  BY <1>1, <1>3 DEF AddUp
<1> QED
  BY <1>1, <1>3, <1>4, <1>5, <1>6, <1>7 DEF old, new

\* The sums are numbers.
LEMMA JournalSums ==
  ASSUME TypeOK, NEW id \in OrderId
  PROVE  /\ SumOver(LineQty, journal[id]) \in Int
         /\ tape \o trades \in Seq(Trade)
         /\ SumOver(TradeQty(id), tape \o trades) \in Int
<1>1. \A e \in Event : LineQty[e] \in Int
  BY LineQtyType
<1>2. \A t \in Trade : TradeQty(id)[t] \in Int
  BY TradeQtyType
<1>3. journal[id] \in Seq(Event) /\ tape \o trades \in Seq(Trade)
  BY ConcatProperties DEF TypeOK
<1>4. SumOver(LineQty, journal[id]) \in Int
  BY <1>1, <1>3, SumOverType
<1>5. SumOver(TradeQty(id), tape \o trades) \in Int
  BY <1>2, <1>3, SumOverType
<1> QED
  BY <1>3, <1>4, <1>5

\* JournalInv of the next state, part by part.
LEMMA JournalNext ==
  ASSUME \A id \in NewId : id \notin DOMAIN order_to_user' => journal'[id] = <<>>,
         pc' \in {"match", "rest"} => journal'[taker'.id] = <<NewLine(incoming'.qty)>>,
         ub' \/ \A o \in RestingOrders' :
                   o.id \in NewId => OpenWith(journal'[o.id], o.qty) \/ (pc' = "rest" /\ o = taker'),
         \A id \in OrderId : SumOver(LineQty, journal'[id]) + Unjournaled(id)'
                               = SumOver(TradeQty(id), tape' \o trades'),
         \A id \in NewId : AddUp(journal'[id]),
         pc' \in {"idle", "cancel"} => trades' = <<>>
  PROVE  JournalInv'
<1>1. \A id : /\ AddUp(journal[id])' <=> AddUp(journal'[id])
              /\ SumOver(LineQty, journal[id])' = SumOver(LineQty, journal'[id])
              /\ SumOver(TradeQty(id), tape \o trades)'
                   = SumOver(TradeQty(id), tape' \o trades')
  BY DEF AddUp, Covers, SumOver, LineQty, TradeQty
<1>2. \A id, qty : OpenWith(journal[id], qty)' <=> OpenWith(journal'[id], qty)
  BY DEF OpenWith
<1>3. NewLine(incoming.qty)' = NewLine(incoming'.qty)
  BY DEF NewLine
<1> QED
  BY <1>1, <1>2, <1>3 DEF JournalInv, JustLinked

\* Nothing is journaled, traded or rested.
LEMMA SameJournals ==
  ASSUME JournalInv,
         UNCHANGED <<levels, order_to_user, incoming, taker, trades, journal, tape, ub>>,
         pc' = pc \/ {pc, pc'} \subseteq {"idle", "cancel"}
  PROVE  JournalInv'
<1>1. RestingOrders' = RestingOrders
  BY RestingOrdersOf
<1>2. \A id : Unjournaled(id)' = Unjournaled(id)
  BY DEF Unjournaled
<1>3. /\ pc' \in {"match", "rest"} <=> pc \in {"match", "rest"}
      /\ pc' = "rest" <=> pc = "rest"
      /\ pc' \in {"idle", "cancel"} <=> pc \in {"idle", "cancel"}
  OBVIOUS
<1>4. ub' \/ \A o \in RestingOrders' :
                o.id \in NewId => OpenWith(journal'[o.id], o.qty) \/ (pc' = "rest" /\ o = taker')
  BY <1>1, <1>3 DEF JournalInv, JustLinked
<1> QED
  BY <1>2, <1>3, <1>4, JournalNext DEF JournalInv

LEMMA RestingIsIndexed ==
  ASSUME ~ub, BookConsistent, NEW o \in RestingOrders
  PROVE  o.id \in DOMAIN index
<1>1. PICK side \in Side : \E p \in DOMAIN levels[side] :
                             \E i \in DOMAIN levels[side][p] : levels[side][p][i] = o
  BY InOrdersOf, RestingOrdersOf
<1>2. PICK p \in DOMAIN levels[side] : \E i \in DOMAIN levels[side][p] : levels[side][p][i] = o
  BY <1>1
<1>3. QueueOK(levels[side][p], side, p, index)
  BY DEF BookConsistent, WellFormed
<1> QED
  BY <1>2, <1>3 DEF QueueOK

\* preflight_check refuses: one line, Rejected or Canceled, of a new order.
LEMMA RefuseJournals ==
  ASSUME TypeInv, BookInv, JournalInv, NEW o \in Request, Refuse(o)
  PROVE  JournalInv'
<1>1. /\ TypeOK /\ pc = "idle" /\ ~ub /\ o.id \in NewId /\ o.id \in OrderId
      /\ o.id \notin DOMAIN order_to_user
      /\ Preflight(o) \in {"Rejected", "Canceled"} /\ Preflight(o) \in Status
      /\ UNCHANGED <<levels, index, pc, incoming, taker, trades, tape, ub>>
      /\ Emit(o.id, Preflight(o), 0, 0)
      /\ RegisterOrder(o.id, o.user_id) /\ o.user_id \in User
  BY RequestFacts DEF Refuse, Preflight, Status, TypeInv, bookVars
<1>2. DOMAIN order_to_user' = DOMAIN order_to_user \cup {o.id}
  BY <1>1, RegisterType
<1>3. journal[o.id] = <<>>
  BY <1>1 DEF JournalInv
<1> DEFINE status == Preflight(o)
           id == o.id
<1>4. /\ \A x \in OrderId : x # id => journal'[x] = journal[x]
      /\ SumOver(LineQty, journal'[id]) = SumOver(LineQty, journal[id]) + 0
      /\ AddUp(journal'[id])
  <2>1. id \in OrderId /\ Emit(id, status, 0, 0) /\ status \in Status
    BY <1>1
  <2>2. status \in {"Rejected", "Canceled"}
    BY <1>1
  <2> HIDE DEF status, id
  <2> QED
    BY <1>1, <2>1, <2>2, LineEmitted
<1>5. RestingOrders' = RestingOrders
  BY <1>1, RestingOrdersOf
<1>6. \A r \in RestingOrders : r.id \in DOMAIN index
  BY <1>1, RestingIsIndexed DEF BookInv
<1>7. DOMAIN index \cap NewId \subseteq DOMAIN order_to_user
  BY DEF TypeInv, InFlightOK
<1>8. NewId \subseteq OrderId
  BY EngineAssumption
<1> HIDE DEF status
<1>9. \A x \in NewId : x \notin DOMAIN order_to_user' => journal'[x] = <<>>
  BY <1>1, <1>2, <1>4, <1>8 DEF JournalInv
<1>10. \A r \in RestingOrders' : r.id \in NewId => OpenWith(journal'[r.id], r.qty)
  BY <1>1, <1>4, <1>5, <1>6, <1>7, <1>8 DEF JournalInv, JustLinked
<1>11. ASSUME NEW x \in OrderId
       PROVE  SumOver(LineQty, journal'[x]) + Unjournaled(x)'
                = SumOver(TradeQty(x), tape' \o trades')
  <2>1. SumOver(LineQty, journal[x]) \in Int
    BY <1>1, JournalSums
  <2>2. SumOver(LineQty, journal'[x]) = SumOver(LineQty, journal[x])
    BY <1>4, <2>1
  <2>3. Unjournaled(x)' = Unjournaled(x)
    BY <1>1 DEF Unjournaled
  <2> QED
    BY <1>1, <2>2, <2>3 DEF JournalInv
<1>12. \A x \in NewId : AddUp(journal'[x])
  BY <1>4, <1>8 DEF JournalInv
<1>13. pc' = "idle" /\ trades' = <<>>
  BY <1>1 DEF JournalInv
<1> QED
  BY <1>9, <1>10, <1>11, <1>12, <1>13, JournalNext

\* The NEW event: one line with everything left, and nothing traded.
LEMMA AcceptJournals ==
  ASSUME TypeInv, BookInv, JournalInv, NEW o \in Request, Accept(o)
  PROVE  JournalInv'
<1>1. /\ TypeOK /\ pc = "idle" /\ ~ub /\ o.id \in NewId /\ o.id \in OrderId
      /\ o.id \notin DOMAIN order_to_user /\ o.qty \in Nat
      /\ UNCHANGED <<levels, index, trades, tape, ub>>
      /\ pc' = "match" /\ incoming' = o /\ taker' = o
      /\ Emit(o.id, "New", o.qty, o.qty)
      /\ RegisterOrder(o.id, o.user_id) /\ o.user_id \in User
  BY RequestFacts DEF Accept, TypeInv, bookVars, Order
<1>2. DOMAIN order_to_user' = DOMAIN order_to_user \cup {o.id}
  BY <1>1, RegisterType
<1>3. journal[o.id] = <<>>
  BY <1>1 DEF JournalInv
<1> DEFINE id == o.id
           qty == o.qty
<1>4. /\ \A x \in OrderId : x # id => journal'[x] = journal[x]
      /\ SumOver(LineQty, journal'[id]) = SumOver(LineQty, journal[id]) + 0
      /\ journal'[id] = <<NewLine(qty)>>
  <2>1. id \in OrderId /\ Emit(id, "New", qty, qty) /\ "New" \in Status /\ qty \in Nat
    BY <1>1 DEF Status
  <2>2. journal[id] = <<>>
    BY <1>3
  <2> HIDE DEF qty, id
  <2> QED
    BY <1>1, <2>1, <2>2, LineEmitted DEF NewLine
<1>5. RestingOrders' = RestingOrders
  BY <1>1, RestingOrdersOf
<1>6. \A r \in RestingOrders : r.id \in DOMAIN index
  BY <1>1, RestingIsIndexed DEF BookInv
<1>7. DOMAIN index \cap NewId \subseteq DOMAIN order_to_user
  BY DEF TypeInv, InFlightOK
<1>8. NewId \subseteq OrderId
  BY EngineAssumption
<1>9. \A x \in NewId : x \notin DOMAIN order_to_user' => journal'[x] = <<>>
  BY <1>1, <1>2, <1>4, <1>8 DEF JournalInv
<1>10. \A r \in RestingOrders' : r.id \in NewId => OpenWith(journal'[r.id], r.qty)
  BY <1>1, <1>4, <1>5, <1>6, <1>7, <1>8 DEF JournalInv, JustLinked
<1>11. SumOver(LineQty, <<>>) = 0
  BY SumOverEmpty
<1>12. ASSUME NEW x \in OrderId
       PROVE  SumOver(LineQty, journal'[x]) + Unjournaled(x)'
                = SumOver(TradeQty(x), tape' \o trades')
  <2>1. SumOver(LineQty, journal[x]) \in Int
    BY <1>1, JournalSums
  <2>2. SumOver(LineQty, journal'[x]) = SumOver(LineQty, journal[x])
    BY <1>4, <2>1
  <2>3. Unjournaled(x) = 0 /\ Unjournaled(x)' = 0
    <3>1. o.qty - o.qty = 0
      BY <1>1
    <3> QED
      BY <1>1, <3>1 DEF Unjournaled
  <2> QED
    BY <1>1, <2>2, <2>3 DEF JournalInv
<1>13. AddUp(journal'[id])
  <2>1. SumOver(LineQty, journal'[id]) = 0
    BY <1>3, <1>4, <1>11
  <2>2. qty = 0 + qty
    BY <1>1
  <2>3. Last(<<NewLine(qty)>>) = NewLine(qty) /\ <<NewLine(qty)>>[1] = NewLine(qty)
    BY DEF Last
  <2>4. NewLine(qty).qty = qty /\ NewLine(qty).remaining = qty
    BY DEF NewLine
  <2> QED
    BY <1>4, <2>1, <2>2, <2>3, <2>4 DEF AddUp, Covers
<1>14. \A x \in NewId : AddUp(journal'[x])
  BY <1>4, <1>8, <1>13 DEF JournalInv
<1>15. pc' \notin {"idle", "cancel"} /\ journal'[taker'.id] = <<NewLine(incoming'.qty)>>
  BY <1>1, <1>4
<1> QED
  BY <1>1, <1>9, <1>10, <1>12, <1>14, <1>15, JournalNext

\* The line of a maker.
LEMMA MakerEmitted ==
  ASSUME TypeOK, NEW id \in OrderId, NEW qty \in Nat, NEW left \in Nat,
         EmitMaker(id, qty, left)
  PROVE  /\ \A x \in OrderId : x # id => journal'[x] = journal[x]
         /\ SumOver(LineQty, journal'[id]) = SumOver(LineQty, journal[id]) + qty
         /\ left # 0 => OpenWith(journal'[id], left)
         /\ journal[id] # <<>> => journal'[id][1] = journal[id][1]
         /\ Covers(journal'[id], left) => AddUp(journal'[id])
<1>1. CASE left = 0
  <2>1. Emit(id, "Filled", qty, left) /\ "Filled" \in Status
    BY <1>1 DEF EmitMaker, Status
  <2>2. /\ \A x \in OrderId : x # id => journal'[x] = journal[x]
        /\ SumOver(LineQty, journal'[id]) = SumOver(LineQty, journal[id])
             + (IF "Filled" \in {"PartiallyFilled", "Filled"} THEN qty ELSE 0)
    BY <2>1, LineEmitted
  <2>3. journal[id] # <<>> => journal'[id][1] = journal[id][1]
    BY <2>1, LineEmitted
  <2>4. Covers(journal'[id], left) => AddUp(journal'[id])
    BY <2>1, LineEmitted
  <2> QED
    BY <1>1, <2>2, <2>3, <2>4
<1>2. CASE left # 0
  <2>1. Emit(id, "PartiallyFilled", qty, left) /\ "PartiallyFilled" \in Status
    BY <1>2 DEF EmitMaker, Status
  <2> QED
    BY <2>1, LineEmitted
<1> QED
  BY <1>1, <1>2

\* One turn of the loop: the maker's line and the trade, which the taker's line
\* at the end will match.
LEMMA FillJournals ==
  ASSUME TypeInv, BookInv, JournalInv, Fill
  PROVE  JournalInv'
<1>1. PICK maker \in RestingOrders, qty \in Nat :
           /\ maker \in Order /\ maker.side = Opposite(taker.side)
           /\ maker.price \in Price /\ maker.id \in DOMAIN index
           /\ taker \in Order /\ qty <= taker.qty /\ qty <= maker.qty /\ 0 < qty
           /\ trades' = Append(trades,
                          [maker_id |-> maker.id, taker_id |-> taker.id,
                           maker_user_id |-> UserOf(maker.id), taker_user_id |-> taker.user_id,
                           price |-> maker.price, qty |-> qty])
           /\ OnFill(maker.id, taker.id, maker.price, qty, taker.side)
           /\ taker' = [taker EXCEPT !.qty = @ - qty]
           /\ EmitMaker(maker.id, qty, maker.qty - qty)
           /\ RestingOrders' = (RestingOrders \ {maker})
                \cup (IF maker.qty - qty = 0 THEN {}
                                             ELSE {[maker EXCEPT !.qty = maker.qty - qty]})
  BY FillOrders
<1> DEFINE t == [maker_id |-> maker.id, taker_id |-> taker.id,
                 maker_user_id |-> UserOf(maker.id), taker_user_id |-> taker.user_id,
                 price |-> maker.price, qty |-> qty]
           left == maker.qty - qty
           m == maker.id
           rest == [maker EXCEPT !.qty = left]
<1>2. /\ TypeOK /\ pc = "match" /\ ~ub
      /\ UNCHANGED <<order_to_user, pc, incoming, tape, ub>>
      /\ tape \in Seq(Trade) /\ trades \in Seq(Trade)
      /\ taker.id \in DOMAIN order_to_user /\ taker.id \notin DOMAIN index
      /\ DOMAIN order_to_user \subseteq NewId
      /\ DOMAIN index \cap NewId \subseteq DOMAIN order_to_user
      /\ taker.qty <= incoming.qty /\ incoming \in Order
  BY DEF Fill, TypeInv, TypeOK, InFlightOK
<1>3. /\ m \in OrderId /\ taker.id \in OrderId /\ m # taker.id
      /\ taker.id \in NewId /\ NewId \subseteq OrderId
  BY <1>1, <1>2, EngineAssumption DEF Order
<1>4. /\ t \in Trade /\ t.maker_id = m /\ t.taker_id = taker.id /\ t.qty = qty
      /\ trades' = Append(trades, t)
  <2>1. UserOf(maker.id) \in User /\ taker.user_id \in User
    BY <1>1, <1>2, <1>3, UserOfType DEF Order
  <2> QED
    BY <1>1, <1>3, <2>1 DEF Trade
<1>5. /\ left \in Nat /\ maker.qty = qty + left
  BY <1>1 DEF Order
<1>6. taker'.id = taker.id /\ taker'.qty = taker.qty - qty /\ taker.qty \in Int /\ incoming.qty \in Int
  BY <1>1, <1>2 DEF Order
<1>7. rest.id = m /\ rest.qty = left
  BY <1>1 DEF Order
<1>8. RestingOrders' = (RestingOrders \ {maker}) \cup (IF left = 0 THEN {} ELSE {rest})
  BY <1>1
<1> HIDE DEF t, left, rest
<1>9. /\ \A x \in OrderId : x # m => journal'[x] = journal[x]
      /\ SumOver(LineQty, journal'[m]) = SumOver(LineQty, journal[m]) + qty
      /\ left # 0 => OpenWith(journal'[m], left)
      /\ journal[m] # <<>> => journal'[m][1] = journal[m][1]
      /\ Covers(journal'[m], left) => AddUp(journal'[m])
  <2>1. EmitMaker(m, qty, left) /\ m \in OrderId /\ left \in Nat
    BY <1>1, <1>3, <1>5 DEF left, m
  <2> QED
    BY <1>2, <2>1, MakerEmitted
<1>10. \A x \in NewId : x \notin DOMAIN order_to_user' => journal'[x] = <<>>
  BY <1>1, <1>2, <1>3, <1>9 DEF JournalInv
<1>11. journal'[taker'.id] = <<NewLine(incoming'.qty)>>
  BY <1>2, <1>3, <1>6, <1>9 DEF JournalInv
<1>12. ASSUME NEW r \in RestingOrders', r.id \in NewId
       PROVE  OpenWith(journal'[r.id], r.qty)
  <2>1. CASE left # 0 /\ r = rest
    BY <1>7, <1>9, <2>1
  <2>2. CASE r \in RestingOrders /\ r # maker
    <3>1. r.id # m
      <4>1. WellFormed(levels, index)
        BY <1>2 DEF BookInv, BookConsistent
      <4>2. r \in OrdersOf(levels) /\ maker \in OrdersOf(levels)
        BY <2>2, RestingOrdersOf
      <4> QED
        BY <2>2, <4>1, <4>2, OneOrderPerId
    <3>2. journal'[r.id] = journal[r.id]
      BY <1>3, <1>9, <1>12, <3>1
    <3> QED
      BY <1>2, <1>12, <2>2, <3>2 DEF JournalInv, JustLinked
  <2> QED
    BY <1>8, <2>1, <2>2
<1>13. tape' \o trades' = Append(tape \o trades, t) /\ tape \o trades \in Seq(Trade)
  BY <1>2, <1>4, ConcatAppend, ConcatProperties
<1>14. ASSUME NEW x \in OrderId
       PROVE  SumOver(LineQty, journal'[x]) + Unjournaled(x)'
                = SumOver(TradeQty(x), tape' \o trades')
  <2> DEFINE S == tape \o trades
             J == SumOver(LineQty, journal[x])
             K == SumOver(LineQty, journal'[x])
             T == SumOver(TradeQty(x), S)
  <2>1. S \in Seq(Trade) /\ t \in Trade
    BY <1>4, <1>13
  <2>2. J \in Int /\ T \in Int
    BY <1>2, JournalSums
  <2>3. SumOver(TradeQty(x), Append(S, t)) = T + TradeQty(x)[t]
    <3> HIDE DEF S
    <3> QED
      BY <2>1, OneMoreTrade
  <2>4. TradeQty(x)[t] = IF x \in {m, taker.id} THEN qty ELSE 0
    BY <1>4, TradeQtyType
  <2>5. J + Unjournaled(x) = T
    BY DEF JournalInv
  <2>6. /\ Unjournaled(x) = IF taker.id = x THEN incoming.qty - taker.qty ELSE 0
        /\ Unjournaled(x)' = IF taker.id = x THEN incoming.qty - (taker.qty - qty) ELSE 0
    BY <1>2, <1>6 DEF Unjournaled
  <2>7. K = IF x = m THEN J + qty ELSE J
    BY <1>9
  <2> HIDE DEF S, J, K, T, m
  <2>8. K + Unjournaled(x)' = T + TradeQty(x)[t]
    <3>1. CASE x = m
      <4>1. Unjournaled(x) = 0 /\ Unjournaled(x)' = 0 /\ K = J + qty /\ TradeQty(x)[t] = qty
        BY <1>3, <2>4, <2>6, <2>7, <3>1
      <4> QED
        BY <2>2, <2>5, <4>1
    <3>2. CASE x = taker.id
      <4>1. /\ Unjournaled(x) = incoming.qty - taker.qty
            /\ Unjournaled(x)' = incoming.qty - (taker.qty - qty)
            /\ K = J /\ TradeQty(x)[t] = qty
        BY <1>3, <2>4, <2>6, <2>7, <3>2
      <4> QED
        BY <1>6, <2>2, <2>5, <4>1
    <3>3. CASE x # m /\ x # taker.id
      <4>1. Unjournaled(x) = 0 /\ Unjournaled(x)' = 0 /\ K = J /\ TradeQty(x)[t] = 0
        BY <2>4, <2>6, <2>7, <3>3
      <4> QED
        BY <2>2, <2>5, <4>1
    <3> QED
      BY <3>1, <3>2, <3>3
  <2> QED
    BY <1>13, <2>3, <2>8 DEF K, S, T
<1>15. ASSUME NEW x \in NewId PROVE AddUp(journal'[x])
  <2>1. CASE x # m
    BY <1>3, <1>9, <2>1 DEF JournalInv
  <2>2. CASE x = m
    <3> DEFINE old == journal[m]
               J == SumOver(LineQty, old)
    <3>1. OpenWith(old, maker.qty) /\ AddUp(old)
      BY <1>1, <1>2, <2>2 DEF JournalInv, JustLinked
    <3>2. /\ Last(old).status \notin {"Canceled", "Rejected"}
          /\ old # <<>> /\ Last(old).remaining = maker.qty
      BY <3>1 DEF OpenWith
    <3>3. old[1].qty = J + maker.qty
      BY <3>1, <3>2 DEF AddUp, Covers
    <3>4. J \in Int
      BY <1>2, <1>3, JournalSums
    <3> HIDE DEF J
    <3>5. J + maker.qty = (J + qty) + left
      BY <1>5, <3>4
    <3> QED
      BY <1>9, <2>2, <3>2, <3>3, <3>5 DEF J, Covers
  <2> QED
    BY <2>1, <2>2
<1>16. pc' \notin {"idle", "cancel"}
  BY <1>2
<1> QED
  BY <1>10, <1>11, <1>12, <1>14, <1>15, <1>16, JournalNext

\* An order is linked before its last line is written.
LEMMA RestJournals ==
  ASSUME TypeInv, BookInv, JournalInv, Rest
  PROVE  JournalInv'
<1>1. /\ pc = "match" /\ pc' = "rest" /\ ~ub
      /\ UNCHANGED <<order_to_user, incoming, taker, trades, journal, tape, ub>>
  BY RestFacts
<1>2. RestingOrders' = RestingOrders \cup {taker}
  BY RestOrders
<1>3. \A o \in RestingOrders' :
        o.id \in NewId => OpenWith(journal'[o.id], o.qty) \/ (pc' = "rest" /\ o = taker')
  BY <1>1, <1>2 DEF JournalInv, JustLinked
<1>4. \A id : Unjournaled(id)' = Unjournaled(id)
  BY <1>1 DEF Unjournaled
<1>5. /\ \A id \in NewId : id \notin DOMAIN order_to_user' => journal'[id] = <<>>
      /\ journal'[taker'.id] = <<NewLine(incoming'.qty)>>
      /\ \A id \in NewId : AddUp(journal'[id])
      /\ pc' \notin {"idle", "cancel"}
  BY <1>1 DEF JournalInv
<1>6. \A id \in OrderId : SumOver(LineQty, journal'[id]) + Unjournaled(id)'
                            = SumOver(TradeQty(id), tape' \o trades')
  BY <1>1, <1>4 DEF JournalInv
<1> QED
  BY <1>3, <1>5, <1>6, JournalNext

\* After the loop: the batch reaches the tape, and the order's last line catches
\* up with it.
LEMMA ConcludeJournals ==
  ASSUME TypeInv, BookInv, JournalInv, pc \in {"match", "rest"}, Conclude
  PROVE  JournalInv'
<1> DEFINE id == taker.id
           left == taker.qty
           filled == incoming.qty - left
           status == IF left = 0 THEN "Filled" ELSE "PartiallyFilled"
<1>1. /\ TypeOK /\ pc \in {"match", "rest"} /\ ~ub
      /\ UNCHANGED <<order_to_user, ub>> /\ pc' = "idle" /\ trades' = <<>>
      /\ tape' = tape \o trades /\ tape' \in Seq(Trade)
      /\ id \in DOMAIN order_to_user
      /\ pc = "match" => id \notin DOMAIN index
      /\ pc = "rest" => taker \in RestingOrders /\ left > 0
      /\ DOMAIN order_to_user \subseteq NewId
      /\ taker \in Order /\ incoming \in Order /\ left <= incoming.qty
  BY ConcatProperties DEF Conclude, EmitTrades, TypeInv, TypeOK, InFlightOK, Rests
<1>2. id \in NewId /\ id \in OrderId /\ NewId \subseteq OrderId
  BY <1>1, EngineAssumption DEF Order
<1>3. left \in Nat /\ incoming.qty \in Nat /\ filled \in Nat
  BY <1>1 DEF Order
<1>4. IF filled = 0 THEN UNCHANGED journal ELSE Emit(id, status, filled, left)
  BY DEF Conclude
<1>5. journal[id] = <<NewLine(incoming.qty)>>
  BY <1>1 DEF JournalInv
<1>6. AddUp(journal[id]) /\ SumOver(LineQty, journal[id]) + filled = SumOver(TradeQty(id), tape')
  BY <1>1, <1>2 DEF JournalInv, Unjournaled
<1>7. RestingOrders' = RestingOrders
  BY RestingOrdersOf DEF Conclude, bookVars
<1> DEFINE line == NewLine(incoming.qty)
           old == journal[id]
<1>8. /\ old = <<line>> /\ line.status = "New" /\ line.qty = incoming.qty
      /\ line.remaining = incoming.qty
  BY <1>5 DEF NewLine
<1>9. incoming.qty = filled + left
  BY <1>3
<1> HIDE DEF status, filled, left, line, old
<1>10. old # <<>> /\ Last(old) = line /\ old[1] = line
  BY <1>8 DEF Last
<1>11. SumOver(LineQty, old) = 0
  <2>1. Covers(old, Last(old).remaining)
    BY <1>6, <1>8, <1>10 DEF AddUp, old
  <2>2. SumOver(LineQty, old) \in Int
    BY <1>1, <1>2, JournalSums DEF old
  <2> QED
    BY <1>3, <1>8, <1>10, <2>1, <2>2 DEF Covers
<1>12. /\ \A x \in OrderId : x # id => journal'[x] = journal[x]
       /\ SumOver(LineQty, journal'[id]) = filled
       /\ AddUp(journal'[id])
       /\ left > 0 => OpenWith(journal'[id], left)
  <2>1. CASE filled = 0
    <3>1. journal' = journal /\ left = incoming.qty
      BY <1>3, <1>4, <1>9, <2>1
    <3>2. OpenWith(old, left)
      BY <1>8, <1>10, <3>1 DEF OpenWith
    <3>3. SumOver(LineQty, journal'[id]) = filled
      BY <1>11, <2>1, <3>1 DEF old
    <3> QED
      BY <1>6, <3>1, <3>2, <3>3 DEF old
  <2>2. CASE filled # 0
    <3>1. /\ Emit(id, status, filled, left) /\ status \in Status
          /\ status \in {"PartiallyFilled", "Filled"}
          /\ left > 0 => status \in {"New", "PartiallyFilled"}
      BY <1>3, <1>4, <2>2 DEF status, Status
    <3>2. /\ \A x \in OrderId : x # id => journal'[x] = journal[x]
          /\ SumOver(LineQty, journal'[id]) = SumOver(LineQty, old)
               + (IF status \in {"PartiallyFilled", "Filled"} THEN filled ELSE 0)
          /\ status \in {"New", "PartiallyFilled"} => OpenWith(journal'[id], left)
      BY <1>1, <1>2, <1>3, <3>1, LineEmitted DEF old
    <3>3. /\ Covers(journal'[id], left) => AddUp(journal'[id])
          /\ old # <<>> => journal'[id][1] = old[1]
      BY <1>1, <1>2, <1>3, <3>1, LineEmitted DEF old
    <3>4. SumOver(LineQty, journal'[id]) = filled
      BY <1>3, <1>11, <3>1, <3>2
    <3>5. Covers(journal'[id], left)
      BY <1>8, <1>9, <1>10, <3>3, <3>4 DEF Covers
    <3> QED
      BY <3>1, <3>2, <3>3, <3>4, <3>5
  <2> QED
    BY <2>1, <2>2
<1>13. \A x \in NewId : x \notin DOMAIN order_to_user' => journal'[x] = <<>>
  BY <1>1, <1>2, <1>12 DEF JournalInv
<1>14. ASSUME NEW r \in RestingOrders', r.id \in NewId
       PROVE  OpenWith(journal'[r.id], r.qty)
  <2>1. CASE pc = "rest" /\ r = taker
    BY <1>1, <1>12, <2>1 DEF left
  <2>2. CASE ~(pc = "rest" /\ r = taker)
    <3>1. r.id # id
      <4>1. CASE pc = "match"
        BY <1>1, <1>7, <4>1, RestingIsIndexed DEF BookInv
      <4>2. CASE pc = "rest"
        <5>1. WellFormed(levels, index)
          BY <1>1 DEF BookInv, BookConsistent
        <5>2. r \in OrdersOf(levels) /\ taker \in OrdersOf(levels)
          BY <1>1, <1>7, <4>2, RestingOrdersOf
        <5> QED
          BY <2>2, <4>2, <5>1, <5>2, OneOrderPerId
      <4> QED
        BY <1>1, <4>1, <4>2
    <3>2. journal'[r.id] = journal[r.id]
      BY <1>2, <1>12, <1>14, <3>1
    <3> QED
      BY <1>1, <1>7, <1>14, <2>2, <3>2 DEF JournalInv, JustLinked
  <2> QED
    BY <2>1, <2>2
<1>15. tape' \o trades' = tape' /\ tape' = tape \o trades
  BY <1>1, ConcatEmptySeq
<1>16. ASSUME NEW x \in OrderId
       PROVE  SumOver(LineQty, journal'[x]) + Unjournaled(x)'
                = SumOver(TradeQty(x), tape' \o trades')
  <2>1. Unjournaled(x)' = 0
    BY <1>1 DEF Unjournaled
  <2>2. CASE x = id
    <3>1. filled + 0 = SumOver(TradeQty(id), tape')
      <4>1. SumOver(LineQty, old) + filled = SumOver(TradeQty(id), tape')
        BY <1>6 DEF old
      <4> QED
        BY <1>3, <1>11, <4>1
    <3> QED
      BY <1>12, <1>15, <2>1, <2>2, <3>1
  <2>3. CASE x # id
    <3>1. Unjournaled(x) = 0
      BY <2>3 DEF Unjournaled, id
    <3> QED
      BY <1>12, <1>15, <2>1, <2>3, <3>1 DEF JournalInv
  <2> QED
    BY <2>2, <2>3
<1>17. \A x \in NewId : AddUp(journal'[x])
  BY <1>2, <1>12 DEF JournalInv
<1> QED
  BY <1>1, <1>13, <1>14, <1>16, <1>17, JournalNext

\* A cancellation: one line, Canceled, and the order is in the book no more.
LEMMA CancelJournals ==
  ASSUME TypeInv, JournalInv, NEW id \in OrderId, Emit(id, "Canceled", 0, 0),
         pc = "idle", id \in DOMAIN index,
         pc' \in {"idle", "cancel"},
         UNCHANGED <<order_to_user, incoming, taker, trades, tape>>,
         ub' \/ (~ub /\ RestingOrders' \subseteq RestingOrders
                     /\ \A o \in RestingOrders' : o.id # id)
  PROVE  JournalInv'
<1>1. TypeOK /\ "Canceled" \in Status /\ NewId \subseteq OrderId
  BY EngineAssumption DEF TypeInv, Status
<1>2. /\ \A x \in OrderId : x # id => journal'[x] = journal[x]
      /\ SumOver(LineQty, journal'[id]) = SumOver(LineQty, journal[id])
           + (IF "Canceled" \in {"PartiallyFilled", "Filled"} THEN 0 ELSE 0)
      /\ AddUp(journal'[id])
  BY <1>1, LineEmitted
<1>3. \A x \in NewId : x \notin DOMAIN order_to_user' => journal'[x] = <<>>
  <2>1. id \in NewId => id \in DOMAIN order_to_user
    BY DEF TypeInv, InFlightOK
  <2> QED
    BY <1>1, <1>2, <2>1 DEF JournalInv
<1>4. ub' \/ \A o \in RestingOrders' : o.id \in NewId => OpenWith(journal'[o.id], o.qty)
  BY <1>1, <1>2 DEF JournalInv, JustLinked
<1>5. ASSUME NEW x \in OrderId
      PROVE  SumOver(LineQty, journal'[x]) + Unjournaled(x)'
               = SumOver(TradeQty(x), tape' \o trades')
  <2>1. SumOver(LineQty, journal[x]) \in Int
    BY <1>1, JournalSums
  <2>2. SumOver(LineQty, journal'[x]) = SumOver(LineQty, journal[x])
    BY <1>2, <2>1
  <2>3. Unjournaled(x)' = Unjournaled(x)
    BY DEF Unjournaled
  <2> QED
    BY <2>2, <2>3 DEF JournalInv
<1>6. \A x \in NewId : AddUp(journal'[x])
  BY <1>1, <1>2 DEF JournalInv
<1>7. pc' \notin {"match", "rest"} /\ trades' = <<>>
  BY DEF JournalInv
<1> QED
  BY <1>3, <1>4, <1>5, <1>6, <1>7, JournalNext

LEMMA JournalInit == Init => JournalInv
<1> SUFFICES ASSUME Init PROVE JournalInv
  OBVIOUS
<1>1. /\ \A id \in OrderId : journal[id] = <<>>
      /\ pc = "idle" /\ tape = <<>> /\ trades = <<>> /\ levels = SeedLevels
  BY DEF Init
<1>2. tape \o trades = <<>>
  <2>1. <<>> \in Seq(Trade)
    BY EmptySeq
  <2> QED
    BY <1>1, <2>1, ConcatEmptySeq
<1>3. \A id : SumOver(LineQty, <<>>) = 0 /\ SumOver(TradeQty(id), <<>>) = 0
  BY SumOverEmpty
<1>4. NewId \subseteq OrderId
  BY EngineAssumption
<1>5. \A o \in RestingOrders : o.id \notin NewId
  <2>1. ~ub /\ BookConsistent
    BY BookInit DEF Init, BookInv
  <2>2. DOMAIN index \subseteq SeedId
    BY SeedAssumption DEF Init, Seeded
  <2> QED
    BY <2>1, <2>2, RestingIsIndexed, EngineAssumption
<1>6. \A id \in OrderId :
        SumOver(LineQty, journal[id]) + Unjournaled(id) = SumOver(TradeQty(id), tape \o trades)
  BY <1>1, <1>2, <1>3 DEF Unjournaled
<1>7. \A id \in NewId : AddUp(journal[id])
  BY <1>1, <1>4 DEF AddUp
<1> QED
  BY <1>1, <1>4, <1>5, <1>6, <1>7 DEF JournalInv

LEMMA JournalStep == TypeInv /\ BookInv /\ JournalInv /\ [Next]_vars => JournalInv'
<1> SUFFICES ASSUME TypeInv, BookInv, JournalInv, [Next]_vars PROVE JournalInv'
  OBVIOUS
<1>1. ASSUME NEW o \in Request, Refuse(o) PROVE JournalInv'
  BY <1>1, RefuseJournals
<1>2. ASSUME NEW o \in Request, Accept(o) PROVE JournalInv'
  BY <1>2, AcceptJournals
<1>3. CASE Fill
  BY <1>3, FillJournals
<1>4. CASE Rest
  BY <1>4, RestJournals
<1>5. CASE Settle \/ Complete
  BY <1>5, ConcludeJournals DEF Settle, Complete
<1>6. ASSUME NEW id \in OrderId, CancelOpen(id) PROVE JournalInv'
  <2>1. /\ Emit(id, "Canceled", 0, 0) /\ pc = "idle" /\ id \in DOMAIN index /\ ~ub
        /\ pc' = "cancel"
        /\ UNCHANGED <<order_to_user, incoming, taker, trades, tape>>
    BY <1>6 DEF CancelOpen, userVars
  <2>2. PICK o \in RestingOrders : o.id = id /\ RestingOrders' = RestingOrders \ {o}
    BY <1>6, CancelOpenOrders
  <2>3. ASSUME NEW r \in RestingOrders' PROVE r.id # id
    <3>1. WellFormed(levels, index)
      BY <2>1 DEF BookInv, BookConsistent
    <3>2. r \in OrdersOf(levels) /\ o \in OrdersOf(levels) /\ r # o
      BY <2>2, RestingOrdersOf
    <3> QED
      BY <2>2, <3>1, <3>2, OneOrderPerId
  <2>4. RestingOrders' \subseteq RestingOrders
    BY <2>2
  <2> QED
    BY <2>1, <2>3, <2>4, CancelJournals
<1>7. ASSUME NEW id \in OrderId, CancelDangling(id) PROVE JournalInv'
  <2>1. /\ Emit(id, "Canceled", 0, 0) /\ pc = "idle" /\ id \in DOMAIN index /\ ub'
        /\ UNCHANGED <<order_to_user, pc, incoming, taker, trades, tape>>
    BY <1>7 DEF CancelDangling
  <2> QED
    BY <2>1, CancelJournals
<1>8. CASE CancelDone
  BY <1>8, SameJournals DEF CancelDone, bookVars
<1>9. ASSUME NEW u \in User, Connect(u) PROVE JournalInv'
  BY <1>9, SameJournals DEF Connect, NextUserId, bookVars
<1>10. CASE UNCHANGED vars
  BY <1>10, SameJournals DEF vars, bookVars, userVars
<1> QED
  BY <1>1, <1>2, <1>3, <1>4, <1>5, <1>6, <1>7, <1>8, <1>9, <1>10
     DEF Next, CancelUnknown, Corrupted

\* orders.jsonl, trades.jsonl and the book tell the same story, whatever the
\* number of orders, users and prices: emit_order_event and emit_trades between
\* them lose no quantity and count none twice, however a sweep partly fills its
\* makers and is itself filled in part.
THEOREM JournalsAlwaysReconcile == Spec => []JournalsReconcile
<1>1. Init => JournalInv
  BY JournalInit
<1>2. TypeInv /\ BookInv /\ JournalInv /\ [Next]_vars => JournalInv'
  BY JournalStep
<1>3. TypeInv /\ JournalInv => JournalsReconcile
  <2> SUFFICES ASSUME TypeInv, JournalInv PROVE JournalsReconcile
    OBVIOUS
  <2>1. TypeOK /\ NewId \subseteq OrderId /\ tape \in Seq(Trade)
    BY EngineAssumption DEF TypeInv, TypeOK
  <2>2. \A id \in OrderId : JournaledQty(id) = SumOver(LineQty, journal[id])
    BY <2>1, JournaledIs
  <2>3. \A id : LastLine(id) = Last(journal[id])
    BY DEF LastLine, Last
  <2>4. ub \/ \A o \in RestingOrders : o.id \in NewId =>
                IsOpen(o.id) /\ (LastLine(o.id).remaining = o.qty \/ (pc = "rest" /\ o = taker))
    <3> SUFFICES ASSUME ~ub, NEW o \in RestingOrders, o.id \in NewId
                 PROVE  /\ IsOpen(o.id)
                        /\ LastLine(o.id).remaining = o.qty \/ (pc = "rest" /\ o = taker)
      OBVIOUS
    <3>1. CASE OpenWith(journal[o.id], o.qty)
      BY <2>3, <3>1 DEF OpenWith, IsOpen
    <3>2. CASE JustLinked(o)
      <4>1. journal[o.id] = <<NewLine(incoming.qty)>> /\ NewLine(incoming.qty).status = "New"
        BY <3>2 DEF JournalInv, JustLinked, NewLine
      <4>2. <<NewLine(incoming.qty)>> # <<>> /\ Last(<<NewLine(incoming.qty)>>) = NewLine(incoming.qty)
        BY DEF Last
      <4> QED
        BY <2>3, <3>2, <4>1, <4>2 DEF JustLinked, IsOpen
    <3> QED
      BY <3>1, <3>2 DEF JournalInv
  <2>5. ASSUME pc = "idle", NEW id \in OrderId PROVE JournaledQty(id) = TapedQty(id)
    <3>1. tape \o trades = tape
      BY <2>1, <2>5, ConcatEmptySeq DEF JournalInv
    <3>2. SumOver(LineQty, journal[id]) + 0 = SumOver(TradeQty(id), tape)
      BY <2>5, <3>1 DEF JournalInv, Unjournaled
    <3>3. SumOver(LineQty, journal[id]) \in Int
      BY <2>1, JournalSums
    <3>4. TapedQty(id) = SumOver(TradeQty(id), tape)
      BY <2>1, JournaledIs
    <3> QED
      BY <2>2, <3>2, <3>3, <3>4
  <2>6. \A id \in NewId :
          journal[id] # <<>> /\ LastLine(id).status \notin {"Canceled", "Rejected"} =>
            journal[id][1].qty = JournaledQty(id) + LastLine(id).remaining
    BY <2>1, <2>2, <2>3 DEF JournalInv, AddUp, Covers
  <2> QED
    BY <2>4, <2>5, <2>6 DEF JournalsReconcile
<1> QED
  BY <1>1, <1>2, <1>3, TypeInvariant, BookInvariant, PTL DEF Spec

-----------------------------------------------------------------------------
(* DepthBook. What a sweep has taken at each price, and what rests at it.  *)

QtyAt(p) == [t \in Trade |-> IF t.price = p THEN t.qty ELSE 0]
Swept(batch) == [p \in Price |-> SumOver(QtyAt(p), batch)]

LEMMA QtyAtType ==
  \A p : \A t \in Trade : /\ QtyAt(p)[t] = IF t.price = p THEN t.qty ELSE 0
                          /\ QtyAt(p)[t] \in Nat /\ QtyAt(p)[t] \in Int
BY DEF QtyAt, Trade

LEMMA FinitePrices == IsFiniteSet(Price)
BY BookAssumption, FS_Interval DEF Price

LEMMA SweptType ==
  ASSUME NEW batch \in Seq(Trade)
  PROVE  Swept(batch) \in [Price -> Nat]
<1>1. ASSUME NEW p \in Price PROVE SumOver(QtyAt(p), batch) \in Nat
  <2> DEFINE D == DOMAIN batch
             f == [i \in D |-> QtyAt(p)[batch[i]]]
  <2>1. D = 1..Len(batch) /\ Len(batch) \in Nat /\ \A i \in D : batch[i] \in Trade
    BY ElementOfSeq, LenProperties
  <2>2. \A i \in D : f[i] \in Nat
    BY <2>1, QtyAtType
  <2>3. SumOver(QtyAt(p), batch) = SumFunctionOnSet(f, D)
    BY DEF SumOver
  <2> HIDE DEF D, f
  <2>4. \A n \in Nat : IsFiniteSet(1..n)
    BY FS_Interval
  <2>5. IsFiniteSet(D)
    BY <2>1, <2>4
  <2> QED
    BY <2>2, <2>3, <2>5, SumNat
<1> QED
  BY <1>1 DEF Swept

LEMMA SweptNothing == \A p \in Price : Swept(<<>>)[p] = 0
BY SumOverEmpty DEF Swept

LEMMA SweptMore ==
  ASSUME NEW batch \in Seq(Trade), NEW t \in Trade, t.price \in Price
  PROVE  /\ Append(batch, t) \in Seq(Trade)
         /\ \A p \in Price : Swept(Append(batch, t))[p]
                               = Swept(batch)[p] + (IF t.price = p THEN t.qty ELSE 0)
         /\ SumFunctionOnSet(Swept(Append(batch, t)), Price)
              = SumFunctionOnSet(Swept(batch), Price) + t.qty
<1> DEFINE q == Append(batch, t)
           old == Swept(batch)
           new == Swept(q)
<1>1. q \in Seq(Trade)
  BY AppendProperties
<1>2. \A p \in Price : new[p] = old[p] + (IF t.price = p THEN t.qty ELSE 0)
  <2>1. ASSUME NEW p \in Price PROVE new[p] = old[p] + (IF t.price = p THEN t.qty ELSE 0)
    <3>1. \A x \in Trade : QtyAt(p)[x] \in Int
      BY QtyAtType
    <3>2. SumOver(QtyAt(p), Append(batch, t)) = SumOver(QtyAt(p), batch) + QtyAt(p)[t]
      BY <3>1, SumOverAppend
    <3>3. QtyAt(p)[t] = IF t.price = p THEN t.qty ELSE 0
      BY QtyAtType
    <3> QED
      BY <3>2, <3>3 DEF Swept
  <2> QED
    BY <2>1
<1>3. old \in [Price -> Nat] /\ new \in [Price -> Nat]
  BY <1>1, SweptType
<1> DEFINE a == t.price
<1>4. a \in Price /\ t.qty \in Nat
  BY DEF Trade
<1> HIDE DEF old, new, q
<1>5. new[a] = old[a] + t.qty /\ \A x \in Price \ {a} : new[x] = old[x]
  BY <1>2, <1>3, <1>4 DEF a
<1> HIDE DEF a
<1>6. /\ \A x \in Price : old[x] \in Int
      /\ \A x \in Price : new[x] \in Int
  BY <1>3
<1>7. SumFunctionOnSet(new, Price) = SumFunctionOnSet(old, Price) + (new[a] - old[a])
  BY <1>4, <1>5, <1>6, FinitePrices, SumUpdate
<1>8. new[a] - old[a] = t.qty
  BY <1>3, <1>4, <1>5
<1> QED
  BY <1>1, <1>2, <1>7, <1>8 DEF old, new, q

\* A sweep has traded what its order no longer asks for, at prices that order
\* accepts, and nothing is left at any better price.
SweepInv ==
  /\ pc \in {"idle", "cancel"} => trades = <<>>
  /\ pc = "match" =>
       /\ incoming \in Request /\ incoming.qty > 0
       /\ SumFunctionOnSet(Swept(trades), Price) + taker.qty = incoming.qty
       /\ \A p \in Price : Swept(trades)[p] > 0 =>
            /\ Crosses(incoming, p)
            /\ \A r \in DOMAIN levels[Opposite(taker.side)] : ~Better(Opposite(taker.side), r, p)

LEMMA SameSweep ==
  ASSUME SweepInv, UNCHANGED trades, pc \in {"idle", "cancel"}, pc' \in {"idle", "cancel"}
  PROVE  SweepInv'
BY DEF SweepInv

LEMMA AcceptSweep ==
  ASSUME SweepInv, NEW o \in Request, Accept(o)
  PROVE  SweepInv'
<1>1. /\ pc = "idle" /\ pc' = "match" /\ trades = <<>> /\ trades' = <<>>
      /\ incoming' = o /\ taker' = o /\ Preflight(o) = "Ok"
  BY DEF Accept, SweepInv
<1>2. o.qty \in Nat /\ o.qty > 0
  BY <1>1, RequestFacts DEF Order
<1>3. SumFunctionOnSet(Swept(trades'), Price) = 0
  BY <1>1, FinitePrices, SweptNothing, SumZero
<1>4. \A p \in Price : ~(Swept(trades')[p] > 0)
  BY <1>1, SweptNothing
<1> QED
  BY <1>1, <1>2, <1>3, <1>4 DEF SweepInv

LEMMA FillSweep ==
  ASSUME TypeInv, BookInv, SweepInv, Fill
  PROVE  SweepInv'
<1>1. PICK maker \in RestingOrders, qty \in Nat :
           /\ maker \in Order
           /\ maker.price \in Price /\ maker.price = Best(Opposite(taker.side))
           /\ taker \in Order /\ qty <= taker.qty
           /\ trades' = Append(trades,
                          [maker_id |-> maker.id, taker_id |-> taker.id,
                           maker_user_id |-> UserOf(maker.id), taker_user_id |-> taker.user_id,
                           price |-> maker.price, qty |-> qty])
           /\ taker' = [taker EXCEPT !.qty = @ - qty]
  BY FillOrders
<1> DEFINE t == [maker_id |-> maker.id, taker_id |-> taker.id,
                 maker_user_id |-> UserOf(maker.id), taker_user_id |-> taker.user_id,
                 price |-> maker.price, qty |-> qty]
           side == Opposite(taker.side)
           price == Best(side)
<1>2. /\ pc = "match" /\ pc' = "match" /\ incoming' = incoming /\ CanMatch
      /\ TypeOK /\ trades \in Seq(Trade) /\ taker = [incoming EXCEPT !.qty = taker.qty]
  BY DEF Fill, TypeInv, TypeOK, InFlightOK
<1>3. /\ side \in Side /\ price \in Price /\ price \in DOMAIN levels[side]
      /\ \A r \in DOMAIN levels[side] : ~Better(side, r, price)
      /\ Crosses(taker, price)
  BY <1>2, FillFacts
<1>4. t \in Trade /\ trades' = Append(trades, t) /\ t.price = price /\ t.qty = qty
  <2>1. maker.id \in OrderId /\ taker.id \in OrderId /\ taker.user_id \in User
    BY <1>1 DEF Order
  <2>2. UserOf(maker.id) \in User
    BY <1>2, <2>1, UserOfType
  <2> QED
    BY <1>1, <2>1, <2>2 DEF Trade
<1>5. DOMAIN levels'[side] \subseteq DOMAIN levels[side]
  <2> DEFINE queue == levels[side][price]
             maker0 == Head(queue)
             qty0 == FillQty(taker.qty, maker0.qty)
             q == AfterFill(queue, maker0.qty - qty0)
  <2>1. levels' = SetLevel(side, price, q)
    BY DEF Fill
  <2>2. q \in Seq(Order)
    BY <1>2, FillFacts
  <2>3. LevelsType(levels)
    BY <1>2 DEF TypeOK
  <2> HIDE DEF q, side, price
  <2> QED
    BY <1>3, <2>1, <2>2, <2>3, SetLevelDomain
<1>6. /\ \A p \in Price : Swept(trades')[p] = Swept(trades)[p] + (IF price = p THEN qty ELSE 0)
      /\ SumFunctionOnSet(Swept(trades'), Price)
           = SumFunctionOnSet(Swept(trades), Price) + qty
  <2> HIDE DEF t, price
  <2>1. t.price \in Price
    BY <1>3, <1>4
  <2> QED
    BY <1>2, <1>4, <2>1, SweptMore
<1>7. taker'.qty = taker.qty - qty /\ taker'.side = taker.side /\ taker.qty \in Nat
  BY <1>1 DEF Order
<1>8. Crosses(incoming, price)
  <2>1. taker.side = incoming.side /\ taker.type = incoming.type /\ taker.price = incoming.price
    <3>1. incoming \in Order
      BY <1>2 DEF TypeOK
    <3> QED
      BY <1>2, <3>1 DEF Order
  <2> QED
    BY <1>3, <2>1 DEF Crosses
<1>9. /\ incoming \in Request /\ incoming.qty > 0
      /\ SumFunctionOnSet(Swept(trades), Price) + taker.qty = incoming.qty
      /\ \A p \in Price : Swept(trades)[p] > 0 =>
            /\ Crosses(incoming, p)
            /\ \A r \in DOMAIN levels[side] : ~Better(side, r, p)
  BY <1>2 DEF SweepInv
<1> HIDE DEF t, side, price
<1>10. SumFunctionOnSet(Swept(trades'), Price) + taker'.qty = incoming'.qty
  <2> DEFINE s == SumFunctionOnSet(Swept(trades), Price)
  <2>1. s \in Nat
    BY <1>2, FinitePrices, SweptType, SumNat
  <2> HIDE DEF s
  <2>2. s + qty + (taker.qty - qty) = s + taker.qty
    BY <1>7, <2>1
  <2> QED
    BY <1>2, <1>6, <1>7, <1>9, <2>2 DEF s
<1>11. ASSUME NEW p \in Price, Swept(trades')[p] > 0
       PROVE  /\ Crosses(incoming, p)
              /\ \A r \in DOMAIN levels'[side] : ~Better(side, r, p)
  <2>1. CASE p = price
    BY <1>3, <1>5, <1>8, <2>1
  <2>2. CASE p # price
    <3>1. Swept(trades')[p] = Swept(trades)[p]
      <4>1. Swept(trades)[p] \in Nat
        BY <1>2, SweptType
      <4> QED
        BY <1>6, <2>2, <4>1
    <3> QED
      BY <1>5, <1>9, <1>11, <3>1
  <2> QED
    BY <2>1, <2>2
<1>12. Opposite(taker'.side) = side
  BY <1>7 DEF side
<1> QED
  BY <1>2, <1>9, <1>10, <1>11, <1>12 DEF SweepInv

LEMMA SweepStep == TypeInv /\ BookInv /\ SweepInv /\ [Next]_vars => SweepInv'
<1> SUFFICES ASSUME TypeInv, BookInv, SweepInv, [Next]_vars PROVE SweepInv'
  OBVIOUS
<1>1. ASSUME NEW o \in Request, Refuse(o) PROVE SweepInv'
  BY <1>1, SameSweep DEF Refuse
<1>2. ASSUME NEW o \in Request, Accept(o) PROVE SweepInv'
  BY <1>2, AcceptSweep
<1>3. CASE Fill
  BY <1>3, FillSweep
<1>4. CASE Rest
  BY <1>4, RestFacts DEF SweepInv
<1>5. CASE Settle \/ Complete
  BY <1>5 DEF Settle, Complete, Conclude, SweepInv
<1>6. ASSUME NEW id \in OrderId, CancelOpen(id) \/ CancelDangling(id) PROVE SweepInv'
  BY <1>6, SameSweep DEF CancelOpen, CancelDangling
<1>7. CASE CancelDone
  BY <1>7, SameSweep DEF CancelDone
<1>8. ASSUME UNCHANGED <<levels, pc, incoming, taker, trades>> PROVE SweepInv'
  BY <1>8 DEF SweepInv, Swept
<1>9. ASSUME NEW u \in User, Connect(u) PROVE SweepInv'
  BY <1>8, <1>9 DEF Connect, bookVars
<1>10. CASE UNCHANGED vars
  BY <1>8, <1>10 DEF vars, bookVars
<1> QED
  BY <1>1, <1>2, <1>3, <1>4, <1>5, <1>6, <1>7, <1>9, <1>10 DEF Next, CancelUnknown, Corrupted

-----------------------------------------------------------------------------
(* What rests at a price.                                                  *)

QtyOf == [o \in Order |-> o.qty]
Standing(orders, side, p) == {o \in orders : o.side = side /\ o.price = p}
StandingQty(orders, side, p) == SumFunctionOnSet(QtyOf, Standing(orders, side, p))

LEMMA QtyOfType == \A o \in Order : QtyOf[o] = o.qty /\ QtyOf[o] \in Nat /\ QtyOf[o] \in Int
BY DEF QtyOf, Order

LEMMA StandingType ==
  ASSUME NEW orders \in SUBSET Order, IsFiniteSet(orders), NEW side, NEW p
  PROVE  /\ Standing(orders, side, p) \in SUBSET Order
         /\ Standing(orders, side, p) \in SUBSET orders
         /\ IsFiniteSet(Standing(orders, side, p))
         /\ StandingQty(orders, side, p) \in Nat
<1> DEFINE S == Standing(orders, side, p)
<1>1. S \in SUBSET orders /\ S \in SUBSET Order
  BY DEF Standing
<1> HIDE DEF S
<1>2. IsFiniteSet(S)
  BY <1>1, FS_Subset
<1>3. \A o \in S : QtyOf[o] \in Nat
  BY <1>1, QtyOfType
<1>4. SumFunctionOnSet(QtyOf, S) \in Nat
  BY <1>2, <1>3, SumNat
<1> QED
  BY <1>1, <1>2, <1>4 DEF StandingQty, S

\* One order more, one order less.
LEMMA StandingInsert ==
  ASSUME NEW orders \in SUBSET Order, IsFiniteSet(orders), NEW a \in Order, a \notin orders,
         NEW side, NEW p
  PROVE  StandingQty(orders \cup {a}, side, p)
           = StandingQty(orders, side, p) + (IF a.side = side /\ a.price = p THEN a.qty ELSE 0)
<1> DEFINE S == Standing(orders, side, p)
<1>1. S \in SUBSET Order /\ IsFiniteSet(S) /\ a \notin S /\ StandingQty(orders, side, p) \in Nat
  <2>1. a \notin S
    BY DEF Standing
  <2> QED
    BY <2>1, StandingType
<1>2. CASE a.side = side /\ a.price = p
  <2>1. Standing(orders \cup {a}, side, p) = S \cup {a}
    BY <1>2 DEF Standing
  <2> HIDE DEF S
  <2>2. \A o \in S \cup {a} : QtyOf[o] \in Int
    BY <1>1, QtyOfType
  <2>3. SumFunctionOnSet(QtyOf, S \cup {a}) = QtyOf[a] + SumFunctionOnSet(QtyOf, S)
    BY <1>1, <2>2, SumInsert
  <2>4. QtyOf[a] = a.qty /\ a.qty \in Nat
    BY QtyOfType
  <2>5. StandingQty(orders, side, p) = SumFunctionOnSet(QtyOf, S)
    BY DEF StandingQty, S
  <2>6. StandingQty(orders \cup {a}, side, p) = SumFunctionOnSet(QtyOf, S \cup {a})
    BY <2>1 DEF StandingQty
  <2> QED
    BY <1>1, <1>2, <2>3, <2>4, <2>5, <2>6
<1>3. CASE ~(a.side = side /\ a.price = p)
  <2>1. Standing(orders \cup {a}, side, p) = S
    BY <1>3 DEF Standing
  <2>2. StandingQty(orders \cup {a}, side, p) = StandingQty(orders, side, p)
    BY <2>1 DEF StandingQty
  <2> QED
    BY <1>1, <1>3, <2>2
<1> QED
  BY <1>2, <1>3

LEMMA StandingRemove ==
  ASSUME NEW orders \in SUBSET Order, IsFiniteSet(orders), NEW a \in orders,
         NEW side, NEW p
  PROVE  StandingQty(orders, side, p)
           = StandingQty(orders \ {a}, side, p) + (IF a.side = side /\ a.price = p THEN a.qty ELSE 0)
<1> DEFINE rest == orders \ {a}
<1>1. /\ rest \in SUBSET Order /\ a \notin rest /\ rest \cup {a} = orders /\ a \in Order
      /\ IsFiniteSet(rest)
  BY FS_RemoveElement
<1> HIDE DEF rest
<1>2. StandingQty(rest \cup {a}, side, p)
        = StandingQty(rest, side, p) + (IF a.side = side /\ a.price = p THEN a.qty ELSE 0)
  BY <1>1, StandingInsert
<1> QED
  BY <1>1, <1>2 DEF rest

\* In a well-formed book the orders of a level are the ones that say so.
LEMMA LevelStands ==
  ASSUME NEW lv, NEW ix, LevelsType(lv), WellFormed(lv, ix), NEW side \in Side, NEW p \in Price
  PROVE  (IF p \in DOMAIN lv[side] THEN ToSet(lv[side][p]) ELSE {})
           = Standing(OrdersOf(lv), side, p)
<1> DEFINE L == IF p \in DOMAIN lv[side] THEN ToSet(lv[side][p]) ELSE {}
<1>1. ASSUME NEW o \in L PROVE o \in Standing(OrdersOf(lv), side, p)
  <2>1. p \in DOMAIN lv[side] /\ o \in ToSet(lv[side][p])
    BY <1>1
  <2>2. PICK i \in DOMAIN lv[side][p] : lv[side][p][i] = o
    BY <2>1 DEF ToSet
  <2>3. QueueOK(lv[side][p], side, p, ix)
    BY <2>1 DEF WellFormed
  <2>4. o.side = side /\ o.price = p
    BY <2>2, <2>3 DEF QueueOK
  <2>5. o \in OrdersOf(lv)
    BY <2>1, <2>2, InOrdersOf
  <2> QED
    BY <2>4, <2>5 DEF Standing
<1>2. ASSUME NEW o \in Standing(OrdersOf(lv), side, p) PROVE o \in L
  <2>1. o \in OrdersOf(lv) /\ o.side = side /\ o.price = p
    BY DEF Standing
  <2>2. PICK s \in Side : \E r \in DOMAIN lv[s] : \E i \in DOMAIN lv[s][r] : lv[s][r][i] = o
    BY <2>1, InOrdersOf
  <2>3. PICK r \in DOMAIN lv[s] : \E i \in DOMAIN lv[s][r] : lv[s][r][i] = o
    BY <2>2
  <2>4. QueueOK(lv[s][r], s, r, ix)
    BY DEF WellFormed
  <2>5. s = side /\ r = p
    BY <2>1, <2>3, <2>4 DEF QueueOK
  <2> QED
    BY <2>3, <2>5 DEF ToSet
<1> QED
  BY <1>1, <1>2

\* RestingQty in these words, of the book and the sweep of a moment.
DepthOf(orders, where, order, batch) ==
  [side \in Side |-> [p \in Price |->
     StandingQty(orders, side, p)
     + (IF where = "match" /\ side = Opposite(order.side) THEN Swept(batch)[p] ELSE 0)]]

LEMMA DepthIs ==
  (TypeInv /\ BookInv /\ ~ub) => Depth = DepthOf(RestingOrders, pc, taker, trades)
<1> SUFFICES ASSUME TypeInv, BookInv, ~ub
             PROVE  Depth = DepthOf(RestingOrders, pc, taker, trades)
  OBVIOUS
<1>1. LevelsType(levels) /\ WellFormed(levels, index) /\ trades \in Seq(Trade)
  BY DEF TypeInv, TypeOK, BookInv, BookConsistent
<1>2. RestingOrders \in SUBSET Order /\ IsFiniteSet(RestingOrders)
  BY <1>1, FiniteOrders, RestingOrdersOf
<1>3. ASSUME NEW side \in Side, NEW p \in Price
      PROVE  SumFunction([o \in OrdersAt(side, p) |-> o.qty]) = StandingQty(RestingOrders, side, p)
  <2> DEFINE S == Standing(RestingOrders, side, p)
             f == [o \in S |-> o.qty]
  <2>1. OrdersAt(side, p) = S
    BY <1>1, LevelStands, RestingOrdersOf DEF OrdersAt
  <2>2. S \in SUBSET Order /\ IsFiniteSet(S)
    BY <1>2, StandingType
  <2>3. \A o \in S : f[o] = QtyOf[o]
    BY <2>2, QtyOfType
  <2>4. DOMAIN f = S
    OBVIOUS
  <2>5. SumFunction([o \in OrdersAt(side, p) |-> o.qty]) = SumFunctionOnSet(f, S)
    BY <2>1 DEF SumFunction
  <2> HIDE DEF S, f
  <2>6. SumFunctionOnSet(f, S) = SumFunctionOnSet(QtyOf, S)
    BY <2>2, <2>3, SumAgrees
  <2> QED
    BY <2>5, <2>6 DEF StandingQty, S
<1>4. ASSUME NEW p \in Price
      PROVE  SumFunction([i \in DOMAIN trades |-> IF trades[i].price = p THEN trades[i].qty ELSE 0])
               = Swept(trades)[p]
  <2> DEFINE D == DOMAIN trades
             f == [i \in D |-> IF trades[i].price = p THEN trades[i].qty ELSE 0]
             g == [i \in D |-> QtyAt(p)[trades[i]]]
  <2>1. \A i \in D : trades[i] \in Trade
    BY <1>1, ElementOfSeq, LenProperties
  <2>2. f = g /\ DOMAIN f = D
    BY <2>1, QtyAtType
  <2>3. SumFunction(f) = SumFunctionOnSet(f, DOMAIN f)
    BY DEF SumFunction
  <2>4. Swept(trades)[p] = SumFunctionOnSet(g, D)
    BY DEF Swept, SumOver
  <2> HIDE DEF f, g
  <2>5. SumFunction(f) = Swept(trades)[p]
    BY <2>2, <2>3, <2>4
  <2> QED
    BY <2>5 DEF f
<1>5. \A side \in Side, p \in Price :
        RestingQty(side, p) = StandingQty(RestingOrders, side, p)
          + (IF pc = "match" /\ side = Opposite(taker.side) THEN Swept(trades)[p] ELSE 0)
  BY <1>3, <1>4 DEF RestingQty
<1> QED
  BY <1>5 DEF Depth, DepthOf

\* The same after a step.
LEMMA DepthIsNext ==
  (TypeInv' /\ BookInv' /\ ~ub') => Depth' = DepthOf(RestingOrders', pc', taker', trades')
<1>1. (TypeInv /\ BookInv /\ ~ub => Depth = DepthOf(RestingOrders, pc, taker, trades))'
  BY DepthIs, PTL
<1> QED
  BY <1>1

\* A price without a level has nothing.
LEMMA StandsInLevel ==
  ASSUME TypeInv, BookInv, ~ub, NEW side \in Side, NEW p \in Price,
         StandingQty(RestingOrders, side, p) > 0
  PROVE  p \in DOMAIN levels[side]
<1>1. LevelsType(levels) /\ WellFormed(levels, index)
  BY DEF TypeInv, TypeOK, BookInv, BookConsistent
<1>2. CASE p \notin DOMAIN levels[side]
  <2>1. Standing(RestingOrders, side, p) = {}
    BY <1>1, <1>2, LevelStands, RestingOrdersOf
  <2>2. StandingQty(RestingOrders, side, p) = 0
    BY <2>1, FS_EmptySet, SumUnfolds DEF StandingQty
  <2> QED
    BY <2>2
<1> QED
  BY <1>2

-----------------------------------------------------------------------------
(* The steps of the engine as steps of DepthBook.                          *)

LEMMA SameDepth ==
  ASSUME UNCHANGED <<levels, ub>>,
         UNCHANGED <<pc, taker, trades>> \/ (pc # "match" /\ pc' # "match")
  PROVE  UNCHANGED Abstract!depthVars
<1>1. Depth' = Depth
  <2>1. CASE UNCHANGED <<pc, taker, trades>>
    BY <2>1 DEF Depth, RestingQty, OrdersAt
  <2>2. CASE pc # "match" /\ pc' # "match"
    BY <2>2 DEF Depth, RestingQty, OrdersAt
  <2> QED
    BY <2>1, <2>2
<1> QED
  BY <1>1 DEF Abstract!depthVars

\* An order that enters the loop has taken nothing yet.
LEMMA AcceptDepth ==
  ASSUME TypeInv, BookInv, SweepInv, TypeInv', BookInv', NEW o \in Request, Accept(o)
  PROVE  UNCHANGED Abstract!depthVars
<1>1. /\ pc = "idle" /\ pc' = "match" /\ trades = <<>> /\ trades' = <<>> /\ ~ub /\ ub' = ub
      /\ taker' = o /\ levels' = levels
  BY DEF Accept, SweepInv, bookVars
<1>2. RestingOrders' = RestingOrders /\ LevelsType(levels)
  BY <1>1, RestingOrdersOf DEF TypeInv, TypeOK
<1>3. RestingOrders \in SUBSET Order /\ IsFiniteSet(RestingOrders)
  BY <1>2, FiniteOrders, RestingOrdersOf
<1>4. \A side \in Side, p \in Price :
        Swept(<<>>)[p] = 0 /\ StandingQty(RestingOrders, side, p) \in Nat
  BY <1>3, StandingType, SweptNothing
<1>5. DepthOf(RestingOrders, "idle", taker, <<>>) = DepthOf(RestingOrders, "match", o, <<>>)
  BY <1>4 DEF DepthOf
<1>6. Depth = DepthOf(RestingOrders, "idle", taker, <<>>)
  BY <1>1, DepthIs
<1>7. Depth' = DepthOf(RestingOrders, "match", o, <<>>)
  BY <1>1, <1>2, DepthIsNext
<1> QED
  BY <1>1, <1>5, <1>6, <1>7 DEF Abstract!depthVars

\* What a fill takes from the book, the sweep has taken.
LEMMA FillDepth ==
  ASSUME TypeInv, BookInv, TypeInv', BookInv', Fill
  PROVE  UNCHANGED Abstract!depthVars
<1>1. PICK maker \in RestingOrders, qty \in Nat :
           /\ maker \in Order /\ maker.side = Opposite(taker.side) /\ maker.price \in Price
           /\ taker \in Order /\ qty <= maker.qty
           /\ trades' = Append(trades,
                          [maker_id |-> maker.id, taker_id |-> taker.id,
                           maker_user_id |-> UserOf(maker.id), taker_user_id |-> taker.user_id,
                           price |-> maker.price, qty |-> qty])
           /\ taker' = [taker EXCEPT !.qty = @ - qty]
           /\ RestingOrders' = (RestingOrders \ {maker})
                \cup (IF maker.qty - qty = 0 THEN {}
                                             ELSE {[maker EXCEPT !.qty = maker.qty - qty]})
  BY FillOrders
<1> DEFINE t == [maker_id |-> maker.id, taker_id |-> taker.id,
                 maker_user_id |-> UserOf(maker.id), taker_user_id |-> taker.user_id,
                 price |-> maker.price, qty |-> qty]
           left == maker.qty - qty
           less == [maker EXCEPT !.qty = left]
           rest == RestingOrders \ {maker}
<1>2. /\ pc = "match" /\ pc' = "match" /\ ~ub /\ ub' = ub
      /\ TypeOK /\ trades \in Seq(Trade)
      /\ LevelsType(levels) /\ WellFormed(levels, index)
  BY DEF Fill, TypeInv, TypeOK, InFlightOK, BookInv, BookConsistent
<1>3. t \in Trade /\ trades' = Append(trades, t) /\ t.price = maker.price /\ t.qty = qty
  <2>1. maker.id \in OrderId /\ taker.id \in OrderId /\ taker.user_id \in User
    BY <1>1 DEF Order
  <2>2. UserOf(maker.id) \in User
    BY <1>2, <2>1, UserOfType
  <2> QED
    BY <1>1, <2>1, <2>2 DEF Trade
<1>4. RestingOrders \in SUBSET Order /\ IsFiniteSet(RestingOrders)
  BY <1>2, FiniteOrders, RestingOrdersOf
<1>5. rest \in SUBSET Order /\ IsFiniteSet(rest)
  BY <1>4, FS_RemoveElement
<1>6. left \in Nat /\ less \in Order /\ less.side = maker.side /\ less.price = maker.price
      /\ less.qty = left /\ less.id = maker.id /\ maker.qty = qty + left
  <2>1. left \in Nat /\ maker.qty = qty + left
    BY <1>1 DEF Order
  <2> HIDE DEF left
  <2> QED
    BY <1>1, <2>1, OrderQty DEF Order
<1>7. less \notin rest
  <2>1. ASSUME less \in rest PROVE FALSE
    <3>1. less \in OrdersOf(levels) /\ maker \in OrdersOf(levels) /\ less # maker
      BY <2>1, <1>1, RestingOrdersOf
    <3> QED
      BY <1>2, <1>6, <3>1, OneOrderPerId
  <2> QED
    BY <2>1
<1>8. RestingOrders' = rest \cup (IF left = 0 THEN {} ELSE {less})
  BY <1>1
<1>9. \A p \in Price : Swept(trades')[p] = Swept(trades)[p] + (IF maker.price = p THEN qty ELSE 0)
  <2> HIDE DEF t
  <2> QED
    BY <1>1, <1>2, <1>3, SweptMore
<1>10. taker'.side = taker.side
  BY <1>1 DEF Order
<1> HIDE DEF t, left, less, rest
<1>11. ASSUME NEW side \in Side, NEW p \in Price
       PROVE  StandingQty(RestingOrders', side, p)
                + (IF maker.side = side /\ maker.price = p THEN qty ELSE 0)
                = StandingQty(RestingOrders, side, p)
  <2> DEFINE v == StandingQty(rest, side, p)
  <2>1. v \in Nat
    BY <1>5, StandingType
  <2>2. StandingQty(RestingOrders, side, p)
          = v + (IF maker.side = side /\ maker.price = p THEN maker.qty ELSE 0)
    BY <1>1, <1>4, StandingRemove DEF rest
  <2>3. CASE left = 0
    <3>1. RestingOrders' = rest
      BY <1>8, <2>3
    <3> HIDE DEF v
    <3>2. StandingQty(RestingOrders', side, p) = v
      BY <3>1 DEF v
    <3> QED
      BY <1>6, <2>1, <2>2, <2>3, <3>2
  <2>4. CASE left # 0
    <3>1. RestingOrders' = rest \cup {less}
      BY <1>8, <2>4
    <3>2. StandingQty(rest \cup {less}, side, p)
            = v + (IF less.side = side /\ less.price = p THEN less.qty ELSE 0)
      BY <1>5, <1>6, <1>7, StandingInsert
    <3> HIDE DEF v
    <3>3. StandingQty(RestingOrders', side, p)
            = v + (IF maker.side = side /\ maker.price = p THEN left ELSE 0)
      BY <1>6, <3>1, <3>2
    <3> QED
      BY <1>6, <2>1, <2>2, <3>3
  <2> QED
    BY <2>3, <2>4
<1>12. ASSUME NEW side \in Side, NEW p \in Price
       PROVE  StandingQty(RestingOrders', side, p)
                + (IF side = Opposite(taker.side) THEN Swept(trades')[p] ELSE 0)
              = StandingQty(RestingOrders, side, p)
                + (IF side = Opposite(taker.side) THEN Swept(trades)[p] ELSE 0)
  <2> DEFINE new == StandingQty(RestingOrders', side, p)
             old == StandingQty(RestingOrders, side, p)
             s == Swept(trades)[p]
  <2>1. RestingOrders' \in SUBSET Order /\ IsFiniteSet(RestingOrders')
    <3>1. LevelsType(levels')
      BY DEF TypeInv, TypeOK
    <3> QED
      BY <3>1, FiniteOrders, RestingOrdersOf
  <2>2. new \in Nat /\ old \in Nat /\ s \in Nat
    BY <1>2, <1>4, <2>1, StandingType, SweptType
  <2>3. new + (IF maker.side = side /\ maker.price = p THEN qty ELSE 0) = old
    BY <1>11
  <2>4. Swept(trades')[p] = s + (IF maker.price = p THEN qty ELSE 0)
    BY <1>9
  <2> HIDE DEF new, old, s
  <2>5. new + (IF side = Opposite(taker.side) THEN Swept(trades')[p] ELSE 0)
          = old + (IF side = Opposite(taker.side) THEN s ELSE 0)
    <3>1. CASE side = maker.side /\ p = maker.price
      BY <1>1, <2>2, <2>3, <2>4, <3>1
    <3>2. CASE ~(side = maker.side /\ p = maker.price)
      BY <1>1, <2>2, <2>3, <2>4, <3>2
    <3> QED
      BY <3>1, <3>2
  <2> QED
    BY <2>5 DEF new, old, s
<1>13. Depth = DepthOf(RestingOrders, "match", taker, trades)
  BY <1>2, DepthIs
<1>14. Depth' = DepthOf(RestingOrders', "match", taker', trades')
  BY <1>2, DepthIsNext
<1>15. DepthOf(RestingOrders', "match", taker', trades')
         = DepthOf(RestingOrders, "match", taker, trades)
  BY <1>10, <1>12 DEF DepthOf
<1> QED
  BY <1>2, <1>13, <1>14, <1>15 DEF Abstract!depthVars

\* What is in the book when the loop has ended, and what the sweep has taken.
LEMMA SweepDone ==
  ASSUME TypeInv, BookInv, SweepInv, pc = "match", ~CanMatch
  PROVE  LET opp == Opposite(taker.side)
         IN  /\ opp \in Side /\ taker.qty \in Nat /\ incoming.qty \in Nat
             /\ Swept(trades) \in [Price -> Nat]
             /\ SumFunctionOnSet(Swept(trades), Price) + taker.qty = incoming.qty
             /\ RestingOrders \in SUBSET Order /\ IsFiniteSet(RestingOrders)
             /\ \A p \in Price : Swept(trades)[p] > 0 => Crosses(incoming, p)
             /\ \A p, q \in Price :
                  StandingQty(RestingOrders, opp, q) > 0 /\ Swept(trades)[p] > 0
                    => ~Better(opp, q, p)
             /\ \A p \in Price :
                  StandingQty(RestingOrders, opp, p) > 0 /\ Crosses(incoming, p) => taker.qty = 0
<1> DEFINE opp == Opposite(taker.side)
<1>1. /\ TypeOK /\ ~ub /\ LevelsType(levels) /\ WellFormed(levels, index)
      /\ taker \in Order /\ incoming \in Order /\ trades \in Seq(Trade)
      /\ taker = [incoming EXCEPT !.qty = taker.qty]
  BY DEF TypeInv, TypeOK, InFlightOK, BookInv, BookConsistent
<1>2. opp \in Side /\ taker.qty \in Nat /\ incoming.qty \in Nat
  BY <1>1, OppositeSide DEF Order
<1>3. /\ SumFunctionOnSet(Swept(trades), Price) + taker.qty = incoming.qty
      /\ \A p \in Price : Swept(trades)[p] > 0 => Crosses(incoming, p)
      /\ \A p \in Price : Swept(trades)[p] > 0 => \A r \in DOMAIN levels[opp] : ~Better(opp, r, p)
  BY DEF SweepInv
<1>4. RestingOrders \in SUBSET Order /\ IsFiniteSet(RestingOrders)
  BY <1>1, FiniteOrders, RestingOrdersOf
<1>5. \A p \in Price : StandingQty(RestingOrders, opp, p) > 0 => p \in DOMAIN levels[opp]
  BY <1>1, <1>2, StandsInLevel
<1>6. ASSUME NEW p \in Price, p \in DOMAIN levels[opp], Crosses(incoming, p)
      PROVE  taker.qty = 0
  <2>1. DOMAIN levels[opp] \subseteq Price /\ HasBest(opp)
    BY <1>1, <1>2, <1>6 DEF LevelsType, HasBest
  <2>2. Best(opp) \in DOMAIN levels[opp] /\ ~Better(opp, p, Best(opp))
    BY <1>2, <1>6, <2>1, BestIsBest
  <2>3. levels[opp][Best(opp)] # <<>>
    BY <1>1, <1>2, <2>2 DEF WellFormed
  <2>4. taker.side = incoming.side /\ taker.type = incoming.type /\ taker.price = incoming.price
    BY <1>1 DEF Order
  <2>5. Best(opp) \in Int /\ p \in Int /\ taker.price \in Int /\ taker.side \in Side
        /\ taker.type \in OrderType
    BY <1>1, <2>1, <2>2, BookAssumption DEF Price, Order
  <2>6. Crosses(taker, p)
    BY <1>6, <2>4 DEF Crosses
  <2> DEFINE b == Best(opp)
  <2>7. ~Better(opp, p, b) /\ b \in Int
    BY <2>2, <2>5
  <2> HIDE DEF b
  <2>8. Crosses(taker, b)
    <3>1. CASE taker.side = "Buy"
      <4>1. ~(p < b)
        BY <2>7, <3>1 DEF Better, Opposite
      <4> QED
        BY <2>5, <2>6, <2>7, <3>1, <4>1 DEF Crosses
    <3>2. CASE taker.side = "Sell"
      <4>1. ~(p > b)
        BY <2>7, <3>2 DEF Better, Opposite
      <4> QED
        BY <2>5, <2>6, <2>7, <3>2, <4>1 DEF Crosses
    <3> QED
      BY <2>5, <3>1, <3>2 DEF Side
  <2>9. ~(taker.qty > 0)
    BY <2>1, <2>3, <2>8 DEF CanMatch, b
  <2> QED
    BY <1>2, <2>9
<1>7. Swept(trades) \in [Price -> Nat]
  BY <1>1, SweptType
<1> HIDE DEF opp
<1>8. \A p, q \in Price :
        StandingQty(RestingOrders, opp, q) > 0 /\ Swept(trades)[p] > 0 => ~Better(opp, q, p)
  BY <1>3, <1>5
<1>9. \A p \in Price :
        StandingQty(RestingOrders, opp, p) > 0 /\ Crosses(incoming, p) => taker.qty = 0
  BY <1>5, <1>6
<1> QED
  BY <1>2, <1>3, <1>4, <1>7, <1>8, <1>9 DEF opp

\* The sweep of an order of Q that has rem left: R still rests, T was taken, and
\* there was d.
Sweeping(R, T, d, Q, rem) ==
  /\ R \in [Price -> Nat] /\ T \in [Price -> Nat] /\ d \in [Price -> Nat]
  /\ Q \in Nat /\ rem \in Nat
  /\ SumFunctionOnSet(T, Price) + rem = Q
  /\ \A q \in Price : d[q] = R[q] + T[q]

\* What a sweep has taken at price p is what DepthBook lets the order take there,
\* where B are the better prices.
LEMMA TakenIs ==
  ASSUME NEW R, NEW T, NEW d, NEW Q, NEW rem, Sweeping(R, T, d, Q, rem),
         NEW p \in Price, NEW B \in SUBSET Price, p \notin B,
         T[p] > 0 => \A q \in B : R[q] = 0,
         R[p] > 0 => rem = 0 /\ \A q \in Price \ (B \cup {p}) : T[q] = 0
  PROVE  (IF Q > SumFunctionOnSet(d, B)
          THEN (IF d[p] < Q - SumFunctionOnSet(d, B) THEN d[p] ELSE Q - SumFunctionOnSet(d, B))
          ELSE 0) = T[p]
<1> DEFINE all == SumFunctionOnSet(T, Price)
           ahead == SumFunctionOnSet(d, B)
           part == SumFunctionOnSet(T, B)
           C == B \cup {p}
<1>1. IsFiniteSet(Price) /\ IsFiniteSet(B) /\ IsFiniteSet(C) /\ C \in SUBSET Price
  <2>1. IsFiniteSet(Price)
    BY BookAssumption, FS_Interval DEF Price
  <2> QED
    BY <2>1, FS_Subset
<1>2. /\ \A q \in Price : /\ T[q] \in Nat /\ R[q] \in Nat /\ d[q] \in Nat /\ T[q] \in Int
                          /\ d[q] = R[q] + T[q]
      /\ T[p] \in Nat /\ R[p] \in Nat /\ d[p] = R[p] + T[p]
      /\ Q \in Nat /\ rem \in Nat /\ SumFunctionOnSet(T, Price) + rem = Q
  BY DEF Sweeping
<1>3. part \in Nat /\ ahead \in Nat /\ all \in Nat
  BY <1>1, <1>2, SumNat
<1>4. SumFunctionOnSet(T, C) = T[p] + part
  <2>1. \A x \in B \cup {p} : T[x] \in Int
    BY <1>2
  <2> QED
    BY <1>1, <2>1, SumInsert
<1>5. T[p] + part <= all
  <2>1. /\ \A x \in C : T[x] \in Nat
        /\ \A x \in C : T[x] <= T[x]
    BY <1>2
  <2>2. SumFunctionOnSet(T, C) <= SumFunctionOnSet(T, Price)
    BY <1>1, <1>2, <2>1, SumBelow
  <2> QED
    BY <1>4, <2>2
<1>6. T[p] > 0 => ahead = part
  <2>1. ASSUME T[p] > 0 PROVE \A q \in B : d[q] = T[q]
    BY <1>2, <2>1
  <2> QED
    BY <1>1, <2>1, SumAgrees
<1>7. R[p] > 0 => T[p] + part = all /\ rem = 0
  <2>1. ASSUME R[p] > 0 PROVE SumFunctionOnSet(T, C) = SumFunctionOnSet(T, Price)
    <3>1. \A q \in Price \ C : T[q] = 0
      BY <2>1
    <3> QED
      BY <1>1, <1>2, <3>1, SumOutside
  <2> QED
    BY <1>4, <2>1
<1>8. part <= ahead
  <2>1. /\ \A x \in B : T[x] \in Nat
        /\ \A x \in B : d[x] \in Nat
        /\ \A x \in B : T[x] <= d[x]
    BY <1>2
  <2> QED
    BY <1>1, <2>1, SumBelow
<1>9. all + rem = Q
  BY <1>2
<1> DEFINE t == T[p]
           r == R[p]
           dp == d[p]
<1>10. t \in Nat /\ r \in Nat /\ dp = r + t /\ Q \in Nat /\ rem \in Nat
  BY <1>2
<1> HIDE DEF all, ahead, part, C, t, r, dp
<1>11. CASE t > 0
  <2>1. ahead = part /\ t + part <= all
    BY <1>5, <1>6, <1>11 DEF t
  <2>2. r > 0 => t + part = all /\ rem = 0
    BY <1>7 DEF t, r
  <2>3. (IF Q > ahead THEN (IF dp < Q - ahead THEN dp ELSE Q - ahead) ELSE 0) = t
    BY <1>3, <1>9, <1>10, <1>11, <2>1, <2>2
  <2> QED
    BY <2>3 DEF t, dp, ahead
<1>12. CASE t = 0
  <2>1. part <= ahead
    BY <1>8
  <2>2. r > 0 => part = all /\ rem = 0
    BY <1>3, <1>7, <1>12 DEF t, r
  <2>3. (IF Q > ahead THEN (IF dp < Q - ahead THEN dp ELSE Q - ahead) ELSE 0) = t
    BY <1>3, <1>9, <1>10, <1>12, <2>1, <2>2
  <2> QED
    BY <2>3 DEF t, dp, ahead
<1> QED
  BY <1>10, <1>11, <1>12

\* Rest in these words, for an order of Q that meets d at the prices E.
NotFound(Q, d, E) == IF Q > SumFunctionOnSet(d, E) THEN Q - SumFunctionOnSet(d, E) ELSE 0

\* And what it did not find is what it has left.
LEMMA RestIs ==
  ASSUME NEW R, NEW T, NEW d, NEW Q, NEW rem, Sweeping(R, T, d, Q, rem),
         NEW E \in SUBSET Price,
         rem > 0 => \A q \in E : R[q] = 0,
         \A q \in Price \ E : T[q] = 0
  PROVE  NotFound(Q, d, E) = rem
<1> DEFINE all == SumFunctionOnSet(T, Price)
           found == SumFunctionOnSet(d, E)
           part == SumFunctionOnSet(T, E)
<1>1. IsFiniteSet(Price) /\ IsFiniteSet(E)
  <2>1. IsFiniteSet(Price)
    BY BookAssumption, FS_Interval DEF Price
  <2> QED
    BY <2>1, FS_Subset
<1>2. /\ \A q \in Price : /\ T[q] \in Nat /\ R[q] \in Nat /\ d[q] \in Nat /\ T[q] \in Int
                          /\ d[q] = R[q] + T[q]
      /\ Q \in Nat /\ rem \in Nat /\ SumFunctionOnSet(T, Price) + rem = Q
  BY DEF Sweeping
<1>3. part \in Nat /\ found \in Nat /\ all \in Nat
  BY <1>1, <1>2, SumNat
<1>4. part = all
  BY <1>1, <1>2, SumOutside
<1>5. part <= found
  <2>1. /\ \A x \in E : T[x] \in Nat
        /\ \A x \in E : d[x] \in Nat
        /\ \A x \in E : T[x] <= d[x]
    BY <1>2
  <2> QED
    BY <1>1, <2>1, SumBelow
<1>6. rem > 0 => found = part
  <2>1. ASSUME rem > 0 PROVE \A q \in E : d[q] = T[q]
    BY <1>2, <2>1
  <2> QED
    BY <1>1, <2>1, SumAgrees
<1>7. all + rem = Q
  BY <1>2
<1> HIDE DEF all, found, part
<1>8. (IF Q > found THEN Q - found ELSE 0) = rem
  BY <1>2, <1>3, <1>4, <1>5, <1>6, <1>7
<1> QED
  BY <1>8 DEF found, NotFound

\* The order as DepthBook knows it.
AsSubmitted(o) == /\ o.side = incoming.side /\ o.type = incoming.type
                 /\ o.price = incoming.price /\ o.qty = incoming.qty

LEMMA AbstractVolume ==
  ASSUME NEW f, NEW S
  PROVE  Abstract!Volume(f, S) = SumFunctionOnSet(f, S)
<1>1. Abstract!SumFunctionOnSet(f, S) = Partial(f, S)
  BY DEF Abstract!SumFunctionOnSet, Abstract!FoldFunctionOnSet, Abstract!MapThenFoldSet,
         IsSumOf, First, Partial
<1> QED
  BY <1>1, SumIsPartial DEF Abstract!Volume

\* Its words for the loop conditions.
LEMMA AbstractPrices ==
  ASSUME pc = "match", TypeInv, NEW o, AsSubmitted(o)
  PROVE  LET opp == Opposite(taker.side)
         IN  /\ Abstract!Other(o.side) = opp
             /\ Abstract!Eligible(o) \in SUBSET Price
             /\ \A p \in Price : p \in Abstract!Eligible(o) <=> Crosses(incoming, p)
             /\ \A p \in Price : /\ Abstract!Before(o, p) \in SUBSET Abstract!Eligible(o)
                                 /\ p \notin Abstract!Before(o, p)
             /\ \A p, q \in Price : q \in Abstract!Before(o, p) <=>
                                      Crosses(incoming, q) /\ Better(opp, q, p)
<1>1. /\ taker.side = incoming.side /\ incoming.side \in {"Buy", "Sell"}
      /\ incoming.type \in {"Limit", "Market"}
  <2>1. taker = [incoming EXCEPT !.qty = taker.qty] /\ incoming \in Order
    BY DEF TypeInv, TypeOK, InFlightOK
  <2> QED
    BY <2>1 DEF Order, Side, OrderType
<1>2. Abstract!Other(o.side) = Opposite(taker.side)
  BY <1>1 DEF AsSubmitted, Abstract!Other, Opposite
<1>3. \A p \in Price : p \in Int
  BY BookAssumption DEF Price
<1>4. Abstract!Prices = Price
  BY DEF Abstract!Prices, Price
<1>5. \A p \in Price : p \in Abstract!Eligible(o) <=> Crosses(incoming, p)
  BY <1>1, <1>4 DEF Abstract!Eligible, Crosses, AsSubmitted
<1>6. Abstract!Eligible(o) \in SUBSET Price
  BY <1>4 DEF Abstract!Eligible
<1>7. \A p, q \in Price : q \in Abstract!Before(o, p) <=>
                            Crosses(incoming, q) /\ Better(Opposite(taker.side), q, p)
  BY <1>1, <1>5, <1>6 DEF Abstract!Before, Better, Opposite, AsSubmitted
<1>8. \A p \in Price : /\ Abstract!Before(o, p) \in SUBSET Abstract!Eligible(o)
                       /\ p \notin Abstract!Before(o, p)
  BY <1>1, <1>3 DEF Abstract!Before, AsSubmitted
<1> QED
  BY <1>2, <1>5, <1>6, <1>7, <1>8

\* DepthBook lets an order take what its sweep has taken, and find no more.
LEMMA SweepTakes ==
  ASSUME TypeInv, BookInv, SweepInv, pc = "match", ~CanMatch, NEW o, AsSubmitted(o)
  PROVE  /\ \A p \in Price : Abstract!Taken(Depth, o, p) = Swept(trades)[p]
         /\ Abstract!Rest(Depth, o) = taker.qty
         /\ \A p \in Price : Depth[Opposite(taker.side)][p]
              = StandingQty(RestingOrders, Opposite(taker.side), p) + Swept(trades)[p]
<1> DEFINE opp == Opposite(taker.side)
           T == Swept(trades)
           R == [p \in Price |-> StandingQty(RestingOrders, opp, p)]
           d == Depth[opp]
           Q == incoming.qty
           rem == taker.qty
           E == Abstract!Eligible(o)
           B(p) == Abstract!Before(o, p)
<1>1. /\ opp \in Side /\ rem \in Nat /\ Q \in Nat /\ T \in [Price -> Nat]
      /\ SumFunctionOnSet(T, Price) + rem = Q
      /\ RestingOrders \in SUBSET Order /\ IsFiniteSet(RestingOrders)
      /\ \A p \in Price : T[p] > 0 => Crosses(incoming, p)
  BY SweepDone
<1>2. /\ \A p, q \in Price : R[q] > 0 /\ T[p] > 0 => ~Better(opp, q, p)
      /\ \A p \in Price : R[p] > 0 /\ Crosses(incoming, p) => rem = 0
  BY SweepDone
<1>3. R \in [Price -> Nat]
  BY <1>1, StandingType
<1>4. ~ub
  BY DEF TypeInv, InFlightOK
<1>5. d = [p \in Price |-> R[p] + T[p]]
  <2>1. Depth = DepthOf(RestingOrders, "match", taker, trades)
    BY <1>4, DepthIs
  <2> QED
    BY <1>1, <2>1 DEF DepthOf
<1>6. /\ Abstract!Other(o.side) = opp /\ E \in SUBSET Price
      /\ \A p \in Price : p \in E <=> Crosses(incoming, p)
      /\ \A p \in Price : B(p) \in SUBSET E /\ p \notin B(p)
      /\ \A p, q \in Price : q \in B(p) <=> Crosses(incoming, q) /\ Better(opp, q, p)
  BY AbstractPrices
<1>7. o.qty = Q
  BY DEF AsSubmitted
<1> HIDE DEF opp, T, R, d, Q, rem, E, B
<1>8. d \in [Price -> Nat] /\ \A q \in Price : d[q] = R[q] + T[q]
  BY <1>1, <1>3, <1>5
<1>9. ASSUME NEW p \in Price PROVE Abstract!Taken(Depth, o, p) = T[p]
  <2>1. Abstract!Taken(Depth, o, p)
          = IF p \in E /\ Q > SumFunctionOnSet(d, B(p))
            THEN (IF d[p] < Q - SumFunctionOnSet(d, B(p)) THEN d[p]
                                                          ELSE Q - SumFunctionOnSet(d, B(p)))
            ELSE 0
    <3>1. Abstract!Volume(d, B(p)) = SumFunctionOnSet(d, B(p))
      BY AbstractVolume
    <3> QED
      BY <1>6, <1>7, <3>1 DEF Abstract!Taken, Abstract!Least, d, E, B
  <2>2. CASE p \notin E
    <3>1. ~(T[p] > 0) /\ T[p] \in Nat
      BY <1>1, <1>6, <2>2
    <3> QED
      BY <2>1, <2>2, <3>1
  <2>3. CASE p \in E
    <3>1. B(p) \in SUBSET Price /\ p \notin B(p)
      BY <1>6
    <3>2. ASSUME T[p] > 0, NEW q \in B(p) PROVE R[q] = 0
      <4>1. q \in Price /\ Better(opp, q, p)
        BY <1>6, <3>1, <3>2
      <4>2. ~(R[q] > 0) /\ R[q] \in Nat
        BY <1>2, <1>3, <3>2, <4>1
      <4> QED
        BY <4>2
    <3>3. ASSUME R[p] > 0, NEW q \in Price \ (B(p) \cup {p}) PROVE T[q] = 0
      <4>1. ASSUME T[q] > 0 PROVE FALSE
        <5>1. Crosses(incoming, q) /\ ~Better(opp, p, q)
          BY <1>1, <1>2, <3>3, <4>1
        <5>2. ~Better(opp, q, p)
          BY <1>6, <3>3, <5>1
        <5>3. q # p /\ p \in Int /\ q \in Int
          BY <3>3, BookAssumption DEF Price
        <5> QED
          BY <1>1, <5>1, <5>2, <5>3 DEF Better
      <4>2. T[q] \in Nat
        BY <1>1
      <4> QED
        BY <4>1, <4>2
    <3>4. R[p] > 0 => rem = 0
      BY <1>2, <1>6, <2>3
    <3>5. /\ T[p] > 0 => \A q \in B(p) : R[q] = 0
          /\ R[p] > 0 => rem = 0 /\ \A q \in Price \ (B(p) \cup {p}) : T[q] = 0
      BY <3>2, <3>3, <3>4
    <3> DEFINE C == B(p)
    <3> HIDE DEF C
    <3>6. /\ C \in SUBSET Price /\ p \notin C
          /\ T[p] > 0 => \A q \in C : R[q] = 0
          /\ R[p] > 0 => rem = 0 /\ \A q \in Price \ (C \cup {p}) : T[q] = 0
      BY <3>1, <3>5 DEF C
    <3>7. Sweeping(R, T, d, Q, rem)
      BY <1>1, <1>3, <1>8 DEF Sweeping
    <3>8. (IF Q > SumFunctionOnSet(d, C)
           THEN (IF d[p] < Q - SumFunctionOnSet(d, C) THEN d[p] ELSE Q - SumFunctionOnSet(d, C))
           ELSE 0) = T[p]
      BY <3>6, <3>7, TakenIs
    <3> QED
      BY <2>1, <2>3, <3>8 DEF C
  <2> QED
    BY <2>2, <2>3
<1>10. Abstract!Rest(Depth, o) = rem
  <2>1. Abstract!Rest(Depth, o) = NotFound(Q, d, E)
    <3>1. Abstract!Volume(d, E) = SumFunctionOnSet(d, E)
      BY AbstractVolume
    <3> QED
      BY <1>6, <1>7, <3>1 DEF Abstract!Rest, NotFound, d, E
  <2>2. ASSUME rem > 0, NEW q \in E PROVE R[q] = 0
    <3>1. q \in Price /\ Crosses(incoming, q)
      BY <1>6, <2>2
    <3>2. ~(R[q] > 0) /\ R[q] \in Nat
      BY <1>2, <1>3, <2>2, <3>1
    <3> QED
      BY <3>2
  <2>3. ASSUME NEW q \in Price \ E PROVE T[q] = 0
    <3>1. ~(T[q] > 0) /\ T[q] \in Nat
      BY <1>1, <1>6, <2>3
    <3> QED
      BY <3>1
  <2>4. /\ rem > 0 => \A q \in E : R[q] = 0
        /\ \A q \in Price \ E : T[q] = 0
    BY <2>2, <2>3
  <2>5. NotFound(Q, d, E) = rem
    <3>1. E \in SUBSET Price
      BY <1>6
    <3>2. Sweeping(R, T, d, Q, rem)
      BY <1>1, <1>3, <1>8 DEF Sweeping
    <3> QED
      BY <2>4, <3>1, <3>2, RestIs
  <2> QED
    BY <2>1, <2>5
<1>11. \A p \in Price : d[p] = StandingQty(RestingOrders, opp, p) + T[p]
  BY <1>8 DEF R
<1> QED
  BY <1>9, <1>10, <1>11 DEF opp, T, d, rem

\* After the loop the book is what DepthBook makes of the order.
LEMMA EndDepth ==
  ASSUME TypeInv, BookInv, SweepInv, TypeInv', BookInv', Rest \/ Complete
  PROVE  \E o \in Abstract!Submission : Abstract!Submit(o)
<1> DEFINE o == [side |-> incoming.side, type |-> incoming.type,
                 price |-> incoming.price, qty |-> incoming.qty]
           opp == Opposite(taker.side)
           own == taker.side
<1>1. /\ pc = "match" /\ ~CanMatch /\ pc' \in {"rest", "idle"} /\ ~ub /\ ub' = ub
      /\ taker \in Order /\ incoming \in Order /\ incoming \in Request /\ incoming.qty > 0
      /\ taker = [incoming EXCEPT !.qty = taker.qty]
      /\ taker.type = "Limit" => taker.price \in Price
  BY DEF Rest, EnterBook, Complete, Conclude, TypeInv, TypeOK, InFlightOK, SweepInv
<1>2. /\ taker.side = incoming.side /\ taker.type = incoming.type /\ taker.price = incoming.price
      /\ taker.side \in Side /\ taker.qty \in Nat /\ taker.type \in OrderType
  BY <1>1 DEF Order
<1>3. o \in Abstract!Submission
  <2>1. incoming.qty \in ReqQty /\ incoming.side \in {"Buy", "Sell"}
        /\ incoming.type \in {"Limit", "Market"}
        /\ (incoming.type = "Market" => incoming.price = 0)
    BY <1>1, <1>2 DEF Request, Side, OrderType
  <2>2. incoming.qty \in ReqQty \ {0}
    BY <1>1, <2>1
  <2>3. incoming.type = "Limit" => incoming.price \in 1..MaxPrice
    BY <1>1, <1>2 DEF Price
  <2> QED
    BY <2>1, <2>2, <2>3 DEF Abstract!Submission, Abstract!Sides, Abstract!Prices
<1>4. AsSubmitted(o)
  BY DEF AsSubmitted
<1>5. o.side = own /\ o.type = taker.type /\ o.price = taker.price /\ Abstract!Other(o.side) = opp
  <2>1. o.side = own /\ o.type = taker.type /\ o.price = taker.price
    BY <1>2
  <2> QED
    BY <2>1 DEF Abstract!Other, Opposite
<1>6. opp \in Side /\ own \in Side /\ opp # own /\ \A s \in Side : s = opp \/ s = own
  BY <1>2 DEF Opposite, Side
<1> HIDE DEF o, opp, own
<1>7. /\ \A p \in Price : Abstract!Taken(Depth, o, p) = Swept(trades)[p]
      /\ Abstract!Rest(Depth, o) = taker.qty
      /\ \A p \in Price : Depth[opp][p] = StandingQty(RestingOrders, opp, p) + Swept(trades)[p]
  BY <1>1, <1>4, SweepTakes DEF opp
<1>8. /\ RestingOrders \in SUBSET Order /\ IsFiniteSet(RestingOrders)
      /\ Swept(trades) \in [Price -> Nat]
  BY <1>1, SweepDone
<1>9. \A s \in Side, p \in Price : StandingQty(RestingOrders, s, p) \in Nat
  BY <1>8, StandingType
<1>10. \A p \in Price : Depth[own][p] = StandingQty(RestingOrders, own, p)
  <2>1. Depth = DepthOf(RestingOrders, "match", taker, trades)
    BY <1>1, DepthIs
  <2> QED
    BY <1>6, <1>9, <2>1 DEF DepthOf, opp
<1>11. \A s \in Side, p \in Price : Depth'[s][p] = StandingQty(RestingOrders', s, p)
  <2>1. Depth' = DepthOf(RestingOrders', pc', taker', trades')
    BY <1>1, DepthIsNext
  <2>2. \A s \in Side, p \in Price : StandingQty(RestingOrders', s, p) \in Nat
    <3>1. LevelsType(levels')
      BY DEF TypeInv, TypeOK
    <3>2. RestingOrders' \in SUBSET Order /\ IsFiniteSet(RestingOrders')
      BY <3>1, FiniteOrders, RestingOrdersOf
    <3> QED
      BY <3>2, StandingType
  <2> QED
    BY <1>1, <2>1, <2>2 DEF DepthOf
<1>12. \A s \in Side, p \in Price :
         StandingQty(RestingOrders', s, p)
           = StandingQty(RestingOrders, s, p)
             + (IF Rests /\ s = own /\ p = taker.price THEN taker.qty ELSE 0)
  <2>1. CASE Rests
    <3>1. RestingOrders' = RestingOrders \cup {taker} /\ taker.id \notin DOMAIN index
      BY <2>1, RestOrders, RestFacts DEF Complete
    <3>2. taker \notin RestingOrders
      <4>1. WellFormed(levels, index)
        BY <1>1 DEF BookInv, BookConsistent
      <4>2. ASSUME taker \in RestingOrders PROVE FALSE
        <5>1. PICK s \in Side : \E p \in DOMAIN levels[s] :
                                  \E i \in DOMAIN levels[s][p] : levels[s][p][i] = taker
          BY <4>2, InOrdersOf, RestingOrdersOf
        <5>2. PICK p \in DOMAIN levels[s] : \E i \in DOMAIN levels[s][p] : levels[s][p][i] = taker
          BY <5>1
        <5>3. PICK i \in DOMAIN levels[s][p] : levels[s][p][i] = taker
          BY <5>2
        <5>4. QueueOK(levels[s][p], s, p, index)
          BY <4>1 DEF WellFormed
        <5>5. levels[s][p][i].id \in DOMAIN index
          BY <5>4 DEF QueueOK
        <5> QED
          BY <3>1, <5>3, <5>5
      <4> QED
        BY <4>2
    <3>3. ASSUME NEW s \in Side, NEW p \in Price
          PROVE  StandingQty(RestingOrders \cup {taker}, s, p)
                   = StandingQty(RestingOrders, s, p)
                     + (IF s = own /\ p = taker.price THEN taker.qty ELSE 0)
      <4>1. StandingQty(RestingOrders \cup {taker}, s, p)
              = StandingQty(RestingOrders, s, p)
                + (IF taker.side = s /\ taker.price = p THEN taker.qty ELSE 0)
        BY <1>1, <1>8, <3>2, StandingInsert
      <4>2. (taker.side = s /\ taker.price = p) <=> (s = own /\ p = taker.price)
        BY DEF own
      <4> QED
        BY <4>1, <4>2
    <3> QED
      BY <2>1, <3>1, <3>3
  <2>2. CASE ~Rests
    <3>1. RestingOrders' = RestingOrders
      BY <2>2, RestingOrdersOf DEF Rest, Complete, Conclude, bookVars
    <3> QED
      BY <1>9, <2>2, <3>1
  <2> QED
    BY <2>1, <2>2
<1>13. ASSUME NEW p \in Price
       PROVE  /\ Depth'[opp][p] = Depth[opp][p] - Abstract!Taken(Depth, o, p)
              /\ Depth'[own][p] = IF o.type = "Limit" /\ p = o.price
                                  THEN Depth[own][p] + Abstract!Rest(Depth, o)
                                  ELSE Depth[own][p]
  <2> DEFINE r == StandingQty(RestingOrders, opp, p)
             w == StandingQty(RestingOrders, own, p)
             t == Swept(trades)[p]
  <2>1. r \in Nat /\ w \in Nat /\ t \in Nat
    BY <1>6, <1>8, <1>9
  <2>2. Depth[opp][p] = r + t /\ Abstract!Taken(Depth, o, p) = t
    BY <1>7
  <2>3. Depth'[opp][p] = r
    <3>1. StandingQty(RestingOrders', opp, p) = r + 0
      BY <1>6, <1>12
    <3> QED
      BY <1>6, <1>11, <2>1, <3>1
  <2>4. Depth[own][p] = w
    BY <1>10
  <2>5. Depth'[own][p] = w + (IF Rests /\ p = taker.price THEN taker.qty ELSE 0)
    BY <1>6, <1>11, <1>12
  <2> HIDE DEF r, w, t
  <2>6. Depth'[opp][p] = Depth[opp][p] - Abstract!Taken(Depth, o, p)
    BY <2>1, <2>2, <2>3
  <2>7. w + (IF Rests /\ p = taker.price THEN taker.qty ELSE 0)
          = IF taker.type = "Limit" /\ p = taker.price THEN w + taker.qty ELSE w
    BY <1>2, <2>1 DEF Rests
  <2> QED
    BY <1>5, <1>7, <2>4, <2>5, <2>6, <2>7
<1>14. Depth' = Abstract!Executed(Depth, o)
  <2>1. Depth' = [s \in Side |-> [p \in Price |-> Depth'[s][p]]]
    BY DEF Depth
  <2>2. /\ Abstract!Sides = Side /\ Abstract!Prices = Price
    BY DEF Abstract!Sides, Abstract!Prices, Side, Price
  <2>3. ASSUME NEW s \in Side, NEW p \in Price
        PROVE  Depth'[s][p] = CASE s = Abstract!Other(o.side)
                                     -> Depth[s][p] - Abstract!Taken(Depth, o, p)
                                [] s = o.side /\ o.type = "Limit" /\ p = o.price
                                     -> Depth[s][p] + Abstract!Rest(Depth, o)
                                [] OTHER -> Depth[s][p]
    BY <1>5, <1>6, <1>13
  <2> QED
    BY <2>1, <2>2, <2>3 DEF Abstract!Executed
<1>15. Abstract!Submit(o)
  BY <1>1, <1>14 DEF Abstract!Submit
<1> QED
  BY <1>3, <1>15

\* Only orders with something left rest, at a price of the book.
LEMMA RestingFacts ==
  ASSUME TypeInv, BookInv, ~ub, NEW o \in RestingOrders
  PROVE  o \in Order /\ o.side \in Side /\ o.price \in Price /\ o.qty \in Nat /\ o.qty > 0
<1>1. LevelsType(levels) /\ WellFormed(levels, index)
  BY DEF TypeInv, TypeOK, BookInv, BookConsistent
<1>2. o \in Order
  BY <1>1, FiniteOrders, RestingOrdersOf
<1>3. PICK side \in Side : \E p \in DOMAIN levels[side] :
                             \E i \in DOMAIN levels[side][p] : levels[side][p][i] = o
  BY InOrdersOf, RestingOrdersOf
<1>4. PICK p \in DOMAIN levels[side] : \E i \in DOMAIN levels[side][p] : levels[side][p][i] = o
  BY <1>3
<1>5. QueueOK(levels[side][p], side, p, index) /\ p \in Price
  BY <1>1 DEF WellFormed, LevelsType
<1>6. o.side = side /\ o.price = p /\ o.qty > 0
  BY <1>4, <1>5 DEF QueueOK
<1> QED
  BY <1>2, <1>5, <1>6 DEF Order

\* A cancellation takes one order's quantity from its price.
LEMMA CancelOpenDepth ==
  ASSUME TypeInv, BookInv, TypeInv', BookInv', NEW id \in OrderId, CancelOpen(id)
  PROVE  \E side \in Abstract!Sides, p \in Abstract!Prices : Abstract!Withdraw(side, p)
<1>1. PICK o \in RestingOrders : RestingOrders' = RestingOrders \ {o}
  BY CancelOpenOrders
<1>2. pc = "idle" /\ pc' = "cancel" /\ ~ub /\ ub' = ub /\ LevelsType(levels)
  BY DEF CancelOpen, TypeInv, TypeOK
<1>3. o.side \in Side /\ o.price \in Price /\ o.qty \in Nat /\ o.qty > 0
  BY <1>2, RestingFacts
<1>4. RestingOrders \in SUBSET Order /\ IsFiniteSet(RestingOrders)
  BY <1>2, FiniteOrders, RestingOrdersOf
<1>5. RestingOrders' \in SUBSET Order /\ IsFiniteSet(RestingOrders')
  BY <1>1, <1>4, FS_RemoveElement
<1>6. \A s \in Side, p \in Price : /\ StandingQty(RestingOrders, s, p) \in Nat
                                   /\ StandingQty(RestingOrders', s, p) \in Nat
  BY <1>4, <1>5, StandingType
<1>7. \A s \in Side, p \in Price :
        StandingQty(RestingOrders, s, p)
          = StandingQty(RestingOrders', s, p) + (IF o.side = s /\ o.price = p THEN o.qty ELSE 0)
  BY <1>1, <1>4, StandingRemove
<1>8. /\ Depth = [s \in Side |-> [p \in Price |-> StandingQty(RestingOrders, s, p)]]
      /\ Depth' = [s \in Side |-> [p \in Price |-> StandingQty(RestingOrders', s, p)]]
  <2>1. Depth = DepthOf(RestingOrders, "idle", taker, trades)
    BY <1>2, DepthIs
  <2>2. Depth' = DepthOf(RestingOrders', "cancel", taker', trades')
    BY <1>2, DepthIsNext
  <2> QED
    BY <1>6, <2>1, <2>2 DEF DepthOf
<1> DEFINE side == o.side
           price == o.price
           left == StandingQty(RestingOrders', side, price)
<1>9. left \in Nat /\ Depth[side][price] = left + o.qty
  BY <1>3, <1>6, <1>7, <1>8
<1>10. \A s \in Side, p \in Price :
         StandingQty(RestingOrders', s, p) = IF s = side /\ p = price THEN left
                                             ELSE StandingQty(RestingOrders, s, p)
  BY <1>6, <1>7
<1> HIDE DEF side, price, left
<1>11. left \in 0..(Depth[side][price] - 1)
  BY <1>3, <1>9
<1>12. Depth' = [Depth EXCEPT ![side][price] = left]
  BY <1>8, <1>10
<1>13. side \in Abstract!Sides /\ price \in Abstract!Prices
  BY <1>3 DEF side, price, Abstract!Sides, Abstract!Prices, Side, Price
<1>14. Abstract!Withdraw(side, price)
  BY <1>2, <1>11, <1>12 DEF Abstract!Withdraw
<1> QED
  BY <1>13, <1>14

\* Between two operations the book has a depth, whatever is in it.
LEMMA DepthType == TypeOK /\ pc = "idle" => Depth \in Abstract!Depths
<1> SUFFICES ASSUME TypeOK, pc = "idle" PROVE Depth \in Abstract!Depths
  OBVIOUS
<1>1. LevelsType(levels)
  BY DEF TypeOK
<1>2. OrdersOf(levels) \subseteq Order /\ IsFiniteSet(OrdersOf(levels))
  BY <1>1, FiniteOrders
<1>3. ASSUME NEW side \in Side, NEW p \in Price PROVE RestingQty(side, p) \in Nat
  <2> DEFINE S == OrdersAt(side, p)
             f == [o \in S |-> o.qty]
  <2>1. S \subseteq OrdersOf(levels)
    BY DEF OrdersAt, OrdersOf
  <2>2. IsFiniteSet(S) /\ S \subseteq Order
    BY <1>2, <2>1, FS_Subset
  <2>3. \A o \in S : f[o] \in Nat
    BY <2>2, QtyOfType
  <2>4. SumFunction(f) = SumFunctionOnSet(f, S)
    BY DEF SumFunction
  <2>5. RestingQty(side, p) = SumFunction(f) + 0
    BY DEF RestingQty
  <2> HIDE DEF f, S
  <2>6. SumFunctionOnSet(f, S) \in Nat
    BY <2>2, <2>3, SumNat
  <2> QED
    BY <2>4, <2>5, <2>6
<1> QED
  BY <1>3 DEF Depth, Abstract!Depths, Abstract!Sides, Abstract!Prices, Side, Price

\* Where DepthBook promises nothing any more.
LEMMA DanglingDepth ==
  ASSUME TypeInv', NEW id \in OrderId, CancelDangling(id)
  PROVE  Abstract!Break
<1>1. TypeOK' /\ pc' = "idle" /\ ~ub /\ ub' = TRUE
  BY DEF CancelDangling, TypeInv
<1>2. (TypeOK /\ pc = "idle" => Depth \in Abstract!Depths)'
  BY DepthType, PTL
<1>3. (Abstract!Depths)' = Abstract!Depths
  BY DEF Abstract!Depths, Abstract!Sides, Abstract!Prices
<1> QED
  BY <1>1, <1>2, <1>3 DEF Abstract!Break, CancelDangling

\* The seeded book is a book of DepthBook, and no sweep is under way.
LEMMA DepthStart == Init => SweepInv /\ Abstract!DepthInit
<1> SUFFICES ASSUME Init PROVE SweepInv /\ Abstract!DepthInit
  OBVIOUS
<1>1. pc = "idle" /\ trades = <<>> /\ ub = FALSE
  BY DEF Init
<1>2. Depth \in Abstract!Depths
  BY <1>1, TypeInit, DepthType DEF TypeInv
<1> QED
  BY <1>1, <1>2 DEF SweepInv, Abstract!DepthInit

\* Every step of the engine is a step of DepthBook or none: fills are none, an
\* order takes effect when its loop has ended, a cancellation when the order is
\* unlinked.
LEMMA DepthStep ==
  TypeInv /\ BookInv /\ SweepInv /\ TypeInv' /\ BookInv' /\ [Next]_vars
    => [Abstract!DepthNext]_(Abstract!depthVars)
<1> SUFFICES ASSUME TypeInv, BookInv, SweepInv, TypeInv', BookInv', [Next]_vars
             PROVE  [Abstract!DepthNext]_(Abstract!depthVars)
  OBVIOUS
<1>1. ASSUME NEW o \in Request, Refuse(o) PROVE UNCHANGED Abstract!depthVars
  BY <1>1, SameDepth DEF Refuse, bookVars
<1>2. ASSUME NEW o \in Request, Accept(o) PROVE UNCHANGED Abstract!depthVars
  BY <1>2, AcceptDepth
<1>3. CASE Fill
  BY <1>3, FillDepth
<1>4. CASE Rest \/ Complete
  BY <1>4, EndDepth DEF Abstract!DepthNext
<1>5. CASE Settle \/ CancelDone
  BY <1>5, SameDepth DEF Settle, Conclude, CancelDone, bookVars
<1>6. ASSUME NEW id \in OrderId, CancelOpen(id) PROVE Abstract!DepthNext
  BY <1>6, CancelOpenDepth DEF Abstract!DepthNext
<1>7. ASSUME NEW id \in OrderId, CancelDangling(id) PROVE Abstract!DepthNext
  BY <1>7, DanglingDepth DEF Abstract!DepthNext
<1>8. ASSUME NEW u \in User, Connect(u) PROVE UNCHANGED Abstract!depthVars
  BY <1>8, SameDepth DEF Connect, bookVars
<1>9. CASE UNCHANGED vars
  BY <1>9, SameDepth DEF vars, bookVars
<1> QED
  BY <1>1, <1>2, <1>3, <1>4, <1>5, <1>6, <1>7, <1>8, <1>9 DEF Next, CancelUnknown, Corrupted

\* The engine does what DepthBook promises a trader: an order executes as if at
\* once, takes what is there at the prices it accepts, the better ones first, and
\* only what a limit order does not find comes to rest (process_order,
\* match_buy, match_sell); a cancellation only takes away (cancel_order).
THEOREM EngineImplementsDepthBook == Spec => ImplementsDepthBook
<1>1. Spec => [](TypeInv /\ BookInv /\ SweepInv)
  BY DepthStart, SweepStep, TypeInvariant, BookInvariant, PTL DEF Spec
<1> QED
  BY <1>1, DepthStart, DepthStep, PTL DEF Spec, ImplementsDepthBook, Abstract!DepthSpec

-----------------------------------------------------------------------------
(* The threads in front of the engine.                                     *)

Job == [phase : {"free"}] \cup [phase : {"drawn", "inside"}, order : Request]
         \cup [phase : {"checked", "releasing"}, id : OrderId, user_id : User]

\* Ids count up, so those drawn and those registered are below next_id_, and no
\* two threads have the same.
IdsInv ==
  /\ next_id_ \in Nat
  /\ job \in [Worker -> Job]
  /\ \A w \in Worker : HasOrder(w) => job[w].order.id < next_id_
  /\ \A v, w \in Worker : HasOrder(v) /\ HasOrder(w) /\ v # w =>
       job[v].order.id # job[w].order.id
  /\ \A id \in DOMAIN order_to_user : id \in NewId => id < next_id_
  /\ \A w \in Worker : job[w].phase = "drawn" => job[w].order.id \notin DOMAIN order_to_user

-----------------------------------------------------------------------------
(* Ids.                                                                    *)

LEMMA FreeIsJob == Free \in Job /\ Free.phase = "free"
<1>1. Free \in [phase : {"free"}] /\ Free.phase = "free"
  BY DEF Free
<1> QED
  BY <1>1 DEF Job

LEMMA IdsInit == HandlersInit => IdsInv
<1> SUFFICES ASSUME HandlersInit PROVE IdsInv
  OBVIOUS
<1>1. Min(NewId) \in Nat
  <2>1. \E x \in NewId : \A y \in NewId : x <= y
    BY LeastNat, HandlerAssumption
  <2> QED
    BY <2>1, HandlerAssumption DEF Min
<1>2. job = [w \in Worker |-> Free] /\ next_id_ \in Nat
  <2>1. job = [w \in Worker |-> Free] /\ next_id_ = Min(NewId)
    BY Zenon DEF HandlersInit
  <2> QED
    BY <1>1, <2>1
<1>3. job \in [Worker -> Job] /\ \A w \in Worker : job[w].phase = "free"
  BY <1>2, FreeIsJob
<1>4. \A w \in Worker : ~HasOrder(w)
  BY <1>3 DEF HasOrder
<1>5. DOMAIN order_to_user = {}
  BY DEF HandlersInit, Init, UserInit
<1> QED
  BY <1>2, <1>3, <1>4, <1>5 DEF IdsInv

\* What a handler makes of a body is a request the engine knows.
LEMMA OrderOfBody ==
  ASSUME NEW b \in Body, next_id_ \in NewId
  PROVE  OrderOf(b) \in Request /\ OrderOf(b).id = next_id_
BY HandlerAssumption DEF OrderOf, DrawId, Request

LEMMA PostOrderIds ==
  ASSUME IdsInv, NEW u \in Worker, NEW b \in Body, PostOrder(u, b)
  PROVE  IdsInv'
<1> DEFINE o == OrderOf(b)
<1>1. o \in Request /\ o.id = next_id_
  BY OrderOfBody DEF PostOrder
<1>2. /\ next_id_ \in NewId /\ next_id_' = next_id_ + 1 /\ UNCHANGED order_to_user
      /\ job' = [job EXCEPT ![u] = [phase |-> "drawn", order |-> o]]
  BY DEF PostOrder, vars, userVars
<1> HIDE DEF o
<1>3. next_id_ \in Nat /\ next_id_' \in Nat /\ job \in [Worker -> Job]
  BY <1>2 DEF IdsInv
<1>4. /\ job' \in [Worker -> Job] /\ job'[u].phase = "drawn" /\ job'[u].order = o
      /\ \A w \in Worker : w # u => job'[w] = job[w]
  BY <1>1, <1>2, <1>3 DEF Job
<1>5. /\ HasOrder(u)'
      /\ \A w \in Worker : w # u => HasOrder(w)' = HasOrder(w)
  BY <1>4 DEF HasOrder
<1>6. \A w \in Worker : HasOrder(w) => job[w].order.id < next_id_ /\ job[w].order.id \in Nat
  BY HandlerAssumption DEF IdsInv, HasOrder, Job, Request
<1>7. \A id \in DOMAIN order_to_user : id \in NewId => id < next_id_ /\ id \in Nat
  BY HandlerAssumption DEF IdsInv
<1>8. \A w \in Worker : HasOrder(w)' => job'[w].order.id < next_id_'
  BY <1>1, <1>2, <1>3, <1>4, <1>5, <1>6
<1>9. \A v, w \in Worker : HasOrder(v)' /\ HasOrder(w)' /\ v # w =>
        job'[v].order.id # job'[w].order.id
  <2>1. \A w \in Worker : w # u /\ HasOrder(w)' => job'[w].order.id # next_id_
    BY <1>3, <1>4, <1>5, <1>6
  <2> QED
    BY <1>1, <1>4, <1>5, <2>1 DEF IdsInv
<1>10. \A id \in DOMAIN order_to_user' : id \in NewId => id < next_id_'
  BY <1>2, <1>3, <1>7
<1>11. \A w \in Worker : job'[w].phase = "drawn" => job'[w].order.id \notin DOMAIN order_to_user'
  <2>1. next_id_ \notin DOMAIN order_to_user
    BY <1>2, <1>3, <1>7
  <2> QED
    BY <1>1, <1>2, <1>4, <2>1 DEF IdsInv
<1> QED
  BY <1>3, <1>4, <1>8, <1>9, <1>10, <1>11 DEF IdsInv

\* Registering a drawn id takes it out of the drawn ones.
LEMMA EnterIds ==
  ASSUME IdsInv, NEW u \in Worker, Enter(u)
  PROVE  IdsInv' /\ job[u].order \in Request
<1> DEFINE o == job[u].order
<1>1. job[u].phase = "drawn" /\ job \in [Worker -> Job] /\ UNCHANGED next_id_
  BY DEF Enter, IdsInv
<1>2. o \in Request /\ HasOrder(u)
  BY <1>1 DEF Job, HasOrder
<1>3. DOMAIN order_to_user' = DOMAIN order_to_user \cup {o.id}
  BY DEF Enter, Refuse, Accept, RegisterOrder, Put
<1>4. \/ job' = [job EXCEPT ![u] = Free]
      \/ job' = [job EXCEPT ![u].phase = "inside"]
  BY Zenon DEF Enter
<1>5. /\ job' \in [Worker -> Job] /\ job'[u].phase # "drawn"
      /\ \A w \in Worker : w # u => job'[w] = job[w]
      /\ HasOrder(u)' => job'[u].order = o
  <2>1. job[u] \in [phase : {"drawn", "inside"}, order : Request]
    BY <1>1 DEF Job
  <2>2. CASE job' = [job EXCEPT ![u] = Free]
    BY <1>1, <2>2, FreeIsJob DEF HasOrder
  <2>3. CASE job' = [job EXCEPT ![u].phase = "inside"]
    BY <1>1, <2>1, <2>3 DEF Job
  <2> QED
    BY <1>4, <2>2, <2>3
<1>6. \A w \in Worker : w # u => HasOrder(w)' = HasOrder(w)
  BY <1>5 DEF HasOrder
<1>7. o.id < next_id_
  BY <1>2 DEF IdsInv
<1> HIDE DEF o
<1>8. \A w \in Worker : HasOrder(w)' => HasOrder(w) /\ job'[w].order = job[w].order
  BY <1>2, <1>5, <1>6 DEF o
<1>9. \A w \in Worker : job'[w].phase = "drawn" =>
        w # u /\ HasOrder(w) /\ job[w].phase = "drawn" /\ job'[w].order.id # o.id
  BY <1>2, <1>5 DEF HasOrder, IdsInv, o
<1>10. \A id \in DOMAIN order_to_user' : id \in NewId => id < next_id_'
  BY <1>1, <1>3, <1>7 DEF IdsInv
<1>11. \A w \in Worker : job'[w].phase = "drawn" => job'[w].order.id \notin DOMAIN order_to_user'
  BY <1>3, <1>5, <1>9 DEF IdsInv
<1> QED
  BY <1>1, <1>2, <1>5, <1>8, <1>10, <1>11 DEF IdsInv, o

\* Steps that draw no id and register none, and in which no thread gets an order.
LEMMA OtherIds ==
  ASSUME IdsInv, UNCHANGED <<next_id_, order_to_user>>, job' \in [Worker -> Job],
         \A w \in Worker : job'[w] = job[w] \/ job'[w].phase \in {"free", "checked", "releasing"}
  PROVE  IdsInv'
<1>1. \A w \in Worker : HasOrder(w)' => HasOrder(w) /\ job'[w] = job[w]
  BY DEF HasOrder
<1>2. \A w \in Worker : job'[w].phase = "drawn" => job'[w] = job[w]
  OBVIOUS
<1> QED
  BY <1>1, <1>2 DEF IdsInv

LEMMA FreeJob ==
  ASSUME IdsInv, NEW u \in Worker, job' = [job EXCEPT ![u] = Free]
  PROVE  /\ job' \in [Worker -> Job]
         /\ \A w \in Worker : job'[w] = job[w] \/ job'[w].phase \in {"free", "checked", "releasing"}
BY FreeIsJob DEF IdsInv

\* Every step keeps the ids apart.
LEMMA IdsStep == IdsInv /\ [HandlersNext]_handlerVars => IdsInv'
<1> SUFFICES ASSUME IdsInv, [HandlersNext]_handlerVars PROVE IdsInv'
  OBVIOUS
<1>1. ASSUME NEW w \in Worker, NEW b \in Body, PostOrder(w, b) PROVE IdsInv'
  BY <1>1, PostOrderIds
<1>2. ASSUME NEW w \in Worker, NEW b \in CancelBody, PostCancel(w, b) PROVE IdsInv'
  <2>1. /\ UNCHANGED <<next_id_, order_to_user>>
        /\ job' = [job EXCEPT ![w] = [phase |-> "checked", id |-> b.id, user_id |-> b.user_id]]
    BY <1>2 DEF PostCancel, vars, userVars
  <2>2. /\ job' \in [Worker -> Job]
        /\ \A v \in Worker : job'[v] = job[v] \/ job'[v].phase \in {"free", "checked", "releasing"}
    BY <2>1, HandlerAssumption DEF IdsInv, Job
  <2> QED
    BY <2>1, <2>2, OtherIds
<1>3. ASSUME NEW w \in Worker, Enter(w) PROVE IdsInv'
  BY <1>3, EnterIds
<1>4. ASSUME NEW w \in Worker, Leave(w) PROVE IdsInv'
  <2>1. UNCHANGED <<next_id_, order_to_user>> /\ job' = [job EXCEPT ![w] = Free]
    BY <1>4 DEF Leave, Settle, Complete, Conclude
  <2> QED
    BY <2>1, FreeJob, OtherIds
<1>5. ASSUME NEW w \in Worker, Cancel(w) PROVE IdsInv'
  <2>1. UNCHANGED <<next_id_, order_to_user>>
    BY <1>5 DEF Cancel, CancelUnknown, CancelOpen, CancelDangling, vars, userVars
  <2>2. CASE job' = [job EXCEPT ![w] = Free]
    BY <2>1, <2>2, FreeJob, OtherIds
  <2>3. CASE job' = [job EXCEPT ![w].phase = "releasing"]
    <3>1. job[w] \in [phase : {"checked", "releasing"}, id : OrderId, user_id : User]
      BY <1>5 DEF Cancel, IdsInv, Job
    <3>2. /\ job' \in [Worker -> Job]
          /\ \A v \in Worker : job'[v] = job[v] \/ job'[v].phase \in {"free", "checked", "releasing"}
      BY <2>3, <3>1 DEF IdsInv, Job
    <3> QED
      BY <2>1, <3>2, OtherIds
  <2> QED
    BY <1>5, <2>2, <2>3, Zenon DEF Cancel
<1>6. ASSUME NEW w \in Worker, Released(w) PROVE IdsInv'
  <2>1. UNCHANGED <<next_id_, order_to_user>> /\ job' = [job EXCEPT ![w] = Free]
    BY <1>6 DEF Released, CancelDone
  <2> QED
    BY <2>1, FreeJob, OtherIds
<1>7. CASE Sweep
  BY <1>7, OtherIds DEF Sweep, Fill, Rest, EnterBook, userVars, IdsInv
<1>8. ASSUME NEW u \in User, Connect(u), UNCHANGED <<next_id_, job>> PROVE IdsInv'
  BY <1>8, OtherIds DEF Connect, NextUserId, IdsInv
<1>9. CASE UNCHANGED handlerVars \/ (Corrupted /\ UNCHANGED <<next_id_, job>>)
  BY <1>9, OtherIds DEF handlerVars, Corrupted, vars, userVars, IdsInv
<1> QED
  BY <1>1, <1>2, <1>3, <1>4, <1>5, <1>6, <1>7, <1>8, <1>9 DEF HandlersNext

\* The ids threads have drawn, and have registered, are below next_order_id and
\* no two threads have the same.
THEOREM IdsInvariant == HandlersSpec => []IdsInv
BY IdsInit, IdsStep, PTL DEF HandlersSpec

-----------------------------------------------------------------------------
(* The engine behind the threads.                                          *)

\* A step of a thread is a step of the engine, or none.
LEMMA HandlersStep == IdsInv /\ [HandlersNext]_handlerVars => [Next]_vars
<1> SUFFICES ASSUME IdsInv, [HandlersNext]_handlerVars PROVE [Next]_vars
  OBVIOUS
<1>1. ASSUME NEW w \in Worker, NEW b \in Body, PostOrder(w, b) PROVE UNCHANGED vars
  BY <1>1 DEF PostOrder
<1>2. ASSUME NEW w \in Worker, NEW b \in CancelBody, PostCancel(w, b) PROVE UNCHANGED vars
  BY <1>2 DEF PostCancel
<1>3. ASSUME NEW w \in Worker, Enter(w) PROVE Next
  BY <1>3, EnterIds DEF Enter, Next
<1>4. ASSUME NEW w \in Worker, Leave(w) PROVE Next
  BY <1>4 DEF Leave, Next
<1>5. ASSUME NEW w \in Worker, Cancel(w) PROVE Next
  <2>1. job[w].id \in OrderId
    BY <1>5 DEF Cancel, IdsInv, Job
  <2> QED
    BY <1>5, <2>1 DEF Cancel, Next
<1>6. ASSUME NEW w \in Worker, Released(w) PROVE Next
  BY <1>6 DEF Released, Next
<1>7. CASE Sweep
  BY <1>7 DEF Sweep, Next
<1>8. ASSUME NEW u \in User, Connect(u) PROVE Next
  BY <1>8 DEF Next
<1>9. CASE UNCHANGED handlerVars \/ (Corrupted /\ UNCHANGED <<next_id_, job>>)
  BY <1>9 DEF handlerVars, Next
<1> QED
  BY <1>1, <1>2, <1>3, <1>4, <1>5, <1>6, <1>7, <1>8, <1>9 DEF HandlersNext

\* However many threads there are, what they do to the engine is what one caller
\* could do after another: book_mtx keeps the parts of an order and of a
\* cancellation together, and no id comes twice.
THEOREM ThreadsImplementEngine == HandlersSpec => Spec
<1>1. HandlersInit => Init
  BY DEF HandlersInit
<1>2. IdsInv /\ [HandlersNext]_handlerVars => [Next]_vars
  BY HandlersStep
<1> QED
  BY <1>1, <1>2, IdsInvariant, PTL DEF HandlersSpec, Spec

\* So the book is consistent and not crossed, nobody sells what he does not have,
\* reservations are what rests and the journals agree, whatever threads submit and
\* cancel at the same time.
THEOREM SafeWithThreads ==
  HandlersSpec => [](/\ TypeOK /\ BookConsistent /\ NotCrossed
                     /\ SharesSolvent /\ ReservationsExact /\ JournalsReconcile)
BY ThreadsImplementEngine, TypeCorrect, BookAlwaysConsistent, NeverCrossed, NeverOversold,
   ReservedIsWhatRests, JournalsAlwaysReconcile, PTL

\* And however the requests of threads interleave, every order executes as if at
\* once: the threads together do what DepthBook promises.
THEOREM ThreadsImplementDepthBook == HandlersSpec => ImplementsDepthBook
BY ThreadsImplementEngine, EngineImplementsDepthBook, PTL

\* The id a thread has drawn is its own until it has book_mtx.
THEOREM DrawnIdsUnused == HandlersSpec => []IdsUnused
<1>1. IdsInv /\ TypeInv => IdsUnused
  <2> SUFFICES ASSUME IdsInv, TypeInv, NEW w \in Worker, job[w].phase = "drawn"
               PROVE  /\ job[w].order.id \notin DOMAIN order_to_user \cup DOMAIN index
                      /\ \A v \in Worker \ {w} : HasOrder(v) => job[v].order.id # job[w].order.id
    BY DEF IdsUnused
  <2>1. HasOrder(w) /\ job[w].order \in Request
    BY DEF HasOrder, IdsInv, Job
  <2>2. job[w].order.id \in NewId /\ job[w].order.id \notin DOMAIN order_to_user
    BY <2>1, RequestFacts DEF IdsInv
  <2>3. job[w].order.id \notin DOMAIN index
    BY <2>2 DEF TypeInv, InFlightOK
  <2> QED
    BY <2>1, <2>2, <2>3 DEF IdsInv
<1> QED
  BY <1>1, IdsInvariant, ThreadsImplementEngine, TypeInvariant, PTL

-----------------------------------------------------------------------------
(* Owners.                                                                 *)

\* Whoever was found to own the order still does: an owner is never changed.
ClaimsInv ==
  \A w \in Worker : job[w].phase = "checked" /\ job[w].user_id > 0 =>
    UserOf(job[w].id) = job[w].user_id

\* register_order is called once per id, with an id that had no owner.
LEMMA OwnersStay ==
  ASSUME IdsInv, [HandlersNext]_handlerVars
  PROVE  \A id \in DOMAIN order_to_user : UserOf(id)' = UserOf(id)
<1>1. [Next]_vars
  BY HandlersStep
<1>2. ASSUME NEW o \in Request, Refuse(o) \/ Accept(o)
      PROVE  \A id \in DOMAIN order_to_user : UserOf(id)' = UserOf(id)
  BY <1>2 DEF Refuse, Accept, RegisterOrder, Put, UserOf
<1>3. CASE Fill \/ Rest \/ Settle \/ Complete
  BY <1>3 DEF Fill, Rest, EnterBook, Settle, Complete, Conclude, userVars, UserOf
<1>4. ASSUME NEW id \in OrderId, CancelOpen(id) \/ CancelDangling(id)
      PROVE  UNCHANGED order_to_user
  BY <1>4 DEF CancelOpen, CancelDangling, userVars
<1>5. ASSUME NEW u \in User, Connect(u) PROVE UNCHANGED order_to_user
  BY <1>5 DEF Connect, NextUserId
<1>6. CASE UNCHANGED vars
  BY <1>6 DEF vars, userVars, UserOf
<1>7. CASE CancelDone
  BY <1>7 DEF CancelDone, UserOf
<1> QED
  BY <1>1, <1>2, <1>3, <1>4, <1>5, <1>6, <1>7 DEF Next, CancelUnknown, Corrupted, UserOf

\* A thread that holds a claim has held it before the step, or has just checked it.
LEMMA Claims ==
  ASSUME IdsInv, [HandlersNext]_handlerVars, NEW w \in Worker, job'[w].phase = "checked"
  PROVE  \/ job'[w] = job[w]
         \/ /\ job'[w].user_id > 0 => UserOf(job'[w].id) = job'[w].user_id
            /\ UNCHANGED order_to_user
<1> USE FreeIsJob
<1>1. job \in [Worker -> Job]
  BY DEF IdsInv
<1>2. ASSUME NEW u \in Worker, NEW b \in Body, PostOrder(u, b) PROVE job'[w] = job[w]
  <2>1. job' = [job EXCEPT ![u] = [phase |-> "drawn", order |-> OrderOf(b)]]
    BY <1>2 DEF PostOrder
  <2> QED
    BY <1>1, <2>1
<1>3. ASSUME NEW u \in Worker, NEW b \in CancelBody, PostCancel(u, b)
      PROVE  \/ job'[w] = job[w]
             \/ /\ job'[w].user_id > 0 => UserOf(job'[w].id) = job'[w].user_id
                /\ UNCHANGED order_to_user
  <2>1. /\ job' = [job EXCEPT ![u] = [phase |-> "checked", id |-> b.id, user_id |-> b.user_id]]
        /\ MayCancel(b.id, b.user_id) /\ UNCHANGED order_to_user
    BY <1>3 DEF PostCancel, vars, userVars
  <2>2. CASE w = u
    BY <1>1, <2>1, <2>2 DEF MayCancel
  <2>3. CASE w # u
    BY <1>1, <2>1, <2>3
  <2> QED
    BY <2>2, <2>3
<1>4. ASSUME NEW u \in Worker, Enter(u) PROVE job'[w] = job[w]
  <2>1. \/ job' = [job EXCEPT ![u] = Free]
        \/ job' = [job EXCEPT ![u].phase = "inside"]
    BY <1>4, Zenon DEF Enter
  <2>2. job[u] \in [phase : {"drawn", "inside"}, order : Request]
    BY <1>1, <1>4 DEF Enter, Job
  <2> QED
    BY <1>1, <2>1, <2>2
<1>5. ASSUME NEW u \in Worker, Leave(u) \/ Released(u) PROVE job'[w] = job[w]
  <2>1. job' = [job EXCEPT ![u] = Free]
    BY <1>5 DEF Leave, Released
  <2> QED
    BY <1>1, <2>1
<1>6. ASSUME NEW u \in Worker, Cancel(u) PROVE job'[w] = job[w]
  <2>1. \/ job' = [job EXCEPT ![u] = Free]
        \/ job' = [job EXCEPT ![u].phase = "releasing"]
    BY <1>6, Zenon DEF Cancel
  <2>2. job[u] \in [phase : {"checked", "releasing"}, id : OrderId, user_id : User]
    BY <1>1, <1>6 DEF Cancel, Job
  <2> QED
    BY <1>1, <2>1, <2>2
<1>7. CASE Sweep \/ UNCHANGED handlerVars \/ (Corrupted /\ UNCHANGED <<next_id_, job>>)
  BY <1>7 DEF Sweep, handlerVars
<1>8. CASE UNCHANGED job
  BY <1>8
<1> QED
  BY <1>2, <1>3, <1>4, <1>5, <1>6, <1>7, <1>8 DEF HandlersNext

LEMMA ClaimsStep == IdsInv /\ ClaimsInv /\ [HandlersNext]_handlerVars => ClaimsInv'
<1> SUFFICES ASSUME IdsInv, ClaimsInv, [HandlersNext]_handlerVars,
                    NEW w \in Worker, job'[w].phase = "checked", job'[w].user_id > 0
             PROVE  UserOf(job[w].id)' = job'[w].user_id
  BY DEF ClaimsInv
<1>1. CASE job'[w] = job[w]
  <2>1. UserOf(job[w].id) = job[w].user_id /\ job[w].user_id > 0
    BY <1>1 DEF ClaimsInv
  <2>2. job[w].id \in DOMAIN order_to_user
    BY <2>1 DEF UserOf
  <2> QED
    BY <1>1, <2>1, <2>2, OwnersStay DEF UserOf
<1>2. CASE UserOf(job'[w].id) = job'[w].user_id /\ UNCHANGED order_to_user
  BY <1>2 DEF UserOf
<1> QED
  BY <1>1, <1>2, Claims

\* The owner POST /cancel looked up without the lock is still the order's owner.
THEOREM ClaimsInvariant == HandlersSpec => []ClaimsInv
<1>1. HandlersInit => ClaimsInv
  BY FreeIsJob DEF HandlersInit, ClaimsInv
<1> QED
  BY <1>1, ClaimsStep, IdsInvariant, PTL DEF HandlersSpec

\* Memory once corrupted stays so.
LEMMA UbStays ==
  ASSUME [Next]_vars, ~ub'
  PROVE  ~ub
<1>1. ASSUME NEW o \in Request, Refuse(o) \/ Accept(o) PROVE ~ub
  BY <1>1 DEF Refuse, Accept
<1>2. CASE Fill \/ Rest \/ Settle \/ Complete
  BY <1>2 DEF Fill, Rest, EnterBook, Settle, Complete, Conclude
<1>3. ASSUME NEW id \in OrderId, CancelUnknown(id) \/ CancelOpen(id) \/ CancelDangling(id)
      PROVE  ~ub
  BY <1>3 DEF CancelUnknown, CancelOpen, CancelDangling
<1>4. CASE CancelDone
  BY <1>4 DEF CancelDone
<1>5. ASSUME NEW u \in User, Connect(u) PROVE ~ub
  BY <1>5 DEF Connect
<1>6. CASE Corrupted \/ UNCHANGED vars
  BY <1>6 DEF Corrupted, vars
<1> QED
  BY <1>1, <1>2, <1>3, <1>4, <1>5, <1>6 DEF Next

\* A cancellation takes an order off the book for its owner only, or for a client
\* that names no user: the owner found without the lock is the one the order has
\* when the lock is there.
THEOREM CancelsAreOwn == HandlersSpec => CancelledByOwner
<1>1. ASSUME IdsInv, ClaimsInv, OwnersAgree, TypeInv, [HandlersNext]_handlerVars,
             NEW w \in Worker, job[w].phase = "checked", ~ub',
             NEW o \in RestingOrders, o.id = job[w].id
      PROVE  job[w].user_id \in {0, o.user_id}
  <2>1. ~ub
    BY <1>1, HandlersStep, UbStays
  <2>2. o.user_id = UserOf(o.id)
    BY <1>1, <2>1 DEF OwnersAgree, RestingOrders, ToSet
  <2>3. job[w].user_id \in Nat
    BY <1>1, BookAssumption DEF IdsInv, Job
  <2>4. CASE job[w].user_id = 0
    BY <2>4
  <2>5. CASE job[w].user_id > 0
    BY <1>1, <2>2, <2>5 DEF ClaimsInv
  <2> QED
    BY <2>3, <2>4, <2>5
<1>2. IdsInv /\ ClaimsInv /\ OwnersAgree /\ TypeInv /\ [HandlersNext]_handlerVars =>
        [\A w \in Worker : job[w].phase = "checked" /\ job'[w] # job[w] /\ ~ub' =>
           \A o \in RestingOrders :
             o.id = job[w].id /\ ~Resting(o.id)' => job[w].user_id \in {0, o.user_id}]_handlerVars
  BY <1>1
<1> QED
  BY <1>2, IdsInvariant, ClaimsInvariant, ThreadsImplementEngine, OwnersAlwaysAgree,
     TypeInvariant, PTL DEF HandlersSpec, CancelledByOwner

=============================================================================
