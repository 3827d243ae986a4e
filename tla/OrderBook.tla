----------------------------- MODULE OrderBook -----------------------------
(***************************************************************************)
(* The limit order book of core/src/book/order_book.{hpp,cpp}: two price-  *)
(* sorted maps of FIFO lists (bids_, asks_) and index_, which maps an      *)
(* order id to a Locator (side, price, list iterator).                     *)
(*                                                                         *)
(* A Locator's iterator is abstracted to the node it was made for: it is   *)
(* valid exactly while the order of that id is linked into the level the   *)
(* Locator names (Resting), and dangling afterwards.                       *)
(***************************************************************************)
EXTENDS Integers, Sequences, SequencesExt

CONSTANTS OrderId,      \* every order id the run may see
          User,         \* user ids; 0 is the anonymous / system user
          MaxPrice      \* the largest price an order carries

ASSUME BookAssumption == /\ MaxPrice \in Nat \ {0}
                         /\ User \subseteq Nat
                         /\ 0 \in User

VARIABLES levels,       \* levels["Buy"] is bids_, levels["Sell"] is asks_
          index         \* index_: order id -> Locator without its iterator

bookVars == <<levels, index>>

Side == {"Buy", "Sell"}
OrderType == {"Limit", "Market"}

\* The prices a level can have: preflight_check lets no other price rest.
Price == 1..MaxPrice

Order == [id : OrderId, user_id : User, side : Side, price : Int,
          qty : Nat, type : OrderType]

Opposite(side) == IF side = "Buy" THEN "Sell" ELSE "Buy"

\* std::map: m[k] = v and m.erase(k).
Put(m, k, v) == [x \in DOMAIN m \cup {k} |-> IF x = k THEN v ELSE m[x]]
Erase(m, k)  == [x \in DOMAIN m \ {k} |-> m[x]]

-----------------------------------------------------------------------------
(* Reading the book.                                                       *)

\* Mutant: both maps sorted the same way.
BetterSameOrder(side, p, q) == p < q

\* The order of the keys: bids_ is sorted by std::greater, asks_ by std::less.
Better(side, p, q) == IF side = "Buy" THEN p > q ELSE p < q

\* best_bid / best_ask: the first key of the map, when there is one.
HasBest(side) == DOMAIN levels[side] # {}
Best(side) == CHOOSE p \in DOMAIN levels[side] :
                 \A q \in DOMAIN levels[side] : ~Better(side, q, p)

\* Every linked order.
RestingOrders == UNION {UNION {ToSet(levels[side][p]) : p \in DOMAIN levels[side]}
                          : side \in Side}

Resting(id) == \E o \in RestingOrders : o.id = id

\* The iterator of id's locator is valid: the order is still linked into the
\* level the locator names.
Valid(id) == LET loc == index[id]
             IN  /\ loc.price \in DOMAIN levels[loc.side]
                 /\ \E i \in DOMAIN levels[loc.side][loc.price] :
                      levels[loc.side][loc.price][i].id = id

-----------------------------------------------------------------------------
(* Changing the book. Every operator gives the new value of levels.        *)

\* Mutant: the level is replaced by the new order.
PushBackReplacing(o) == [levels EXCEPT ![o.side] = Put(@, o.price, <<o>>)]

\* Linking an order at the back of its level; m[price] creates the level.
PushBack(o) ==
  LET book  == levels[o.side]
      queue == IF o.price \in DOMAIN book THEN book[o.price] ELSE <<>>
  IN  [levels EXCEPT ![o.side] = Put(book, o.price, Append(queue, o))]

\* Mutant: the empty level stays in the map.
SetLevelNoCleanup(side, price, queue) ==
  [levels EXCEPT ![side] = Put(@, price, queue)]

\* Storing a level and erasing it when it became empty (cancel_order, and the
\* two cleanup_best_*_level_if_empty after a match).
SetLevel(side, price, queue) ==
  [levels EXCEPT ![side] = IF queue = <<>> THEN Erase(@, price)
                                           ELSE Put(@, price, queue)]

\* add_resting_order's early returns.
Addable(o) == o.qty > 0 /\ o.id \notin DOMAIN index

\* index_[o.id] = Locator{...}
Locate(o) == Put(index, o.id, [side |-> o.side, price |-> o.price])

\* add_resting_order without its notify_change, which MatchingEngine adds.
AddRestingOrder(o) ==
  /\ levels' = IF Addable(o) THEN PushBack(o) ELSE levels
  /\ index'  = IF Addable(o) THEN Locate(o) ELSE index

\* cancel_order through a valid iterator, order i of its level: unlink the
\* order, erase its locator.
Unlink(id, i) ==
  LET loc == index[id]
  IN  /\ levels' = SetLevel(loc.side, loc.price,
                            RemoveAt(levels[loc.side][loc.price], i))
      /\ index' = Erase(index, id)

\* cancel_order through a dangling iterator. When the level of the locator is
\* gone nothing is unlinked. Otherwise list::erase runs on freed pool memory:
\* its stale links may leave the level as it was, unlink an order that reused
\* the node, put the freed node back at the front, or empty the level.
Wreckage(queue, freed) ==
  {queue, <<freed>> \o queue, <<>>} \cup {RemoveAt(queue, i) : i \in DOMAIN queue}

UnlinkDangling(id, freed) ==
  LET loc == index[id]
  IN  /\ \/ /\ loc.price \notin DOMAIN levels[loc.side]
            /\ UNCHANGED levels
         \/ /\ loc.price \in DOMAIN levels[loc.side]
            /\ \E queue \in Wreckage(levels[loc.side][loc.price], freed) :
                 levels' = SetLevel(loc.side, loc.price, queue)
      /\ index' = Erase(index, id)

-----------------------------------------------------------------------------
(* What the code takes for granted of a book.                              *)

\* Every order of the level of side and price says so itself, has something
\* left, is where its index entry points, and is there once.
QueueOK(queue, side, price, ix) ==
  \A i \in DOMAIN queue :
    /\ queue[i].side = side
    /\ queue[i].price = price
    /\ queue[i].qty > 0
    /\ queue[i].id \in DOMAIN ix
    /\ ix[queue[i].id] = [side |-> side, price |-> price]
    /\ \A j \in DOMAIN queue : queue[i].id = queue[j].id => i = j

WellFormed(lv, ix) ==
  \A side \in Side : \A p \in DOMAIN lv[side] :
    lv[side][p] # <<>> /\ QueueOK(lv[side][p], side, p, ix)

\* No bid at or above an ask.
Uncrossed(lv) == \A b \in DOMAIN lv["Buy"], a \in DOMAIN lv["Sell"] : b < a

LevelsType(lv) ==
  /\ lv = [side \in Side |-> lv[side]]
  /\ \A side \in Side :
       /\ lv[side] = [p \in DOMAIN lv[side] |-> lv[side][p]]
       /\ DOMAIN lv[side] \subseteq Price
       /\ \A p \in DOMAIN lv[side] : lv[side][p] \in Seq(Order)

IndexType(ix) ==
  /\ ix = [id \in DOMAIN ix |-> ix[id]]
  /\ DOMAIN ix \subseteq OrderId
  /\ \A id \in DOMAIN ix : ix[id] \in [side : Side, price : Price]

\* Only orders of the system, user 0.
OfSystem(lv) ==
  \A side \in Side : \A p \in DOMAIN lv[side] :
    \A i \in DOMAIN lv[side][p] : lv[side][p][i].user_id = 0

\* A book seed_book may leave to the engine, with these ids.
Seeded(lv, ix, ids) ==
  /\ LevelsType(lv) /\ IndexType(ix)
  /\ WellFormed(lv, ix)
  /\ Uncrossed(lv)
  /\ DOMAIN ix \subseteq ids
  /\ OfSystem(lv)

=============================================================================
