----------------------------- MODULE DepthBook -----------------------------
(***************************************************************************)
(* What the exchange promises a trader, without orders, queues, loops or   *)
(* accounts: the book is a quantity per side and price, and an order takes *)
(* effect at once. It takes from the opposite side at eligible prices, the *)
(* better ones first, and exactly as much as it asks for and finds; what a *)
(* limit order has left rests at its price.                                *)
(*                                                                         *)
(* MatchingEngine implements this (DepthOfBook). MarketMaker and           *)
(* TradingBots see the book through its prices and depths only, and are    *)
(* modelled on top of it.                                                  *)
(***************************************************************************)
EXTENDS Integers, Sequences, FiniteSetsExt

CONSTANTS MaxPrice,     \* prices are 1..MaxPrice
          OrderQty      \* quantities of submitted orders

ASSUME DepthAssumption == MaxPrice \in Nat \ {0} /\ OrderQty \subseteq Nat \ {0}

VARIABLES depth,        \* side -> price -> quantity resting there
          broken        \* a dangling iterator was used: nothing is promised

depthVars == <<depth, broken>>

Sides == {"Buy", "Sell"}
Prices == 1..MaxPrice
Depths == [Sides -> [Prices -> Nat]]

Other(side) == IF side = "Buy" THEN "Sell" ELSE "Buy"

Submission == [side : Sides, type : {"Limit"}, price : Prices, qty : OrderQty]
                \cup [side : Sides, type : {"Market"}, price : {0}, qty : OrderQty]

-----------------------------------------------------------------------------
(* Reading a book d.                                                       *)

Occupied(d, side) == {p \in Prices : d[side][p] > 0}

\* best_bid and best_ask, of a side that is not empty.
BestBid(d) == Max(Occupied(d, "Buy"))
BestAsk(d) == Min(Occupied(d, "Sell"))

\* The quantity at the prices P of one side.
Volume(atPrice, P) == SumFunctionOnSet(atPrice, P)

\* bid_depth and ask_depth.
TotalDepth(d, side) == Volume(d[side], Prices)

-----------------------------------------------------------------------------
(* One order o on a book d.                                                *)

\* Prices of the opposite side at which o may trade.
Eligible(o) == IF o.type = "Market" THEN Prices
               ELSE {p \in Prices : IF o.side = "Buy" THEN p <= o.price ELSE p >= o.price}

\* Of these, the ones that come before p.
Before(o, p) == {q \in Eligible(o) : IF o.side = "Buy" THEN q < p ELSE q > p}

Least(a, b) == IF a < b THEN a ELSE b

\* What o takes at p: what the better prices have left of it, if there.
Taken(d, o, p) ==
  LET ahead == Volume(d[Other(o.side)], Before(o, p))
  IN  IF p \in Eligible(o) /\ o.qty > ahead THEN Least(d[Other(o.side)][p], o.qty - ahead) ELSE 0

\* What it does not find.
Rest(d, o) == LET found == Volume(d[Other(o.side)], Eligible(o))
              IN  IF o.qty > found THEN o.qty - found ELSE 0

\* preflight_check for the system user.
Refused(d, o) == \/ o.qty <= 0
                 \/ o.type = "Limit" /\ o.price <= 0
                 \/ o.type = "Market" /\ Occupied(d, Other(o.side)) = {}

Executed(d, o) ==
  [side \in Sides |-> [p \in Prices |->
     CASE side = Other(o.side) -> d[side][p] - Taken(d, o, p)
       [] side = o.side /\ o.type = "Limit" /\ p = o.price -> d[side][p] + Rest(d, o)
       [] OTHER -> d[side][p]]]

\* process_order on d.
Process(d, o) == IF Refused(d, o) THEN d ELSE Executed(d, o)

\* The orders of one critical section, two at most; d is the book in between.
ProcessAll(orders) ==
  \E os \in {orders} :
    \/ Len(os) = 0 /\ UNCHANGED depth
    \/ Len(os) = 1 /\ depth' = Process(depth, os[1])
    \/ Len(os) = 2 /\ \E d \in {Process(depth, os[1])} : depth' = Process(d, os[2])

-----------------------------------------------------------------------------

DepthInit == depth \in Depths /\ broken = FALSE

Submit(o) == ~broken /\ depth' = Executed(depth, o) /\ UNCHANGED broken

\* An order, or what is left of it, leaves the book.
Withdraw(side, p) ==
  /\ ~broken
  /\ \E left \in 0..(depth[side][p] - 1) : depth' = [depth EXCEPT ![side][p] = left]
  /\ UNCHANGED broken

Break == ~broken /\ broken' = TRUE /\ depth' \in Depths

DepthNext == \/ \E o \in Submission : Submit(o)
             \/ \E side \in Sides, p \in Prices : Withdraw(side, p)
             \/ Break

DepthSpec == DepthInit /\ [][DepthNext]_depthVars

=============================================================================
