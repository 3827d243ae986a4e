---------------------------- MODULE MarketMaker ----------------------------
(***************************************************************************)
(* What the two threads of core/src/market_maker/market_maker.cpp do to    *)
(* the book at each tick, among users who submit and cancel orders; the    *)
(* bots join them, and the specification is stated, in TradingBots. A tick *)
(* runs under book_mtx from the first look at the book to the last order,  *)
(* so it is one step. When its threads exist is in MakerThreads.           *)
(***************************************************************************)
EXTENDS DepthBook

CONSTANTS Anchor, Spread, MakerQty, TakerQty, TargetDepth, MinDepth,
                        \* the parameters of these names: anchor_px_, ...
          MaxDepth      \* bound: what users rest on one side

ASSUME MakerAssumption ==
  /\ Anchor \in Prices
  /\ Spread \in Nat \ {0, 1}
  /\ {MakerQty, TakerQty, TargetDepth, MinDepth, MaxDepth} \subseteq Nat \ {0}
  /\ TakerQty < MinDepth

Limit(side, price, qty) == [side |-> side, type |-> "Limit", price |-> price, qty |-> qty]
Market(side, qty) == [side |-> side, type |-> "Market", price |-> 0, qty |-> qty]

-----------------------------------------------------------------------------
(* run_maker.                                                              *)

Mid(d) ==
  CASE Occupied(d, "Buy") # {} /\ Occupied(d, "Sell") # {} -> (BestBid(d) + BestAsk(d)) \div 2
    [] Occupied(d, "Buy") # {} /\ Occupied(d, "Sell") = {} -> BestBid(d)
    [] Occupied(d, "Buy") = {} /\ Occupied(d, "Sell") # {} -> BestAsk(d)
    [] OTHER -> Anchor

\* bid_px and ask_px. The correction of an ask at or below the bid never
\* applies: Spread is at least 2.
BidQuote(d) == Mid(d) - Spread \div 2
AskQuote(d) == Mid(d) + Spread \div 2

LowerDepth(d) == Least(TotalDepth(d, "Buy"), TotalDepth(d, "Sell"))

\* Mutant: maker_qty_ whenever the target is not reached.
ToAddUncapped(d) == IF LowerDepth(d) < TargetDepth THEN MakerQty ELSE 0

\* to_add
ToAdd(d) == Least(MakerQty, TargetDepth - LowerDepth(d))

\* Mutant: only the lower side is topped up.
MakerOrdersOneSided(d) ==
  IF ToAdd(d) <= 0 THEN <<>>
  ELSE IF TotalDepth(d, "Buy") <= TotalDepth(d, "Sell") THEN <<Limit("Buy", BidQuote(d), ToAdd(d))>>
  ELSE <<Limit("Sell", AskQuote(d), ToAdd(d))>>

MakerOrders(d) == IF ToAdd(d) > 0 THEN <<Limit("Buy", BidQuote(d), ToAdd(d)),
                                         Limit("Sell", AskQuote(d), ToAdd(d))>>
                                  ELSE <<>>

\* Bounds: the ask stays within the prices; and when the bid would be at 0, every
\* tick adds an ask and no bid, for ever; not once a side has more than MaxDepth.
MakerTick ==
  /\ AskQuote(depth) <= MaxPrice
  /\ BidQuote(depth) > 0 \/ \A side \in Sides : TotalDepth(depth, side) <= MaxDepth
  /\ ProcessAll(MakerOrders(depth))
  /\ UNCHANGED broken

-----------------------------------------------------------------------------
(* run_taker.                                                              *)

\* Mutant: a market order whenever there is anything on both sides.
TakerTradesAny(d) == Occupied(d, "Buy") # {} /\ Occupied(d, "Sell") # {}

TakerTrades(d) == TotalDepth(d, "Buy") >= MinDepth /\ TotalDepth(d, "Sell") >= MinDepth

\* sell_into_bids
TakerSide(d) == IF TotalDepth(d, "Buy") >= TotalDepth(d, "Sell") THEN "Sell" ELSE "Buy"

TakerTick ==
  /\ TakerTrades(depth)
  /\ depth' = Process(depth, Market(TakerSide(depth), TakerQty))
  /\ UNCHANGED broken

-----------------------------------------------------------------------------

\* Bound on what users do: no side is left with more than MaxDepth, or it has
\* become smaller; and prices stay where the maker can quote above them.
InBounds == /\ \A side \in Sides : \/ TotalDepth(depth', side) <= MaxDepth
                                     \/ TotalDepth(depth', side) < TotalDepth(depth, side)
            /\ AskQuote(depth') <= MaxPrice

UserStep == /\ \/ \E o \in Submission : ~Refused(depth, o) /\ Submit(o)
               \/ \E side \in Sides, p \in Prices : Withdraw(side, p)
            /\ InBounds

\* The book is not empty on purpose, nor seeded: users can lead it anywhere.
MakerInit == depth = [side \in Sides |-> [p \in Prices |-> 0]] /\ broken = FALSE

MakerNext == MakerTick \/ TakerTick \/ UserStep

-----------------------------------------------------------------------------
(* Correctness.                                                            *)

TwoSided(d) == Occupied(d, "Buy") # {} /\ Occupied(d, "Sell") # {}

Imbalance(d) == TotalDepth(d, "Buy") - TotalDepth(d, "Sell")

Magnitude(n) == IF n < 0 THEN -n ELSE n

Growth(side) == TotalDepth(depth', side) - TotalDepth(depth, side)

\* Both sides receive the same addition each tick, unless the bid would be at a
\* price below 1, which the preflight refuses; it fills the side with less depth
\* up to the target and not beyond.
EqualAdditionAbovePriceOne ==
  [][MakerTick /\ BidQuote(depth) > 0 =>
       /\ Growth("Buy") = Growth("Sell")
       /\ Growth("Buy") > 0 => LowerDepth(depth') <= TargetDepth]_depthVars

\* run_taker restores balance: it finds all it asks for, empties no side, and
\* does not enlarge the difference between the sides by more than its own order
\* when they were even.
TakerRebalances ==
  [][TakerTick =>
       /\ TwoSided(depth')
       /\ Growth("Buy") + Growth("Sell") = -TakerQty
       /\ Magnitude(Imbalance(depth')) <=
            (IF Magnitude(Imbalance(depth)) > TakerQty THEN Magnitude(Imbalance(depth)) - TakerQty
                                                       ELSE TakerQty)]_depthVars

\* While the maker runs, a book that users have emptied becomes two-sided
\* again, unless somebody offers at price 1, below which there is no bid.
LiquidityReturns ==
  []<>(TwoSided(depth) \/ (Occupied(depth, "Sell") # {} /\ BestAsk(depth) = 1))

=============================================================================
