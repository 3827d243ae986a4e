------------------------------ MODULE SeedBook ------------------------------
(***************************************************************************)
(* seed_book of core/src/sim/seed_book.cpp: the orders main rests on both  *)
(* sides of the book before any thread runs. What the random numbers       *)
(* decide is chosen here. The weights of the levels are abstracted to what *)
(* they share out: quantities that together are within                     *)
(* target_depth_per_side.                                                  *)
(***************************************************************************)
EXTENDS OrderBook

CONSTANTS MidPrice, Spread, LevelCount, TargetDepth,   \* the arguments
          MaxOrders                                    \* of one level, 6

VARIABLES next_id,
          side,         \* being seeded, or "done"
          level,        \* levels of this side begun, i + 1 in its loop
          budget,       \* what target_depth_per_side has left for the others
          price, remaining,
          orders        \* of this level still to come, orders - j

seedVars == <<bookVars, next_id, side, level, budget, price, remaining, orders>>

SeedInit ==
  /\ levels = [s \in Side |-> [p \in {} |-> <<>>]]
  /\ index = [id \in {} |-> <<>>]
  /\ next_id = 1
  /\ side = "Buy" /\ level = 0 /\ budget = TargetDepth
  /\ price = MidPrice /\ remaining = 0 /\ orders = 0

\* base_price: bids go down from best_bid, asks up from best_ask.
BasePrice(s, i) == IF s = "Buy" THEN MidPrice - Spread \div 2 - i
                                ELSE MidPrice + Spread \div 2 + i

\* The head of the loop over the levels. A level without quantity is skipped.
NextLevel ==
  /\ side # "done" /\ remaining = 0 /\ level < LevelCount
  /\ \E jitter \in {0, 1} : price' = BasePrice(side, level) + jitter
  /\ remaining' \in 0..budget
  /\ budget' = budget - remaining'
  /\ orders' \in 1..MaxOrders
  /\ level' = level + 1
  /\ UNCHANGED <<bookVars, next_id, side>>

\* An uneven split: up to 1.3 of an even share, at least 1, and in the end all.
Slices == IF orders = 1 THEN {remaining}
          ELSE {n \in 1..remaining : n = 1 \/ 10 * n * orders <= 13 * remaining}

NextOrder(slice) ==
  [id |-> next_id, user_id |-> 0, side |-> side, price |-> price, qty |-> slice, type |-> "Limit"]

Place ==
  /\ remaining > 0 /\ orders > 0
  /\ \E slice \in Slices : AddRestingOrder(NextOrder(slice)) /\ remaining' = remaining - slice
  /\ next_id' = next_id + 1
  /\ orders' = orders - 1
  /\ UNCHANGED <<side, level, budget, price>>

EndOfSide ==
  /\ side # "done" /\ remaining = 0 /\ level = LevelCount
  /\ side' = IF side = "Buy" THEN "Sell" ELSE "done"
  /\ level' = 0 /\ budget' = TargetDepth
  /\ UNCHANGED <<bookVars, next_id, price, remaining, orders>>

\* main goes on.
Return == side = "done" /\ UNCHANGED seedVars

SeedNext == NextLevel \/ Place \/ EndOfSide \/ Return

SeedSpec == SeedInit /\ [][SeedNext]_seedVars

-----------------------------------------------------------------------------
(* Correctness.                                                            *)

LastId == 2 * LevelCount * MaxOrders

\* What has to hold of the arguments; main's are 100, 2, 20, 2000. With a spread
\* below 2 both sides start at one price, and the jitter crosses the book.
GoodArguments ==
  /\ {MidPrice, Spread, LevelCount, TargetDepth, MaxOrders} \subseteq Nat
  /\ Spread >= 2 /\ MaxOrders >= 1
  /\ MidPrice - Spread \div 2 - LevelCount >= 0
  /\ MidPrice + Spread \div 2 + LevelCount <= MaxPrice
  /\ 1..LastId \subseteq OrderId

\* The book the engine starts with is well formed and not crossed, although every
\* level's price jitters and bids are seeded before asks; and its ids
\* end at LastId, 240 for main's arguments, while next_order_id begins at 1000.
SeedIsGood == side = "done" => Seeded(levels, index, 1..LastId)

=============================================================================

