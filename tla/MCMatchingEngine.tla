------------------------- MODULE MCMatchingEngine -------------------------
(* Small instances of MatchingEngine.                                      *)
EXTENDS MatchingEngine

SeedOrder(id, side, price, qty) ==
  [id |-> id, user_id |-> 0, side |-> side, price |-> price, qty |-> qty,
   type |-> "Limit"]

CONSTANTS s1, s2

\* One order resting on each side, as seed_book leaves around its mid price.
OneEach == [side \in Side |-> IF side = "Buy"
                              THEN [p \in {1} |-> <<SeedOrder(s1, "Buy", 1, 1)>>]
                              ELSE [p \in {2} |-> <<SeedOrder(s2, "Sell", 2, 1)>>]]
OneEachIndex == [id \in {s1, s2} |-> IF id = s1 THEN [side |-> "Buy", price |-> 1]
                                                ELSE [side |-> "Sell", price |-> 2]]

AllIds == NewId \cup SeedId

\* Order ids are only compared for equality, and are drawn before book_mtx is
\* taken, so that they arrive in any order.
IdSymmetry == Permutations(NewId)

=============================================================================
