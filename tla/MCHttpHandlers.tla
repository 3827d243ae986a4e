--------------------------- MODULE MCHttpHandlers ---------------------------
(* HttpHandlers on a small instance, and that several handlers at once      *)
(* implement DepthBook.                                                     *)
EXTENDS HttpHandlers, MCMatchingEngine, DepthOfBook

\* Two users and an anonymous client; 9 and 6 are prices beyond an int of 3
\* bits, which become 1 and -2.
LimitBody(side, price, qty, uid) ==
  [side |-> side, type |-> "Limit", price |-> price, qty |-> qty, user_id |-> uid]
MarketBody(side, qty, uid) ==
  [side |-> side, type |-> "Market", price |-> 0, qty |-> qty, user_id |-> uid]

SomeBodies == {LimitBody("Buy", 2, 2, 0), LimitBody("Buy", 1, 1, 2), LimitBody("Buy", 6, 1, 0),
               LimitBody("Sell", 3, 1, 1), LimitBody("Sell", 9, 2, 1),
               MarketBody("Buy", 3, 0), MarketBody("Sell", 2, 1)}

\* The prices that reach the engine.
SomePrices == {-2, 1, 2, 3}

\* A seeded order by an anonymous client and by a user, a new one by its owner,
\* by another user and by a client that says nothing.
SomeCancels == {[id |-> 1, user_id |-> 0], [id |-> 1, user_id |-> 1],
                [id |-> 3, user_id |-> 0], [id |-> 3, user_id |-> 1],
                [id |-> 4, user_id |-> 1], [id |-> 4, user_id |-> 2]}

=============================================================================
