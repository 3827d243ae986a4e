---------------------------- MODULE DepthOfBook ----------------------------
(* The book of MatchingEngine, seen as DepthBook sees it.                  *)
EXTENDS MatchingEngine

OrdersAt(side, p) == IF p \in DOMAIN levels[side] THEN ToSet(levels[side][p]) ELSE {}

\* What rests at a price: its orders, and what an order that is still in the
\* matching loop has already taken from them. So an order takes effect when its
\* loop has ended (Rest, Complete), and the fills before are no steps of DepthBook.
RestingQty(side, p) ==
  SumFunction([o \in OrdersAt(side, p) |-> o.qty])
  + (IF pc = "match" /\ side = Opposite(taker.side)
     THEN SumFunction([i \in DOMAIN trades |-> IF trades[i].price = p THEN trades[i].qty ELSE 0])
     ELSE 0)

Depth == [side \in Side |-> [p \in Price |-> RestingQty(side, p)]]

Abstract == INSTANCE DepthBook WITH OrderQty <- ReqQty \ {0}, depth <- Depth, broken <- ub

\* Whatever the threads do at the same time, every order executes as if at once:
\* it takes what is there at the prices it accepts, best first, no more and no
\* less than it asks for, and only a limit order leaves something behind
\* (process_order under book_mtx); a cancellation takes away something that
\* rested and nothing else (cancel_order).
ImplementsDepthBook == Abstract!DepthSpec

=============================================================================
