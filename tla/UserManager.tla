---------------------------- MODULE UserManager ----------------------------
(***************************************************************************)
(* Positions and reservations: core/src/user/user_manager.{hpp,cpp}. Every *)
(* operation runs under mtx_, so each is one indivisible update.           *)
(*                                                                         *)
(* positions_ creates a default Position for a user on first use and       *)
(* get_position answers a default one for an unknown user, so an absent    *)
(* user and a user with a default Position cannot be told apart: positions *)
(* is total over User. Any id may trade, drawn or not; next_user_id enters *)
(* a new Position whatever was there. How ids are drawn is in UserSessions.*)
(*                                                                         *)
(* The fields are long long and wrap around. Sums, differences and         *)
(* products commute with that, so they are kept as exact integers here,    *)
(* and Wrapped where the code compares one.                                *)
(***************************************************************************)
EXTENDS Integers, OrderBook

CONSTANTS InitBalance,  \* Position::balance of a new user
          InitShares,   \* Position::shares of a new user
          LongMax       \* the largest long long

ASSUME UserAssumption == {InitBalance, InitShares, LongMax} \subseteq Nat

VARIABLES order_to_user,   \* order_to_user_: order id -> user id
          positions,       \* positions_
          wiped            \* ids that were in use before next_user_id drew them

userVars == <<order_to_user, positions, wiped>>

\* What a signed integer whose largest value is max holds of n.
Wrapped(n, max) == ((n + max + 1) % (2 * max + 2)) - max - 1

Fits(n, max) == -max - 1 <= n /\ n <= max

Position == [balance : Int, reserved_balance : Int, shares : Int,
             reserved_shares : Int, net_qty : Int,
             total_buy_qty : Int, total_sell_qty : Int,
             total_buy_value : Int, total_sell_value : Int]

DefaultPosition ==
  [balance |-> InitBalance, reserved_balance |-> 0, shares |-> InitShares,
   reserved_shares |-> 0, net_qty |-> 0, total_buy_qty |-> 0,
   total_sell_qty |-> 0, total_buy_value |-> 0, total_sell_value |-> 0]

UserInit == /\ order_to_user = [id \in {} |-> 0]
            /\ positions = [u \in User |-> DefaultPosition]
            /\ wiped = {}

\* The critical section of next_user_id, for an id that has traded or reserved
\* something. For any other it changes nothing; and an id is drawn once.
NextUserId(u) ==
  /\ u # 0
  /\ u \notin wiped
  /\ positions[u] # DefaultPosition
  /\ positions' = [positions EXCEPT ![u] = DefaultPosition]
  /\ wiped' = wiped \cup {u}
  /\ UNCHANGED order_to_user

\* register_order
RegisterOrder(id, u) == order_to_user' = Put(order_to_user, id, u)

\* get_user_for_order, and on_fill's own lookups: 0 when the id is unknown.
UserOf(id) == IF id \in DOMAIN order_to_user THEN order_to_user[id] ELSE 0

-----------------------------------------------------------------------------
(* on_fill.                                                                *)

Bought(pos, value, qty) ==
  [pos EXCEPT !.balance = @ - value, !.shares = @ + qty, !.net_qty = @ + qty,
              !.total_buy_qty = @ + qty, !.total_buy_value = @ + value]

Sold(pos, value, qty) ==
  [pos EXCEPT !.balance = @ + value, !.shares = @ - qty, !.net_qty = @ - qty,
              !.total_sell_qty = @ + qty, !.total_sell_value = @ + value]

\* What a resting order of side, price and qty locks up: cash or shares.
Reserve(pos, side, price, qty) ==
  IF side = "Buy" THEN [pos EXCEPT !.reserved_balance = @ + price * qty]
                  ELSE [pos EXCEPT !.reserved_shares = @ + qty]

\* Mutant: releasing a sell order's cash value instead of its shares.
ReleaseValue(pos, side, price, qty) ==
  IF side = "Buy" THEN [pos EXCEPT !.reserved_balance = @ - price * qty]
                  ELSE [pos EXCEPT !.reserved_shares = @ - price * qty]

Release(pos, side, price, qty) ==
  IF side = "Buy" THEN [pos EXCEPT !.reserved_balance = @ - price * qty]
                  ELSE [pos EXCEPT !.reserved_shares = @ - qty]

Executed(pos, side, price, qty) ==
  IF side = "Buy" THEN Bought(pos, price * qty, qty) ELSE Sold(pos, price * qty, qty)

\* positions_ after the taker's side of a fill and then the maker's, which
\* also releases what the maker's order had locked up.
TakerFilled(pos, u, side, price, qty) ==
  [pos EXCEPT ![u] = Executed(@, side, price, qty)]
MakerFilled(pos, u, side, price, qty) ==
  [pos EXCEPT ![u] = Release(Executed(@, side, price, qty), side, price, qty)]

\* Mutant: both positions are read before either is written, so that a user
\* who trades with himself loses the taker's half.
FilledReadFirst(maker_id, taker_id, price, qty, taker_side) ==
  LET m == UserOf(maker_id)
  IN  [TakerFilled(positions, UserOf(taker_id), taker_side, price, qty)
         EXCEPT ![m] = MakerFilled(positions, m, Opposite(taker_side), price, qty)[m]]

Filled(maker_id, taker_id, price, qty, taker_side) ==
  MakerFilled(TakerFilled(positions, UserOf(taker_id), taker_side, price, qty),
              UserOf(maker_id), Opposite(taker_side), price, qty)

OnFill(maker_id, taker_id, price, qty, taker_side) ==
  positions' = Filled(maker_id, taker_id, price, qty, taker_side)

\* on_order_resting and on_cancel: nothing for an order that was never
\* registered (the seeded ones).
OnOrderResting(o) ==
  positions' = IF o.id \in DOMAIN order_to_user
               THEN [positions EXCEPT ![order_to_user[o.id]] =
                       Reserve(@, o.side, o.price, o.qty)]
               ELSE positions

OnCancel(id, o) ==
  positions' = IF id \in DOMAIN order_to_user
               THEN [positions EXCEPT ![order_to_user[id]] =
                       Release(@, o.side, o.price, o.qty)]
               ELSE positions

=============================================================================
