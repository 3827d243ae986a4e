---------------------------- MODULE TradingBots ----------------------------
(***************************************************************************)
(* The four bots of core/src/market_maker/trading_bots.cpp, next to the    *)
(* market maker's two threads and to users: each bot is a thread that      *)
(* looks at the best prices and sends its orders in one critical section   *)
(* of book_mtx, one step per tick. Every bot skips its tick when a side of *)
(* the book is empty.                                                      *)
(***************************************************************************)
EXTENDS MarketMaker

CONSTANTS Deviation,            \* mean reversion: THRESHOLD, in half ticks
          MinSpread,            \* sniper: MIN_SPREAD
          MaxOffset,            \* noise: offset_dist is -MaxOffset..MaxOffset
          BotQty                \* what a bot orders

ASSUME BotAssumption ==
  /\ {Deviation, BotQty} \subseteq Nat \ {0}
  /\ MinSpread \in Nat /\ MinSpread > 2
  /\ MaxOffset \in Nat

VARIABLE ema            \* run_mean_reversion's average in half ticks, 0: none yet

botVars == <<depthVars, ema>>

Larger(a, b) == IF a < b THEN b ELSE a

HalfTicks == BestBid(depth) + BestAsk(depth)

-----------------------------------------------------------------------------
(* run_momentum. What its window of mid prices says is left open: it is    *)
(* full or not, and the trend is up, down, or neither.                     *)

MomentumOrders == {<<>>, <<Limit("Buy", BestAsk(depth), BotQty)>>,
                         <<Limit("Sell", BestBid(depth), BotQty)>>}

MomentumTick ==
  /\ TwoSided(depth)
  /\ \E orders \in MomentumOrders : ProcessAll(orders)
  /\ InBounds
  /\ UNCHANGED <<broken, ema>>

-----------------------------------------------------------------------------
(* run_mean_reversion. The average moves from where it was towards the mid  *)
(* price; how far is left open, on a grid of half ticks.                   *)

Between(a, b) == Least(a, b)..Larger(a, b)

ReversionOrders(e) ==
  IF HalfTicks - e >= Deviation
  THEN <<Limit("Sell", Larger(e \div 2 + 1, BestBid(depth) + 1), BotQty)>>
  ELSE IF HalfTicks - e <= -Deviation
  THEN <<Limit("Buy", Larger(Least(e \div 2, BestAsk(depth) - 1), 1), BotQty)>>
  ELSE <<>>

ReversionTick ==
  /\ TwoSided(depth)
  /\ IF ema = 0
     THEN ema' = HalfTicks /\ UNCHANGED depth
     ELSE \E e \in Between(ema, HalfTicks) :
            ema' = e /\ ProcessAll(ReversionOrders(e))
  /\ InBounds
  /\ UNCHANGED broken

-----------------------------------------------------------------------------
(* run_noise.                                                              *)

Offset == -MaxOffset..MaxOffset

NoisePrice(offset) == Larger(1, HalfTicks \div 2 + offset)

NoiseTick ==
  /\ TwoSided(depth)
  /\ \E side \in Sides, offset \in Offset :
       /\ NoisePrice(offset) <= MaxPrice
       /\ depth' = Process(depth, Limit(side, NoisePrice(offset), BotQty))
  /\ InBounds
  /\ UNCHANGED <<broken, ema>>

-----------------------------------------------------------------------------
(* run_sniper.                                                             *)

\* Mutant: as the README has it, a buy below the best ask and a sell above the
\* best bid: the two meet.
SniperOrdersAsDocumented == <<Limit("Buy", BestAsk(depth) - 1, BotQty), Limit("Sell", BestBid(depth) + 1, BotQty)>>

\* Inside the spread. That inside_bid is below inside_ask follows from the
\* smallest spread.
SniperOrders == <<Limit("Buy", BestBid(depth) + 1, BotQty), Limit("Sell", BestAsk(depth) - 1, BotQty)>>

SpreadIsWide == TwoSided(depth) /\ BestAsk(depth) - BestBid(depth) >= MinSpread

SniperTick ==
  /\ SpreadIsWide
  /\ ProcessAll(SniperOrders)
  /\ InBounds
  /\ UNCHANGED <<broken, ema>>

-----------------------------------------------------------------------------

BotInit == MakerInit /\ ema = 0

BotNext == \/ MomentumTick \/ ReversionTick \/ NoiseTick \/ SniperTick
           \/ MakerNext /\ UNCHANGED ema

BotSpec == BotInit /\ [][BotNext]_botVars

\* The maker's loop ticks every 350 ms while it runs; no bot needs to run.
FairBotSpec == BotSpec /\ WF_botVars(MakerTick /\ UNCHANGED ema)

-----------------------------------------------------------------------------
(* Correctness.                                                            *)

\* What the market maker, the mean reversion bot and the sniper would send now.
Quotes ==
  {MakerOrders(depth)}
    \cup (IF TwoSided(depth) /\ ema > 0 THEN {ReversionOrders(e) : e \in Between(ema, HalfTicks)}
                                        ELSE {})
    \cup (IF SpreadIsWide THEN {SniperOrders} ELSE {})

\* These three provide liquidity and never take it: quotes from a rounded mid
\* price, with one side possibly missing, from the smallest spread, or from an
\* average that lags far behind a book that has moved, trade neither with the
\* book nor with each other.
ProvidersOnlyAdd ==
  \A orders \in Quotes : \A i \in DOMAIN orders : \A p \in Eligible(orders[i]) :
    \/ Refused(depth, orders[i])
    \/ /\ depth[Other(orders[i].side)][p] = 0
       /\ \A j \in 1..(i - 1) : orders[j].side = orders[i].side \/ orders[j].price # p

=============================================================================
