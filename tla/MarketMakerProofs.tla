-------------------------- MODULE MarketMakerProofs --------------------------
(***************************************************************************)
(* Proofs about the market maker and the bots: what their ticks do to the  *)
(* book (MarketMaker, TradingBots, and what DepthBook says of an order),   *)
(* for any prices, spread, targets and quantities; and starting and        *)
(* stopping (MakerThreads), for any number of HTTP workers whose toggles   *)
(* do not overlap. That two which do can end the process is a run of TLC.  *)
(***************************************************************************)
EXTENDS MakerThreads, TradingBots, FoldProofs

-----------------------------------------------------------------------------
(* One order on a book (DepthBook).                                        *)

\* An order whose price, if it has one, need not be within the prices.
Order(o) ==
  /\ o.side \in Sides /\ o.qty \in Nat
  /\ \/ o.type = "Limit" /\ o.price \in Int
     \/ o.type = "Market"

\* Every bid is below every ask.
Apart(d) == \A p, q \in Prices : d["Buy"][p] > 0 /\ d["Sell"][q] > 0 => p < q

LEMMA PricesFinite == IsFiniteSet(Prices) /\ Prices \subseteq Nat \ {0}
<1>1. MaxPrice \in Int /\ 1 \in Int
  BY DepthAssumption
<1> QED
  BY <1>1, FS_Interval DEF Prices

LEMMA VolumeNat ==
  ASSUME NEW f \in [Prices -> Nat], NEW P \in SUBSET Prices
  PROVE  Volume(f, P) \in Nat
<1>1. IsFiniteSet(P) /\ \A p \in P : f[p] \in Nat
  BY PricesFinite, FS_Subset
<1> QED
  BY <1>1, SumNat DEF Volume

LEMMA VolumeAdd ==
  ASSUME NEW f \in [Prices -> Nat], NEW P \in SUBSET Prices, NEW p \in Prices \ P
  PROVE  Volume(f, P \cup {p}) = f[p] + Volume(f, P)
<1>1. IsFiniteSet(P) /\ P \cup {p} \in SUBSET Prices
  BY PricesFinite, FS_Subset
<1>2. \A q \in P \cup {p} : f[q] \in Int
  BY <1>1
<1>3. p \notin P
  OBVIOUS
<1>4. SumFunctionOnSet(f, P \cup {p}) = f[p] + SumFunctionOnSet(f, P)
  BY <1>1, <1>2, <1>3, SumInsert
<1> QED
  BY <1>4 DEF Volume

LEMMA VolumeBelow ==
  ASSUME NEW f \in [Prices -> Nat], NEW P \in SUBSET Prices, NEW Q \in SUBSET P
  PROVE  Volume(f, Q) <= Volume(f, P)
<1>1. IsFiniteSet(P) /\ \A q \in P : f[q] \in Nat
  BY PricesFinite, FS_Subset
<1>2. \A q \in Q : f[q] \in Nat /\ f[q] <= f[q]
  BY <1>1
<1>3. SumFunctionOnSet(f, Q) <= SumFunctionOnSet(f, P)
  BY <1>1, <1>2, SumBelow
<1> QED
  BY <1>3 DEF Volume

\* The sides and prices an order may meet.
LEMMA EligibleOK ==
  ASSUME NEW o, Order(o)
  PROVE  /\ Other(o.side) \in Sides /\ Other(o.side) # o.side
         /\ Eligible(o) \in SUBSET Prices
         /\ \A p \in Prices : Before(o, p) \in SUBSET Eligible(o) /\ p \notin Before(o, p)
<1>1. Other(o.side) \in Sides /\ Other(o.side) # o.side
  BY DEF Order, Other, Sides
<1>2. Eligible(o) \in SUBSET Prices
  BY DEF Eligible
<1>3. \A p \in Prices : ~(p < p) /\ ~(p > p)
  BY PricesFinite
<1>4. \A p \in Prices : Before(o, p) \in SUBSET Eligible(o) /\ p \notin Before(o, p)
  BY <1>3 DEF Before
<1> QED
  BY <1>1, <1>2, <1>4

\* An order takes what there is at most.
LEMMA TakenType ==
  ASSUME NEW d \in Depths, NEW o, Order(o), NEW p \in Prices
  PROVE  Taken(d, o, p) \in 0..d[Other(o.side)][p]
<1> DEFINE f == d[Other(o.side)]
           ahead == Volume(f, Before(o, p))
<1>1. f \in [Prices -> Nat] /\ f[p] \in Nat /\ o.qty \in Nat
  BY EligibleOK DEF Depths, Order
<1>2. ahead \in Nat
  BY <1>1, EligibleOK, VolumeNat
<1> HIDE DEF ahead, f
<1>3. Taken(d, o, p) = IF p \in Eligible(o) /\ o.qty > ahead THEN Least(f[p], o.qty - ahead) ELSE 0
  BY DEF Taken, ahead, f
<1>4. Taken(d, o, p) \in 0..f[p]
  BY <1>1, <1>2, <1>3 DEF Least
<1> QED
  BY <1>4 DEF f

LEMMA RestType ==
  ASSUME NEW d \in Depths, NEW o, Order(o)
  PROVE  Rest(d, o) \in Nat
<1> DEFINE found == Volume(d[Other(o.side)], Eligible(o))
<1>1. found \in Nat /\ o.qty \in Nat
  BY EligibleOK, VolumeNat DEF Depths, Order
<1> HIDE DEF found
<1>2. Rest(d, o) = IF o.qty > found THEN o.qty - found ELSE 0
  BY DEF Rest, found
<1> QED
  BY <1>1, <1>2

\* What it leaves behind it has not found elsewhere: where it could trade,
\* nothing is left.
LEMMA RestFindsNothing ==
  ASSUME NEW d \in Depths, NEW o, Order(o), Rest(d, o) > 0, NEW p \in Eligible(o)
  PROVE  Taken(d, o, p) = d[Other(o.side)][p]
<1> DEFINE f == d[Other(o.side)]
           ahead == Volume(f, Before(o, p))
           found == Volume(f, Eligible(o))
<1>1. f \in [Prices -> Nat] /\ p \in Prices /\ f[p] \in Nat /\ o.qty \in Nat
  BY EligibleOK DEF Depths, Order
<1>2. Before(o, p) \in SUBSET Prices /\ p \in Prices \ Before(o, p)
  BY <1>1, EligibleOK
<1>3. Volume(f, Before(o, p) \cup {p}) = f[p] + ahead
  BY <1>1, <1>2, VolumeAdd
<1>4. Before(o, p) \cup {p} \in SUBSET Eligible(o) /\ Eligible(o) \in SUBSET Prices
  BY EligibleOK
<1>5. f[p] + ahead <= found
  BY <1>1, <1>3, <1>4, VolumeBelow
<1>6. ahead \in Nat /\ found \in Nat
  BY <1>1, <1>2, <1>4, VolumeNat
<1> HIDE DEF ahead, found, f
<1>7. o.qty > found
  BY <1>1, <1>6 DEF Rest, found, f
<1>8. Taken(d, o, p) = IF o.qty > ahead THEN Least(f[p], o.qty - ahead) ELSE 0
  BY DEF Taken, ahead, f
<1>9. Taken(d, o, p) = f[p]
  BY <1>1, <1>5, <1>6, <1>7, <1>8 DEF Least
<1> QED
  BY <1>9 DEF f

\* The book after an order, side by side.
LEMMA ExecutedIs ==
  ASSUME NEW d \in Depths, NEW o, Order(o)
  PROVE  /\ Executed(d, o) \in Depths
         /\ \A p \in Prices : Executed(d, o)[Other(o.side)][p]
                               = d[Other(o.side)][p] - Taken(d, o, p)
         /\ \A p \in Prices : Executed(d, o)[o.side][p]
              = IF o.type = "Limit" /\ p = o.price THEN d[o.side][p] + Rest(d, o)
                                                   ELSE d[o.side][p]
<1> DEFINE e == Executed(d, o)
           opp == Other(o.side)
<1>1. opp \in Sides /\ o.side \in Sides /\ opp # o.side /\ Sides = {opp, o.side}
  BY EligibleOK DEF Order, Sides
<1>2. \A p \in Prices : d[opp][p] \in Nat /\ d[o.side][p] \in Nat
  BY <1>1 DEF Depths
<1>3. \A p \in Prices : d[opp][p] - Taken(d, o, p) \in Nat
  BY <1>2, TakenType
<1>4. Rest(d, o) \in Nat
  BY RestType
<1>5. \A p \in Prices : e[opp][p] = d[opp][p] - Taken(d, o, p)
  BY <1>1 DEF Executed
<1>6. \A p \in Prices : e[o.side][p] = IF o.type = "Limit" /\ p = o.price
                                       THEN d[o.side][p] + Rest(d, o) ELSE d[o.side][p]
  BY <1>1 DEF Executed
<1>7. \A p \in Prices : e[opp][p] \in Nat /\ e[o.side][p] \in Nat
  BY <1>2, <1>3, <1>4, <1>5, <1>6
<1>8. e = [s \in Sides |-> [p \in Prices |-> e[s][p]]]
  BY DEF Executed
<1> HIDE DEF e, opp
<1>9. e \in Depths
  BY <1>1, <1>7, <1>8 DEF Depths
<1> QED
  BY <1>5, <1>6, <1>9 DEF e, opp

\* Executing an order never leaves the book crossed.
LEMMA ExecutedApart ==
  ASSUME NEW d \in Depths, Apart(d), NEW o, Order(o)
  PROVE  Apart(Executed(d, o))
<1> DEFINE e == Executed(d, o)
           opp == Other(o.side)
<1>1. \A p \in Prices : d[opp][p] \in Nat /\ d[o.side][p] \in Nat /\ Taken(d, o, p) \in Nat
                       /\ e[opp][p] = d[opp][p] - Taken(d, o, p)
  BY ExecutedIs, TakenType, EligibleOK DEF Depths, Order
<1>2. \A p \in Prices : e[opp][p] > 0 => d[opp][p] > 0
  BY <1>1
<1>3. \A p \in Prices : e[o.side][p] > 0 =>
        \/ d[o.side][p] > 0
        \/ o.type = "Limit" /\ p = o.price /\ Rest(d, o) > 0
  BY <1>1, ExecutedIs, RestType
<1>4. ASSUME Rest(d, o) > 0, NEW p \in Eligible(o) PROVE ~(e[opp][p] > 0)
  BY <1>1, <1>4, EligibleOK, RestFindsNothing
<1>5. ASSUME o.type = "Limit", NEW q \in Prices, q \notin Eligible(o)
      PROVE  o.side = "Buy" => o.price < q
  BY <1>5, PricesFinite DEF Eligible, Order
<1>6. ASSUME o.type = "Limit", NEW q \in Prices, q \notin Eligible(o)
      PROVE  o.side = "Sell" => q < o.price
  BY <1>6, PricesFinite DEF Eligible, Order
<1>7. ASSUME o.side = "Buy", NEW p \in Prices, NEW q \in Prices,
             e["Buy"][p] > 0, e["Sell"][q] > 0
      PROVE  p < q
  <2>1. opp = "Sell"
    BY <1>7 DEF Other
  <2> HIDE DEF e, opp
  <2>2. d["Sell"][q] > 0
    BY <1>2, <1>7, <2>1
  <2>3. \/ d["Buy"][p] > 0
        \/ o.type = "Limit" /\ p = o.price /\ Rest(d, o) > 0
    BY <1>3, <1>7
  <2>4. CASE d["Buy"][p] > 0
    BY <2>2, <2>4 DEF Apart
  <2>5. CASE o.type = "Limit" /\ p = o.price /\ Rest(d, o) > 0
    BY <1>4, <1>5, <1>7, <2>1, <2>5
  <2> QED
    BY <2>3, <2>4, <2>5
<1>8. ASSUME o.side = "Sell", NEW p \in Prices, NEW q \in Prices,
             e["Buy"][p] > 0, e["Sell"][q] > 0
      PROVE  p < q
  <2>1. opp = "Buy"
    BY <1>8 DEF Other
  <2> HIDE DEF e, opp
  <2>2. d["Buy"][p] > 0
    BY <1>2, <1>8, <2>1
  <2>3. \/ d["Sell"][q] > 0
        \/ o.type = "Limit" /\ q = o.price /\ Rest(d, o) > 0
    BY <1>3, <1>8
  <2>4. CASE d["Sell"][q] > 0
    BY <2>2, <2>4 DEF Apart
  <2>5. CASE o.type = "Limit" /\ q = o.price /\ Rest(d, o) > 0
    BY <1>4, <1>6, <1>8, <2>1, <2>5
  <2> QED
    BY <2>3, <2>4, <2>5
<1> QED
  BY <1>7, <1>8 DEF Apart, Order, Sides

LEMMA ProcessOK ==
  ASSUME NEW d \in Depths, Apart(d), NEW o, Order(o)
  PROVE  Process(d, o) \in Depths /\ Apart(Process(d, o))
BY ExecutedIs, ExecutedApart DEF Process

\* Of the prices it may trade at, in the order it comes to them, an order leaves
\* as much as it asks for less than there is: it takes all it asks for and finds.
LEMMA TakesWhatItFinds ==
  ASSUME NEW d \in Depths, NEW o, Order(o)
  PROVE  LET opp == Other(o.side)
             found == Volume(d[opp], Eligible(o))
         IN  Volume(Executed(d, o)[opp], Eligible(o)) = found - Least(o.qty, found)
<1> DEFINE f == d[Other(o.side)]
           e == Executed(d, o)[Other(o.side)]
           Claim(S) == Volume(e, S) = Volume(f, S) - Least(o.qty, Volume(f, S))
           B == {S \in SUBSET Eligible(o) : /\ \A p \in S : Before(o, p) \subseteq S
                                           /\ ~Claim(S)}
<1>1. f \in [Prices -> Nat] /\ e \in [Prices -> Nat] /\ o.qty \in Nat /\ Eligible(o) \in SUBSET Prices
  BY ExecutedIs, EligibleOK DEF Depths, Order
<1>2. \A p \in Prices : e[p] = f[p] - Taken(d, o, p)
  BY ExecutedIs
<1>3. \A p \in Prices : Taken(d, o, p)
        = IF p \in Eligible(o) /\ o.qty > Volume(f, Before(o, p))
          THEN Least(f[p], o.qty - Volume(f, Before(o, p))) ELSE 0
  BY DEF Taken
<1>4. \A S \in SUBSET Prices : Volume(e, S) \in Nat /\ Volume(f, S) \in Nat
  BY <1>1, VolumeNat
<1> HIDE DEF e, f
<1>5. ASSUME B # {} PROVE FALSE
  <2>1. PICK S \in B : \A T \in B : T \subseteq S => T = S
    <3>1. B \in SUBSET SUBSET Prices /\ IsFiniteSet(Prices) /\ B # {}
      BY <1>1, <1>5, PricesFinite
    <3> HIDE DEF B
    <3> QED
      BY <3>1, SmallestSet
  <2>2. S \in SUBSET Eligible(o) /\ S \in SUBSET Prices /\ ~Claim(S)
        /\ \A p \in S : Before(o, p) \subseteq S
    BY <1>1
  <2>3. S # {}
    <3>1. Volume(e, {}) = 0 /\ Volume(f, {}) = 0
      BY FS_EmptySet, SumUnfolds DEF Volume
    <3> QED
      BY <1>1, <2>2, <3>1 DEF Least
  <2>4. PICK m \in S : \A q \in S \ {m} : IF o.side = "Buy" THEN q < m ELSE q > m
    <3>1. /\ \E x \in S : \A y \in S : x <= y
          /\ \E x \in S : \A y \in S : y <= x
      BY <2>2, <2>3, DepthAssumption, IntervalExtremes DEF Prices
    <3>2. S \subseteq Nat
      BY <2>2, PricesFinite
    <3>3. CASE o.side = "Buy"
      <4>1. PICK x \in S : \A y \in S : y <= x
        BY <3>1
      <4>2. \A y \in S \ {x} : y < x
        BY <3>2, <4>1
      <4> QED
        BY <3>3, <4>2
    <3>4. CASE o.side # "Buy"
      <4>1. PICK x \in S : \A y \in S : x <= y
        BY <3>1
      <4>2. \A y \in S \ {x} : y > x
        BY <3>2, <4>1
      <4> QED
        BY <3>4, <4>2
    <3> QED
      BY <3>3, <3>4
  <2> DEFINE R == S \ {m}
  <2>5. Before(o, m) = R
    <3>1. R \subseteq Before(o, m)
      BY <2>2, <2>4 DEF Before
    <3>2. m \in Prices
      BY <2>2
    <3> QED
      BY <2>2, <3>1, <3>2, EligibleOK
  <2>6. R \in SUBSET Prices /\ m \in Prices \ R /\ R \cup {m} = S /\ R # S
    BY <2>2
  <2>7. R \in SUBSET Eligible(o) /\ \A p \in R : Before(o, p) \subseteq R
    <3>1. ASSUME NEW p \in R PROVE m \notin Before(o, p)
      <4>1. p \in Nat /\ m \in Nat
        BY <2>2, PricesFinite
      <4> QED
        BY <2>4, <4>1 DEF Before
    <3> QED
      BY <2>2, <3>1
  <2>8. Claim(R)
    <3>1. R \notin B
      <4> HIDE DEF B
      <4> QED
        BY <2>1, <2>6
    <3> QED
      BY <2>7, <3>1
  <2>9. Volume(e, S) = e[m] + Volume(e, R) /\ Volume(f, S) = f[m] + Volume(f, R)
    BY <1>1, <2>6, VolumeAdd
  <2>10. e[m] = f[m] - (IF o.qty > Volume(f, R) THEN Least(f[m], o.qty - Volume(f, R)) ELSE 0)
    BY <1>2, <1>3, <2>2, <2>5
  <2>11. /\ e[m] \in Nat /\ f[m] \in Nat
         /\ Volume(e, R) \in Nat /\ Volume(f, R) \in Nat
    BY <1>1, <1>4, <2>2, <2>6
  <2> QED
    BY <1>1, <2>2, <2>8, <2>9, <2>10, <2>11 DEF Least
<1>6. \A p \in Eligible(o) : Before(o, p) \subseteq Eligible(o)
  BY DEF Before
<1>7. Claim(Eligible(o))
  BY <1>5, <1>6
<1> QED
  BY <1>7 DEF e, f

\* A limit order that finds nothing rests: its side grows by it.
LEMMA PassiveAdds ==
  ASSUME NEW d \in Depths, NEW o, Order(o), o.type = "Limit", o.price \in Prices, o.qty > 0,
         \A p \in Eligible(o) : d[Other(o.side)][p] = 0
  PROVE  /\ \A p \in Prices : Process(d, o)[Other(o.side)][p] = d[Other(o.side)][p]
         /\ \A p \in Prices : Process(d, o)[o.side][p]
              = IF p = o.price THEN d[o.side][p] + o.qty ELSE d[o.side][p]
         /\ TotalDepth(Process(d, o), o.side) = TotalDepth(d, o.side) + o.qty
         /\ TotalDepth(Process(d, o), Other(o.side)) = TotalDepth(d, Other(o.side))
<1> DEFINE e == Executed(d, o)
           opp == Other(o.side)
<1>1. Process(d, o) = e
  BY PricesFinite DEF Process, Refused, Order
<1>2. e \in Depths /\ opp \in Sides /\ o.side \in Sides /\ o.qty \in Nat
  BY ExecutedIs, EligibleOK DEF Order
<1>3. Rest(d, o) = o.qty
  <2>1. IsFiniteSet(Eligible(o))
    BY PricesFinite, EligibleOK, FS_Subset
  <2>2. Volume(d[opp], Eligible(o)) = 0
    BY <2>1, SumZero DEF Volume
  <2> QED
    BY <1>2, <2>2 DEF Rest
<1>4. \A p \in Prices : Taken(d, o, p) = 0
  <2>1. \A p \in Prices : Taken(d, o, p) \in 0..d[opp][p]
    BY TakenType
  <2>2. \A p \in Prices \ Eligible(o) : Taken(d, o, p) = 0
    BY DEF Taken
  <2>3. \A p \in Prices \cap Eligible(o) : Taken(d, o, p) = 0
    BY <2>1
  <2> QED
    BY <2>2, <2>3
<1>5. \A p \in Prices : d[opp][p] \in Nat /\ d[o.side][p] \in Nat
                       /\ e[opp][p] \in Nat /\ e[o.side][p] \in Nat
  BY <1>2 DEF Depths
<1>6. \A p \in Prices : e[opp][p] = d[opp][p]
  BY <1>4, <1>5, ExecutedIs
<1>7. \A p \in Prices : e[o.side][p] = IF p = o.price THEN d[o.side][p] + o.qty ELSE d[o.side][p]
  BY <1>3, ExecutedIs
<1> HIDE DEF e, opp
<1>8. Volume(e[opp], Prices) = Volume(d[opp], Prices)
  BY <1>6, PricesFinite, SumAgrees DEF Volume
<1>9. Volume(e[o.side], Prices)
        = Volume(d[o.side], Prices) + (e[o.side][o.price] - d[o.side][o.price])
  <2> DEFINE f == d[o.side]
             g == e[o.side]
  <2>1. /\ \A p \in Prices : f[p] \in Int /\ g[p] \in Int
        /\ \A p \in Prices \ {o.price} : g[p] = f[p]
    BY <1>5, <1>7
  <2> HIDE DEF f, g
  <2>2. IsFiniteSet(Prices)
    BY PricesFinite
  <2>3. SumFunctionOnSet(g, Prices) = SumFunctionOnSet(f, Prices) + (g[o.price] - f[o.price])
    BY <2>1, <2>2, SumUpdate
  <2> QED
    BY <2>3 DEF Volume, f, g
<1>10. e[o.side][o.price] - d[o.side][o.price] = o.qty
  BY <1>2, <1>5, <1>7
<1> QED
  BY <1>1, <1>6, <1>7, <1>8, <1>9, <1>10 DEF TotalDepth, e, opp

-----------------------------------------------------------------------------
(* Quotes (MarketMaker and TradingBots).                                   *)

\* best_bid and best_ask are the best prices there are.
LEMMA BestPrices ==
  ASSUME NEW d \in Depths
  PROVE  /\ Occupied(d, "Buy") # {} =>
              /\ BestBid(d) \in Prices /\ d["Buy"][BestBid(d)] > 0
              /\ \A p \in Prices : d["Buy"][p] > 0 => p <= BestBid(d)
         /\ Occupied(d, "Sell") # {} =>
              /\ BestAsk(d) \in Prices /\ d["Sell"][BestAsk(d)] > 0
              /\ \A p \in Prices : d["Sell"][p] > 0 => BestAsk(d) <= p
<1>1. \A T \in SUBSET Prices : T # {} =>
        /\ \E x \in T : \A y \in T : x <= y
        /\ \E x \in T : \A y \in T : x >= y
  <2>1. ASSUME NEW T \in SUBSET Prices, T # {}
        PROVE  /\ \E x \in T : \A y \in T : x <= y
               /\ \E x \in T : \A y \in T : y <= x
    BY <2>1, DepthAssumption, IntervalExtremes DEF Prices
  <2>2. \A x, y \in Prices : x >= y <=> y <= x
    BY PricesFinite
  <2> QED
    BY <2>1, <2>2
<1>2. Occupied(d, "Buy") \in SUBSET Prices /\ Occupied(d, "Sell") \in SUBSET Prices
  BY DEF Occupied
<1>3. ASSUME Occupied(d, "Buy") # {}
      PROVE  /\ BestBid(d) \in Occupied(d, "Buy")
             /\ \A y \in Occupied(d, "Buy") : BestBid(d) >= y
  BY <1>1, <1>2, <1>3 DEF BestBid, Max
<1>4. ASSUME Occupied(d, "Sell") # {}
      PROVE  /\ BestAsk(d) \in Occupied(d, "Sell")
             /\ \A y \in Occupied(d, "Sell") : BestAsk(d) <= y
  BY <1>1, <1>2, <1>4 DEF BestAsk, Min
<1>5. \A x, y \in Prices : x >= y <=> y <= x
  BY PricesFinite
<1> QED
  BY <1>3, <1>4, <1>5 DEF Occupied

\* The quotes of the maker lie on both sides of its mid price and meet neither
\* each other nor the book.
LEMMA QuotesPassive ==
  ASSUME NEW d \in Depths, Apart(d)
  PROVE  /\ BidQuote(d) \in Int /\ AskQuote(d) \in Int /\ BidQuote(d) < AskQuote(d)
         /\ \A p \in Prices : d["Buy"][p] > 0 => p < AskQuote(d)
         /\ \A p \in Prices : d["Sell"][p] > 0 => BidQuote(d) < p
<1> DEFINE bb == BestBid(d)
           ba == BestAsk(d)
           h == Spread \div 2
           NoBid == Occupied(d, "Buy") = {}
           NoAsk == Occupied(d, "Sell") = {}
<1>1. h \in Nat /\ h >= 1
  BY MakerAssumption
<1>2. ~NoBid => bb \in Nat /\ d["Buy"][bb] > 0 /\ \A p \in Prices : d["Buy"][p] > 0 => p <= bb
  BY BestPrices, PricesFinite
<1>3. ~NoAsk => ba \in Nat /\ d["Sell"][ba] > 0 /\ \A p \in Prices : d["Sell"][p] > 0 => ba <= p
  BY BestPrices, PricesFinite
<1>4. ~NoBid /\ ~NoAsk => bb < ba
  BY BestPrices DEF Apart
<1>5. /\ NoBid => \A p \in Prices : ~(d["Buy"][p] > 0)
      /\ NoAsk => \A p \in Prices : ~(d["Sell"][p] > 0)
  BY DEF Occupied
<1>6. Mid(d) = IF ~NoBid /\ ~NoAsk THEN (bb + ba) \div 2
               ELSE IF ~NoBid THEN bb ELSE IF ~NoAsk THEN ba ELSE Anchor
  BY DEF Mid
<1>7. BidQuote(d) = Mid(d) - h /\ AskQuote(d) = Mid(d) + h
  BY DEF BidQuote, AskQuote
<1>8. Anchor \in Nat
  BY MakerAssumption, PricesFinite
<1> HIDE DEF bb, ba, h, NoBid, NoAsk
<1>9. /\ Mid(d) \in Nat
      /\ ~NoBid => bb <= Mid(d)
      /\ ~NoAsk => Mid(d) <= ba
  BY <1>2, <1>3, <1>4, <1>6, <1>8
<1>10. \A p \in Prices : p \in Nat
  BY PricesFinite
<1> QED
  BY <1>1, <1>2, <1>3, <1>5, <1>7, <1>9, <1>10

LEMMA LowerDepthNat ==
  ASSUME NEW d \in Depths
  PROVE  /\ TotalDepth(d, "Buy") \in Nat /\ TotalDepth(d, "Sell") \in Nat
         /\ LowerDepth(d) \in Nat /\ ToAdd(d) \in Int
<1>1. d["Buy"] \in [Prices -> Nat] /\ d["Sell"] \in [Prices -> Nat]
  BY DEF Depths, Sides
<1>2. TotalDepth(d, "Buy") \in Nat /\ TotalDepth(d, "Sell") \in Nat
  BY <1>1, VolumeNat DEF TotalDepth
<1>3. LowerDepth(d) \in Nat
  BY <1>2 DEF LowerDepth, Least
<1>4. ToAdd(d) \in Int
  BY <1>3, MakerAssumption DEF ToAdd, Least
<1> QED
  BY <1>2, <1>3, <1>4

\* Types of the book and the average, and what no tick undoes: bids are below asks.
BotInv == depth \in Depths /\ Apart(depth) /\ ema \in Nat

\* What one tick sends.
Batch(orders) == /\ orders = <<>> \/ (\E o : orders = <<o>>) \/ \E o, q : orders = <<o, q>>
                 /\ \A i \in DOMAIN orders : Order(orders[i])

LEMMA ProcessAllOK ==
  ASSUME depth \in Depths, Apart(depth), NEW orders, Batch(orders), ProcessAll(orders)
  PROVE  depth' \in Depths /\ Apart(depth')
<1>1. CASE orders = <<>>
  <2>1. Len(orders) = 0
    BY <1>1
  <2>2. depth' = depth
    BY <2>1 DEF ProcessAll
  <2> QED
    BY <2>2
<1>2. CASE \E o : orders = <<o>>
  <2>1. PICK o : orders = <<o>>
    BY <1>2
  <2>2. Len(orders) = 1 /\ orders[1] = o /\ 1 \in DOMAIN orders
    BY <2>1
  <2>3. depth' = Process(depth, orders[1])
    BY <2>2 DEF ProcessAll
  <2>4. Order(orders[1])
    BY <2>2 DEF Batch
  <2> QED
    BY <2>3, <2>4, ProcessOK
<1>3. CASE \E o, q : orders = <<o, q>>
  <2>1. PICK o, q : orders = <<o, q>>
    BY <1>3
  <2>2. Len(orders) = 2 /\ orders[1] = o /\ orders[2] = q /\ {1, 2} \subseteq DOMAIN orders
    BY <2>1
  <2>3. depth' = Process(Process(depth, orders[1]), orders[2])
    BY <2>2 DEF ProcessAll
  <2>4. Order(orders[1]) /\ Order(orders[2])
    BY <2>2 DEF Batch
  <2>5. Process(depth, orders[1]) \in Depths /\ Apart(Process(depth, orders[1]))
    BY <2>4, ProcessOK
  <2> QED
    BY <2>3, <2>4, <2>5, ProcessOK
<1> QED
  BY <1>1, <1>2, <1>3 DEF Batch

\* A limit order of a bot is an order.
LEMMA LimitOrder ==
  ASSUME NEW side \in Sides, NEW price \in Int, NEW qty \in Nat
  PROVE  LET o == Limit(side, price, qty)
         IN  Order(o) /\ o.side = side /\ o.price = price /\ o.qty = qty /\ o.type = "Limit"
BY DEF Limit, Order

LEMMA OneOrder ==
  ASSUME NEW o, Order(o)
  PROVE  Batch(<<o>>)
BY DEF Batch

LEMMA TwoOrders ==
  ASSUME NEW o, Order(o), NEW q, Order(q)
  PROVE  Batch(<<o, q>>)
BY DEF Batch

\* What the average may become.
LEMMA BetweenOK ==
  ASSUME NEW a \in Nat, NEW b \in Nat, NEW e \in Between(a, b)
  PROVE  e \in Nat /\ ((a <= e /\ e <= b) \/ (b <= e /\ e <= a))
BY DEF Between, Least, Larger

\* Where the best prices are when there are bids and asks.
LEMMA Spreads ==
  ASSUME BotInv, TwoSided(depth)
  PROVE  /\ BestBid(depth) \in Nat \ {0} /\ BestAsk(depth) \in Nat \ {0}
         /\ BestBid(depth) < BestAsk(depth) /\ HalfTicks \in Nat
<1>1. BestBid(depth) \in Prices /\ BestAsk(depth) \in Prices
      /\ depth["Buy"][BestBid(depth)] > 0 /\ depth["Sell"][BestAsk(depth)] > 0
  BY BestPrices DEF BotInv, TwoSided
<1>2. BestBid(depth) < BestAsk(depth)
  BY <1>1 DEF BotInv, Apart
<1>3. \A p \in Prices : p \in Nat \ {0}
  BY PricesFinite
<1>4. BestBid(depth) \in Nat \ {0} /\ BestAsk(depth) \in Nat \ {0}
  BY <1>1, <1>3
<1>5. HalfTicks \in Nat
  BY <1>4 DEF HalfTicks
<1> QED
  BY <1>2, <1>4, <1>5

\* What the mean reversion bot sends rests: above the best bid, or below the
\* best ask, and at a price of 1 or more.
LEMMA ReversionQuote ==
  ASSUME BotInv, TwoSided(depth), NEW e \in Nat
  PROVE  \/ ReversionOrders(e) = <<>>
         \/ \E price \in Nat \ {0} : /\ ReversionOrders(e) = <<Limit("Sell", price, BotQty)>>
                                     /\ BestBid(depth) < price
         \/ \E price \in Nat \ {0} : /\ ReversionOrders(e) = <<Limit("Buy", price, BotQty)>>
                                     /\ price < BestAsk(depth)
<1> DEFINE bb == BestBid(depth)
           ba == BestAsk(depth)
           high == Larger(e \div 2 + 1, bb + 1)
           low == Larger(Least(e \div 2, ba - 1), 1)
<1>1. bb \in Nat \ {0} /\ ba \in Nat \ {0} /\ bb < ba
  BY Spreads
<1> HIDE DEF bb, ba
<1>2. high \in Nat \ {0} /\ bb < high
  BY <1>1 DEF Larger
<1>3. low \in Nat \ {0} /\ low < ba
  BY <1>1 DEF Larger, Least
<1>4. \/ ReversionOrders(e) = <<Limit("Sell", high, BotQty)>>
      \/ ReversionOrders(e) = <<Limit("Buy", low, BotQty)>>
      \/ ReversionOrders(e) = <<>>
  BY DEF ReversionOrders, bb, ba
<1> HIDE DEF high, low
<1> QED
  BY <1>2, <1>3, <1>4 DEF bb, ba

LEMMA ReversionBatch ==
  ASSUME BotInv, TwoSided(depth), NEW e \in Nat
  PROVE  Batch(ReversionOrders(e))
<1>1. BotQty \in Nat
  BY BotAssumption
<1>2. \A side \in Sides, price \in Nat \ {0} : Batch(<<Limit(side, price, BotQty)>>)
  BY <1>1, LimitOrder, OneOrder
<1>3. Batch(<<>>)
  BY DEF Batch
<1> QED
  BY <1>2, <1>3, ReversionQuote DEF Sides

LEMMA MakerBatch ==
  ASSUME NEW d \in Depths, Apart(d)
  PROVE  Batch(MakerOrders(d))
<1>1. CASE ToAdd(d) > 0
  <2>1. ToAdd(d) \in Nat
    BY <1>1, LowerDepthNat
  <2>2. Order(Limit("Buy", BidQuote(d), ToAdd(d))) /\ Order(Limit("Sell", AskQuote(d), ToAdd(d)))
    BY <2>1, QuotesPassive, LimitOrder DEF Sides
  <2> QED
    BY <1>1, <2>2, TwoOrders DEF MakerOrders
<1>2. CASE ~(ToAdd(d) > 0)
  BY <1>2 DEF MakerOrders, Batch
<1> QED
  BY <1>1, <1>2

\* The sniper's two orders lie inside the spread and do not meet.
LEMMA SniperQuote ==
  ASSUME BotInv, SpreadIsWide
  PROVE  /\ BestBid(depth) + 1 < BestAsk(depth) - 1
         /\ Order(Limit("Buy", BestBid(depth) + 1, BotQty))
         /\ Order(Limit("Sell", BestAsk(depth) - 1, BotQty))
<1>1. BestBid(depth) \in Nat \ {0} /\ BestAsk(depth) \in Nat \ {0} /\ TwoSided(depth)
  BY Spreads DEF SpreadIsWide
<1>2. BestAsk(depth) - BestBid(depth) > 2 /\ BotQty \in Nat
  BY <1>1, BotAssumption DEF SpreadIsWide
<1> QED
  BY <1>1, <1>2, LimitOrder DEF Sides

LEMMA NoiseOrder ==
  ASSUME BotInv, TwoSided(depth), NEW side \in Sides, NEW offset \in Offset
  PROVE  NoisePrice(offset) \in Nat \ {0} /\ Order(Limit(side, NoisePrice(offset), BotQty))
<1>1. HalfTicks \in Nat /\ offset \in Int
  BY Spreads, BotAssumption DEF Offset
<1>2. NoisePrice(offset) \in Nat \ {0}
  BY <1>1 DEF NoisePrice, Larger
<1> QED
  BY <1>2, BotAssumption, LimitOrder

LEMMA UserOrder ==
  ASSUME NEW o \in Submission
  PROVE  Order(o)
<1>1. (\A p \in Prices : p \in Int) /\ \A qty \in OrderQty : qty \in Nat
  BY DepthAssumption, PricesFinite
<1>2. \/ o.side \in Sides /\ o.type = "Limit" /\ o.price \in Prices /\ o.qty \in OrderQty
      \/ o.side \in Sides /\ o.type = "Market" /\ o.qty \in OrderQty
  BY DEF Submission
<1>3. (o.price \in Prices => o.price \in Int) /\ (o.qty \in OrderQty => o.qty \in Nat)
  BY <1>1
<1>4. CASE o.type = "Limit" /\ o.side \in Sides /\ o.price \in Prices /\ o.qty \in OrderQty
  BY <1>3, <1>4 DEF Order
<1>5. CASE o.type = "Market" /\ o.side \in Sides /\ o.qty \in OrderQty
  BY <1>3, <1>5 DEF Order
<1> QED
  BY <1>2, <1>4, <1>5

LEMMA WithdrawOK ==
  ASSUME depth \in Depths, Apart(depth), NEW side \in Sides, NEW p \in Prices, Withdraw(side, p)
  PROVE  depth' \in Depths /\ Apart(depth')
<1>1. depth[side][p] \in Nat
  BY DEF Depths
<1>2. PICK left \in 0..(depth[side][p] - 1) : depth' = [depth EXCEPT ![side][p] = left]
  BY DEF Withdraw
<1>3. left \in Nat /\ left < depth[side][p]
  BY <1>1, <1>2
<1>4. depth' \in Depths
  BY <1>2, <1>3 DEF Depths
<1>5. \A s \in Sides, q \in Prices : depth'[s][q] > 0 => depth[s][q] > 0
  <2>1. \A s \in Sides, q \in Prices : depth'[s][q] = IF s = side /\ q = p THEN left ELSE depth[s][q]
    BY <1>2 DEF Depths
  <2> QED
    BY <1>1, <1>3, <2>1
<1>6. "Buy" \in Sides /\ "Sell" \in Sides
  BY DEF Sides
<1> QED
  BY <1>4, <1>5, <1>6 DEF Apart

LEMMA BotInitKeeps == BotInit => BotInv
<1> SUFFICES ASSUME BotInit PROVE BotInv
  OBVIOUS
<1>1. depth \in Depths /\ \A side \in Sides, p \in Prices : depth[side][p] = 0
  BY DEF BotInit, MakerInit, Depths
<1>2. Apart(depth)
  BY <1>1 DEF Apart, Sides
<1> QED
  BY <1>1, <1>2 DEF BotInit, BotInv

\* The market maker's threads and the users.
LEMMA MakerStepKeeps ==
  ASSUME BotInv, MakerNext
  PROVE  depth' \in Depths /\ Apart(depth')
<1>1. depth \in Depths /\ Apart(depth)
  BY DEF BotInv
<1>2. CASE MakerTick
  <2>1. ProcessAll(MakerOrders(depth))
    BY <1>2 DEF MakerTick
  <2> QED
    BY <1>1, <2>1, MakerBatch, ProcessAllOK
<1>3. CASE TakerTick
  <2>1. Order(Market(TakerSide(depth), TakerQty))
    BY MakerAssumption DEF Market, Order, TakerSide, Sides
  <2> QED
    BY <1>1, <1>3, <2>1, ProcessOK DEF TakerTick
<1>4. CASE UserStep
  <2>1. ASSUME NEW o \in Submission, Submit(o) PROVE depth' \in Depths /\ Apart(depth')
    BY <1>1, <2>1, UserOrder, ExecutedIs, ExecutedApart DEF Submit
  <2> QED
    BY <1>1, <1>4, <2>1, WithdrawOK DEF UserStep
<1> QED
  BY <1>2, <1>3, <1>4 DEF MakerNext

\* Every step of every thread.
LEMMA BotStepKeeps ==
  ASSUME BotInv, [BotNext]_botVars
  PROVE  BotInv'
<1>1. depth \in Depths /\ Apart(depth) /\ ema \in Nat
  BY DEF BotInv
<1>2. CASE MomentumTick
  <2>1. TwoSided(depth)
    BY <1>2 DEF MomentumTick
  <2>2. PICK orders \in MomentumOrders : ProcessAll(orders)
    BY <1>2 DEF MomentumTick
  <2>3. Order(Limit("Buy", BestAsk(depth), BotQty)) /\ Order(Limit("Sell", BestBid(depth), BotQty))
    BY <2>1, Spreads, BotAssumption, LimitOrder DEF Sides
  <2>4. Batch(orders)
    <3>1. Batch(<<>>)
      BY DEF Batch
    <3> QED
      BY <2>2, <2>3, <3>1, OneOrder DEF MomentumOrders
  <2>5. depth' \in Depths /\ Apart(depth')
    BY <1>1, <2>2, <2>4, ProcessAllOK
  <2> QED
    BY <1>1, <1>2, <2>5 DEF BotInv, MomentumTick
<1>3. CASE ReversionTick
  <2>1. TwoSided(depth) /\ HalfTicks \in Nat
    BY <1>3, Spreads DEF ReversionTick
  <2>2. CASE ema = 0
    BY <1>1, <1>3, <2>1, <2>2 DEF BotInv, ReversionTick
  <2>3. CASE ema # 0
    <3>1. PICK e \in Between(ema, HalfTicks) : ema' = e /\ ProcessAll(ReversionOrders(e))
      BY <1>3, <2>3 DEF ReversionTick
    <3>2. e \in Nat
      BY <1>1, <2>1, BetweenOK
    <3>3. depth' \in Depths /\ Apart(depth')
      BY <1>1, <2>1, <3>1, <3>2, ReversionBatch, ProcessAllOK
    <3> QED
      BY <3>1, <3>2, <3>3 DEF BotInv
  <2> QED
    BY <2>2, <2>3
<1>4. CASE NoiseTick
  <2>1. TwoSided(depth) /\ UNCHANGED ema
    BY <1>4 DEF NoiseTick
  <2>2. PICK side \in Sides, offset \in Offset :
          depth' = Process(depth, Limit(side, NoisePrice(offset), BotQty))
    BY <1>4 DEF NoiseTick
  <2> QED
    BY <1>1, <2>1, <2>2, NoiseOrder, ProcessOK DEF BotInv
<1>5. CASE SniperTick
  <2>1. SpreadIsWide /\ ProcessAll(SniperOrders) /\ UNCHANGED ema
    BY <1>5 DEF SniperTick
  <2>2. Batch(SniperOrders)
    BY <2>1, SniperQuote, TwoOrders DEF SniperOrders
  <2>3. depth' \in Depths /\ Apart(depth')
    BY <1>1, <2>1, <2>2, ProcessAllOK
  <2> QED
    BY <1>1, <2>1, <2>3 DEF BotInv
<1>6. CASE MakerNext /\ UNCHANGED ema
  BY <1>1, <1>6, MakerStepKeeps DEF BotInv
<1>7. CASE UNCHANGED botVars
  BY <1>1, <1>7 DEF BotInv, botVars, depthVars
<1> QED
  BY <1>2, <1>3, <1>4, <1>5, <1>6, <1>7 DEF BotNext

\* Whatever users, the market maker and the bots do, in any order, every bid stays
\* below every ask: the premise of all that is said of quotes.
THEOREM BidsBelowAsks == BotSpec => []BotInv
BY BotInitKeeps, BotStepKeeps, PTL DEF BotSpec

\* A bid below every ask, and an ask above every bid, find nothing.
LEMMA BidFindsNothing ==
  ASSUME NEW d \in Depths, NEW price \in Int, NEW qty,
         \A q \in Prices : d["Sell"][q] > 0 => price < q
  PROVE  \A p \in Eligible(Limit("Buy", price, qty)) : p <= price /\ d["Sell"][p] = 0
<1>1. ASSUME NEW p \in Eligible(Limit("Buy", price, qty)) PROVE p \in Prices /\ p <= price
  BY DEF Eligible, Limit
<1>2. \A p \in Prices : d["Sell"][p] \in Nat /\ p \in Nat
  BY PricesFinite DEF Depths, Sides
<1> QED
  BY <1>1, <1>2

LEMMA AskFindsNothing ==
  ASSUME NEW d \in Depths, NEW price \in Int, NEW qty,
         \A q \in Prices : d["Buy"][q] > 0 => q < price
  PROVE  \A p \in Eligible(Limit("Sell", price, qty)) : p >= price /\ d["Buy"][p] = 0
<1>1. ASSUME NEW p \in Eligible(Limit("Sell", price, qty)) PROVE p \in Prices /\ p >= price
  BY DEF Eligible, Limit
<1>2. \A p \in Prices : d["Buy"][p] \in Nat /\ p \in Nat
  BY PricesFinite DEF Depths, Sides
<1> QED
  BY <1>1, <1>2

\* What ProvidersOnlyAdd says of one batch.
OnlyAdds(orders) ==
  \A i \in DOMAIN orders : \A p \in Eligible(orders[i]) :
    \/ Refused(depth, orders[i])
    \/ /\ depth[Other(orders[i].side)][p] = 0
       /\ \A j \in 1..(i - 1) : orders[j].side = orders[i].side \/ orders[j].price # p

LEMMA PairOnlyAdds ==
  ASSUME depth \in Depths, NEW low \in Int, NEW high \in Int, low < high, NEW qty,
         \A q \in Prices : depth["Sell"][q] > 0 => low < q,
         \A q \in Prices : depth["Buy"][q] > 0 => q < high
  PROVE  OnlyAdds(<<Limit("Buy", low, qty), Limit("Sell", high, qty)>>)
<1> DEFINE orders == <<Limit("Buy", low, qty), Limit("Sell", high, qty)>>
<1>1. DOMAIN orders = {1, 2} /\ orders[1] = Limit("Buy", low, qty)
      /\ orders[2] = Limit("Sell", high, qty)
  OBVIOUS
<1>2. \A p \in Eligible(orders[1]) : depth[Other(orders[1].side)][p] = 0
  BY <1>1, BidFindsNothing DEF Other, Limit
<1>3. \A p \in Eligible(orders[2]) : depth[Other(orders[2].side)][p] = 0 /\ p \in Nat /\ p # low
  <2>1. \A p \in Eligible(orders[2]) : p \in Nat
    BY PricesFinite DEF Eligible
  <2>2. \A p \in Eligible(orders[2]) : p >= high /\ depth["Buy"][p] = 0
    BY <1>1, AskFindsNothing
  <2> QED
    BY <1>1, <2>1, <2>2 DEF Other, Limit
<1>4. 1..(1 - 1) = {} /\ 1..(2 - 1) = {1} /\ orders[1].price = low
  BY <1>1 DEF Limit
<1> HIDE DEF orders
<1>5. \A i \in DOMAIN orders : i = 1 \/ i = 2
  BY <1>1
<1>6. OnlyAdds(orders)
  BY <1>2, <1>3, <1>4, <1>5 DEF OnlyAdds
<1> QED
  BY <1>6 DEF orders

LEMMA SingleOnlyAdds ==
  ASSUME NEW o, \A p \in Eligible(o) : depth[Other(o.side)][p] = 0
  PROVE  OnlyAdds(<<o>>)
<1>1. \A i \in DOMAIN <<o>> : i = 1 /\ <<o>>[i] = o
  OBVIOUS
<1>2. 1..(1 - 1) = {}
  OBVIOUS
<1> QED
  BY <1>1, <1>2 DEF OnlyAdds

LEMMA NoneOnlyAdds == OnlyAdds(<<>>)
BY DEF OnlyAdds

\* The market maker, the mean reversion bot and the sniper take nothing, from the
\* book or from each other, whatever prices, spread, deviation and quantities.
THEOREM ProvidersProvide == BotSpec => []ProvidersOnlyAdd
<1>1. ASSUME BotInv PROVE OnlyAdds(MakerOrders(depth))
  <2>1. depth \in Depths /\ Apart(depth)
    BY <1>1 DEF BotInv
  <2>2. OnlyAdds(<<Limit("Buy", BidQuote(depth), ToAdd(depth)),
                   Limit("Sell", AskQuote(depth), ToAdd(depth))>>)
    BY <2>1, QuotesPassive, PairOnlyAdds
  <2> QED
    BY <2>2, NoneOnlyAdds DEF MakerOrders
<1>2. ASSUME BotInv, SpreadIsWide PROVE OnlyAdds(SniperOrders)
  <2> DEFINE low == BestBid(depth) + 1
             high == BestAsk(depth) - 1
  <2>1. depth \in Depths /\ TwoSided(depth)
    BY <1>2 DEF BotInv, SpreadIsWide
  <2>2. low \in Int /\ high \in Int /\ low < high
    BY <1>2, <2>1, Spreads, SniperQuote
  <2>3. /\ \A q \in Prices : depth["Sell"][q] > 0 => low < q
        /\ \A q \in Prices : depth["Buy"][q] > 0 => q < high
    <3>1. \A q \in Prices : q \in Nat
      BY PricesFinite
    <3>2. /\ \A q \in Prices : depth["Sell"][q] > 0 => BestAsk(depth) <= q
          /\ \A q \in Prices : depth["Buy"][q] > 0 => q <= BestBid(depth)
      BY <2>1, BestPrices DEF TwoSided
    <3>3. BestBid(depth) \in Nat /\ BestAsk(depth) \in Nat
      BY <1>2, <2>1, Spreads
    <3> QED
      BY <2>2, <3>1, <3>2, <3>3
  <2> HIDE DEF low, high
  <2>4. OnlyAdds(<<Limit("Buy", low, BotQty), Limit("Sell", high, BotQty)>>)
    BY <2>1, <2>2, <2>3, PairOnlyAdds
  <2> QED
    BY <2>4 DEF SniperOrders, low, high
<1>3. ASSUME BotInv, TwoSided(depth), NEW e \in Nat PROVE OnlyAdds(ReversionOrders(e))
  <2>1. /\ depth \in Depths /\ BestBid(depth) \in Nat /\ BestAsk(depth) \in Nat
        /\ \A q \in Prices : depth["Sell"][q] > 0 => BestAsk(depth) <= q
        /\ \A q \in Prices : depth["Buy"][q] > 0 => q <= BestBid(depth)
        /\ \A q \in Prices : q \in Nat
    BY <1>3, Spreads, BestPrices, PricesFinite DEF BotInv, TwoSided
  <2>2. ASSUME NEW price \in Nat \ {0}, BestBid(depth) < price
        PROVE  OnlyAdds(<<Limit("Sell", price, BotQty)>>)
    <3>1. \A p \in Eligible(Limit("Sell", price, BotQty)) : depth["Buy"][p] = 0
      <4>1. \A q \in Prices : depth["Buy"][q] > 0 => q < price
        BY <2>1, <2>2
      <4> QED
        BY <2>1, <4>1, AskFindsNothing
    <3> QED
      BY <3>1, SingleOnlyAdds DEF Other, Limit
  <2>3. ASSUME NEW price \in Nat \ {0}, price < BestAsk(depth)
        PROVE  OnlyAdds(<<Limit("Buy", price, BotQty)>>)
    <3>1. \A p \in Eligible(Limit("Buy", price, BotQty)) : depth["Sell"][p] = 0
      <4>1. \A q \in Prices : depth["Sell"][q] > 0 => price < q
        BY <2>1, <2>3
      <4> QED
        BY <2>1, <4>1, BidFindsNothing
    <3> QED
      BY <3>1, SingleOnlyAdds DEF Other, Limit
  <2> QED
    BY <1>3, <2>2, <2>3, NoneOnlyAdds, ReversionQuote
<1>4. ASSUME BotInv, NEW orders \in Quotes PROVE OnlyAdds(orders)
  <2>1. \/ orders = MakerOrders(depth)
        \/ TwoSided(depth) /\ \E e \in Between(ema, HalfTicks) : orders = ReversionOrders(e)
        \/ SpreadIsWide /\ orders = SniperOrders
    BY DEF Quotes
  <2>2. TwoSided(depth) => \A e \in Between(ema, HalfTicks) : e \in Nat
    BY <1>4, Spreads, BetweenOK DEF BotInv
  <2> QED
    BY <1>1, <1>2, <1>3, <1>4, <2>1, <2>2
<1>5. BotInv => ProvidersOnlyAdd
  BY <1>4 DEF ProvidersOnlyAdd, OnlyAdds
<1> QED
  BY <1>5, BidsBelowAsks, PTL

\* Two quotes on both sides of the spread rest one after the other: each side
\* grows by what its quote is for.
LEMMA TwoQuotesRest ==
  ASSUME NEW d \in Depths, Apart(d), NEW low \in Prices, NEW high \in Prices, low < high,
         NEW qty \in Nat, qty > 0,
         \A q \in Prices : d["Sell"][q] > 0 => low < q,
         \A q \in Prices : d["Buy"][q] > 0 => q < high
  PROVE  LET e == Process(Process(d, Limit("Buy", low, qty)), Limit("Sell", high, qty))
         IN  /\ TotalDepth(e, "Buy") = TotalDepth(d, "Buy") + qty
             /\ TotalDepth(e, "Sell") = TotalDepth(d, "Sell") + qty
<1> DEFINE bid == Limit("Buy", low, qty)
           ask == Limit("Sell", high, qty)
           m == Process(d, bid)
           e == Process(m, ask)
<1>1. low \in Int /\ high \in Int
  BY PricesFinite
<1>2. /\ Order(bid) /\ bid.type = "Limit" /\ bid.price = low /\ bid.qty = qty
      /\ bid.side = "Buy" /\ Other(bid.side) = "Sell"
  BY <1>1, LimitOrder DEF Sides, Other
<1>3. /\ Order(ask) /\ ask.type = "Limit" /\ ask.price = high /\ ask.qty = qty
      /\ ask.side = "Sell" /\ Other(ask.side) = "Buy"
  BY <1>1, LimitOrder DEF Sides, Other
<1>4. \A p \in Eligible(bid) : d[Other(bid.side)][p] = 0
  BY <1>1, <1>2, BidFindsNothing
<1> HIDE DEF bid, ask
<1>5. /\ \A p \in Prices : m["Buy"][p] = IF p = low THEN d["Buy"][p] + qty ELSE d["Buy"][p]
      /\ TotalDepth(m, "Buy") = TotalDepth(d, "Buy") + qty
      /\ TotalDepth(m, "Sell") = TotalDepth(d, "Sell")
  BY <1>2, <1>4, PassiveAdds
<1>6. m \in Depths
  BY <1>2, ProcessOK
<1> HIDE DEF m
<1>7. \A q \in Prices : m["Buy"][q] > 0 => q < high
  BY <1>5
<1>8. \A p \in Eligible(ask) : m[Other(ask.side)][p] = 0
  BY <1>1, <1>3, <1>6, <1>7, AskFindsNothing DEF ask
<1>9. /\ TotalDepth(e, "Sell") = TotalDepth(m, "Sell") + qty
      /\ TotalDepth(e, "Buy") = TotalDepth(m, "Buy")
  BY <1>3, <1>6, <1>8, PassiveAdds
<1> QED
  BY <1>5, <1>9 DEF m, bid, ask

\* A tick of the maker adds the same to both sides unless its bid would be refused,
\* and never lifts the lower side past the target: for every spread and target.
THEOREM EqualAdditions == BotSpec => EqualAdditionAbovePriceOne
<1> DEFINE Step == MakerTick /\ BidQuote(depth) > 0 =>
                     /\ Growth("Buy") = Growth("Sell")
                     /\ Growth("Buy") > 0 => LowerDepth(depth') <= TargetDepth
<1>1. ASSUME BotInv, MakerTick, BidQuote(depth) > 0
      PROVE  /\ Growth("Buy") = Growth("Sell")
             /\ Growth("Buy") > 0 => LowerDepth(depth') <= TargetDepth
  <2> DEFINE b == TotalDepth(depth, "Buy")
             s == TotalDepth(depth, "Sell")
  <2>1. depth \in Depths /\ Apart(depth) /\ ProcessAll(MakerOrders(depth))
    BY <1>1 DEF BotInv, MakerTick
  <2>2. b \in Nat /\ s \in Nat /\ LowerDepth(depth) = Least(b, s) /\ ToAdd(depth) \in Int
    BY <2>1, LowerDepthNat DEF LowerDepth
  <2>3. CASE ~(ToAdd(depth) > 0)
    <3>1. Len(MakerOrders(depth)) = 0
      BY <2>3 DEF MakerOrders
    <3>2. depth' = depth
      BY <2>1, <3>1 DEF ProcessAll
    <3>3. Growth("Buy") = 0 /\ Growth("Sell") = 0
      BY <2>2, <3>2 DEF Growth
    <3> QED
      BY <3>3
  <2>4. CASE ToAdd(depth) > 0
    <3> DEFINE bid == Limit("Buy", BidQuote(depth), ToAdd(depth))
               ask == Limit("Sell", AskQuote(depth), ToAdd(depth))
    <3>1. BidQuote(depth) \in Prices /\ AskQuote(depth) \in Prices
      BY <1>1, <2>1, QuotesPassive, DepthAssumption DEF MakerTick, Prices
    <3>2. MakerOrders(depth) = <<bid, ask>>
      BY <2>4 DEF MakerOrders
    <3>3. depth' = Process(Process(depth, bid), ask)
      <4> HIDE DEF bid, ask
      <4> QED
        BY <2>1, <3>2 DEF ProcessAll
    <3>4. TotalDepth(depth', "Buy") = b + ToAdd(depth) /\ TotalDepth(depth', "Sell") = s + ToAdd(depth)
      BY <2>1, <2>2, <2>4, <3>1, <3>3, QuotesPassive, TwoQuotesRest
    <3>5. ToAdd(depth) <= TargetDepth - Least(b, s)
      <4>1. MakerQty \in Nat /\ TargetDepth \in Nat
        BY MakerAssumption
      <4> QED
        BY <2>2, <4>1 DEF ToAdd, Least
    <3>6. LowerDepth(depth') = Least(b + ToAdd(depth), s + ToAdd(depth))
      BY <3>4 DEF LowerDepth
    <3>7. LowerDepth(depth') <= TargetDepth
      <4>1. TargetDepth \in Nat
        BY MakerAssumption
      <4> HIDE DEF b, s
      <4> QED
        BY <2>2, <3>5, <3>6, <4>1 DEF Least
    <3>8. Growth("Buy") = ToAdd(depth) /\ Growth("Sell") = ToAdd(depth)
      BY <2>2, <3>4 DEF Growth
    <3> QED
      BY <3>7, <3>8
  <2> QED
    BY <2>3, <2>4
<1>2. BotInv => Step
  BY <1>1
<1> QED
  BY <1>2, BidsBelowAsks, PTL DEF BotSpec, EqualAdditionAbovePriceOne

LEMMA EmptySide ==
  ASSUME NEW d \in Depths, NEW side \in Sides, Occupied(d, side) = {}
  PROVE  TotalDepth(d, side) = 0
<1>1. \A p \in Prices : d[side][p] \in Nat
  BY DEF Depths
<1>2. \A p \in Prices : d[side][p] = 0
  BY <1>1 DEF Occupied
<1> QED
  BY <1>2, PricesFinite, SumZero DEF TotalDepth, Volume

\* The book after a market order that finds all it asks for.
LEMMA MarketTakes ==
  ASSUME NEW d \in Depths, NEW side \in Sides, NEW qty \in Nat, qty > 0,
         qty < TotalDepth(d, Other(side))
  PROVE  LET e == Process(d, Market(side, qty))
         IN  /\ TotalDepth(e, Other(side)) = TotalDepth(d, Other(side)) - qty
             /\ TotalDepth(e, side) = TotalDepth(d, side)
<1> DEFINE o == Market(side, qty)
           e == Executed(d, o)
           opp == Other(side)
<1>1. o.side = side /\ o.type = "Market" /\ o.qty = qty /\ Order(o) /\ Eligible(o) = Prices
  BY DEF Market, Order, Eligible
<1> HIDE DEF o
<1>2. opp \in Sides /\ opp # side /\ e \in Depths
  BY <1>1, EligibleOK, ExecutedIs
<1>3. TotalDepth(d, opp) \in Nat
  BY <1>2, VolumeNat DEF TotalDepth, Depths
<1>4. Occupied(d, opp) # {}
  BY <1>2, <1>3, EmptySide
<1>5. Process(d, o) = e
  BY <1>1, <1>4 DEF Process, Refused
<1>6. TotalDepth(e, opp) = TotalDepth(d, opp) - qty
  <2>1. Volume(e[opp], Prices) = Volume(d[opp], Prices) - Least(qty, Volume(d[opp], Prices))
    BY <1>1, TakesWhatItFinds
  <2> QED
    BY <1>3, <2>1 DEF TotalDepth, Least
<1>7. TotalDepth(e, side) = TotalDepth(d, side)
  <2>1. \A p \in Prices : e[side][p] = d[side][p] /\ d[side][p] \in Int
    BY <1>1, ExecutedIs DEF Depths
  <2> HIDE DEF e
  <2> QED
    BY <2>1, PricesFinite, SumAgrees DEF TotalDepth, Volume
<1> QED
  BY <1>5, <1>6, <1>7 DEF o

\* The taker finds all it asks for, empties no side and brings the sides nearer to
\* each other: for every quantity below the depth it waits for.
THEOREM TakerBalances == BotSpec => TakerRebalances
<1> DEFINE Step == TakerTick =>
       /\ TwoSided(depth')
       /\ Growth("Buy") + Growth("Sell") = -TakerQty
       /\ Magnitude(Imbalance(depth')) <=
            (IF Magnitude(Imbalance(depth)) > TakerQty THEN Magnitude(Imbalance(depth)) - TakerQty
                                                       ELSE TakerQty)
<1>1. ASSUME BotInv, TakerTick PROVE Step
  <2> DEFINE b == TotalDepth(depth, "Buy")
             s == TotalDepth(depth, "Sell")
             c == TotalDepth(depth', "Buy")
             t == TotalDepth(depth', "Sell")
  <2>1. /\ depth \in Depths /\ b \in Nat /\ s \in Nat
        /\ depth' = Process(depth, Market(TakerSide(depth), TakerQty))
    BY <1>1, LowerDepthNat DEF BotInv, TakerTick
  <2>2. TakerQty \in Nat /\ TakerQty > 0 /\ b > TakerQty /\ s > TakerQty
    BY <1>1, <2>1, MakerAssumption DEF TakerTick, TakerTrades
  <2>3. IF b >= s THEN c = b - TakerQty /\ t = s ELSE c = b /\ t = s - TakerQty
    <3>1. IF b >= s THEN TakerSide(depth) = "Sell" ELSE TakerSide(depth) = "Buy"
      BY DEF TakerSide
    <3>2. Other("Sell") = "Buy" /\ Other("Buy") = "Sell"
      BY DEF Other
    <3> QED
      BY <2>1, <2>2, <3>1, <3>2, MarketTakes DEF Sides
  <2>4. TwoSided(depth')
    <3>1. c # 0 /\ t # 0
      BY <2>1, <2>2, <2>3
    <3>2. depth' \in Depths
      BY <1>1, MakerStepKeeps DEF MakerNext
    <3> QED
      BY <3>1, <3>2, EmptySide DEF TwoSided, Sides
  <2>5. Growth("Buy") + Growth("Sell") = -TakerQty
    BY <2>1, <2>2, <2>3 DEF Growth
  <2>6. Imbalance(depth) = b - s /\ Imbalance(depth') = c - t
    BY DEF Imbalance
  <2> HIDE DEF b, s, c, t
  <2>7. Magnitude(Imbalance(depth')) <=
          (IF Magnitude(Imbalance(depth)) > TakerQty THEN Magnitude(Imbalance(depth)) - TakerQty
                                                     ELSE TakerQty)
    BY <2>1, <2>2, <2>3, <2>6 DEF Magnitude
  <2> QED
    BY <2>4, <2>5, <2>7
<1> QED
  BY <1>1, BidsBelowAsks, PTL DEF BotSpec, TakerRebalances

-----------------------------------------------------------------------------
(* Starting and stopping.                                                  *)

Labels == {"idle", "start", "spawn maker", "spawn taker", "stop", "join maker", "join taker"}
Looping == {"test", "lock", "tick", "sleep"}

ThreadTypeOK ==
  /\ running \in BOOLEAN
  /\ joinable \in [Loops -> BOOLEAN]
  /\ loop \in [Loops -> Looping \cup {"none", "ended"}]
  /\ pc \in [Caller -> Labels]
  /\ answer \in [Caller -> BOOLEAN]

\* One toggle at a time.
Serial == \A c, d \in Caller : pc[c] # "idle" /\ pc[d] # "idle" => c = d

\* A thread as start leaves it, as stop finds it once running_ is cleared, and
\* as stop leaves it.
Alive(w) == joinable[w] /\ loop[w] \in Looping
Ending(w) == joinable[w] /\ loop[w] \in Looping \cup {"ended"}
Gone(w) == ~joinable[w] /\ loop[w] = "none"

\* What running_ and the two threads are at each point of a toggle.
Progress(c) ==
  /\ pc[c] = "start" => ~running /\ Gone("maker") /\ Gone("taker")
  /\ pc[c] = "spawn maker" => running /\ Gone("maker") /\ Gone("taker")
  /\ pc[c] = "spawn taker" => running /\ Alive("maker") /\ Gone("taker")
  /\ pc[c] = "stop" => running /\ Alive("maker") /\ Alive("taker")
  /\ pc[c] = "join maker" => ~running /\ Ending("maker") /\ Ending("taker")
  /\ pc[c] = "join taker" => ~running /\ Gone("maker") /\ Ending("taker")

Settled ==
  (\A c \in Caller : pc[c] = "idle") =>
    /\ \E c \in Caller : answer[c] = running
    /\ \A w \in Loops : IF running THEN Alive(w) ELSE Gone(w)

ToggleInv == ThreadTypeOK /\ ~terminated /\ Settled /\ \A c \in Caller : Progress(c)

\* Before the first toggle both threads are as stop leaves them.
LEMMA ToggleInit == Caller # {} /\ ThreadInit => ToggleInv
BY DEF ThreadInit, ToggleInv, ThreadTypeOK, Labels, Looping, Settled, Progress, Alive, Gone,
       Ending, Loops

\* A step of the one toggle that is under way.
LEMMA CallerStepKeeps ==
  ASSUME ToggleInv, Serial, Serial', NEW c \in Caller, Toggle(c) \/ CallerStep(c)
  PROVE  ToggleInv'
<1> USE DEF Loops
<1> USE DEF Go, Move, Answer
<1>1. ThreadTypeOK /\ ~terminated /\ \A d \in Caller : Progress(d)
  BY DEF ToggleInv
<1>2. \A d \in Caller \ {c} : pc[d] = pc'[d] /\ pc'[d] = "idle"
  <2>1. pc \in [Caller -> Labels]
    BY <1>1 DEF ThreadTypeOK
  <2>2. pc' = [pc EXCEPT ![c] = pc'[c]] /\ (pc[c] # "idle" \/ pc'[c] # "idle")
    BY <2>1 DEF Toggle, CallerStep, StartFlag, Spawn, StopFlag, Join
  <2> QED
    BY <2>1, <2>2 DEF Serial
<1>3. CASE Toggle(c)
  <2>1. pc[c] = "idle" /\ \A d \in Caller : pc[d] = "idle"
    BY <1>2, <1>3 DEF Toggle
  <2>2. IF running THEN Alive("maker") /\ Alive("taker") ELSE Gone("maker") /\ Gone("taker")
    BY <2>1 DEF ToggleInv, Settled
  <2> QED
    BY <1>1, <1>2, <1>3, <2>1, <2>2
    DEF Toggle, ToggleInv, Settled, Progress, ThreadTypeOK, Alive, Gone, Ending, Labels
<1>4. CASE StartFlag(c)
  BY <1>1, <1>2, <1>4
  DEF StartFlag, ToggleInv, Settled, Progress, ThreadTypeOK, Alive, Gone, Ending, Labels
<1>5. CASE Spawn(c, "spawn maker", "maker", "spawn taker")
  BY <1>1, <1>2, <1>5
  DEF Spawn, ToggleInv, Settled, Progress, ThreadTypeOK, Alive, Gone, Ending, Labels, Looping
<1>6. CASE Spawn(c, "spawn taker", "taker", "idle")
  BY <1>1, <1>2, <1>6
  DEF Spawn, ToggleInv, Settled, Progress, ThreadTypeOK, Alive, Gone, Ending, Labels, Looping
<1>7. CASE StopFlag(c)
  BY <1>1, <1>2, <1>7
  DEF StopFlag, ToggleInv, Settled, Progress, ThreadTypeOK, Alive, Gone, Ending, Labels, Looping
<1>8. CASE Join(c, "join maker", "maker", "join taker")
  BY <1>1, <1>2, <1>8
  DEF Join, ToggleInv, Settled, Progress, ThreadTypeOK, Alive, Gone, Ending, Labels, Looping
<1>9. CASE Join(c, "join taker", "taker", "idle")
  BY <1>1, <1>2, <1>9
  DEF Join, ToggleInv, Settled, Progress, ThreadTypeOK, Alive, Gone, Ending, Labels, Looping
<1> QED
  BY <1>3, <1>4, <1>5, <1>6, <1>7, <1>8, <1>9 DEF CallerStep

\* A loop ends only once running_ is cleared, and is never gone before it is joined.
LEMMA LoopStepKeeps ==
  ASSUME ToggleInv, NEW w \in Loops, LoopStep(w)
  PROVE  ToggleInv'
<1>1. ThreadTypeOK /\ ~terminated /\ Settled /\ \A d \in Caller : Progress(d)
  BY DEF ToggleInv
<1>2. /\ loop[w] \in Looping /\ loop' = [loop EXCEPT ![w] = loop'[w]]
      /\ loop'[w] \in Looping \cup {"ended"} /\ (loop'[w] = "ended" => ~running)
      /\ UNCHANGED <<running, joinable, pc, answer, terminated>>
  BY <1>1 DEF LoopStep, TestRunning, LockBook, UnlockBook, Wake, Move, Looping, ThreadTypeOK
<1>3. ThreadTypeOK' /\ ~terminated'
  BY <1>1, <1>2 DEF ThreadTypeOK
<1>4. \A v \in Loops : /\ Gone(v) => Gone(v)'
                       /\ running /\ Alive(v) => Alive(v)'
                       /\ Ending(v) => Ending(v)'
  BY <1>1, <1>2 DEF Gone, Alive, Ending, ThreadTypeOK, Looping
<1>5. Settled'
  BY <1>1, <1>2, <1>4 DEF Settled
<1>6. \A d \in Caller : Progress(d)'
  BY <1>1, <1>2, <1>4 DEF Progress, Loops
<1> QED
  BY <1>3, <1>5, <1>6 DEF ToggleInv

\* Every step keeps the invariant as long as toggles do not overlap.
LEMMA ToggleStep ==
  ASSUME ToggleInv, Serial, Serial', [ThreadNext]_threadVars
  PROVE  ToggleInv'
<1>1. ASSUME UNCHANGED <<running, joinable, loop, pc, answer, terminated>> PROVE ToggleInv'
  BY <1>1 DEF ToggleInv, ThreadTypeOK, Settled, Progress, Alive, Gone, Ending
<1>2. CASE OthersLock \/ OthersUnlock \/ UNCHANGED threadVars
  BY <1>1, <1>2 DEF OthersLock, OthersUnlock, threadVars
<1> QED
  BY <1>2, CallerStepKeeps, LoopStepKeeps DEF ThreadNext

\* While toggles do not overlap, the threads are what the toggle under way, or
\* the last one, makes of them.
THEOREM ToggleInvariant == Caller # {} /\ ThreadSpec /\ []Serial => []ToggleInv
<1>1. ToggleInv /\ Serial /\ Serial' /\ [ThreadNext]_threadVars => ToggleInv'
  BY ToggleStep
<1> QED
  BY <1>1, ToggleInit, PTL DEF ThreadSpec

\* Toggles one after the other, of however many workers, never end the process,
\* and each answers the truth: toggle, start and stop fit together.
THEOREM TogglesInTurn ==
  Caller # {} /\ ThreadSpec /\ []Serial => [](NeverTerminates /\ AnswerIsTrue)
<1>1. ToggleInv => NeverTerminates /\ AnswerIsTrue
  BY DEF ToggleInv, NeverTerminates, AnswerIsTrue, Settled, Alive, Gone, Looping
<1> QED
  BY <1>1, ToggleInvariant, PTL

=============================================================================
