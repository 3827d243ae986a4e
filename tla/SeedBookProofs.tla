--------------------------- MODULE SeedBookProofs ---------------------------
(***************************************************************************)
(* The book seed_book leaves is one the engine may start with, for every   *)
(* middle price, spread, number of levels, depth and number of orders that *)
(* GoodArguments allows, and whatever the random numbers are.              *)
(***************************************************************************)
EXTENDS SeedBook, OrderBookProofs

\* The prices of a side, the jitter included.
SidePrice(s) == IF s = "Buy" THEN 1..(MidPrice - Spread \div 2 + 1)
                             ELSE (MidPrice + Spread \div 2)..MaxPrice

\* How many levels of both sides have begun; each may use up MaxOrders ids.
Begun == CASE side = "Buy" -> level
           [] side = "Sell" -> LevelCount + level
           [] OTHER -> 2 * LevelCount

CountersOK == /\ next_id \in Nat \ {0} /\ level \in 0..LevelCount
              /\ side \in Side \cup {"done"}
              /\ budget \in Nat /\ price \in Int /\ remaining \in Nat /\ orders \in Nat
              /\ remaining > 0 => side \in Side /\ orders > 0 /\ price \in SidePrice(side)

IdsOK == /\ \A id \in DOMAIN index : id \in 1..(next_id - 1)
         /\ next_id - 1 + orders <= MaxOrders * Begun

SeededSoFar == /\ LevelsType(levels) /\ IndexType(index)
               /\ WellFormed(levels, index) /\ OfSystem(levels)
               /\ \A s \in Side : DOMAIN levels[s] \subseteq SidePrice(s)

SeedInv == CountersOK /\ IdsOK /\ SeededSoFar

-----------------------------------------------------------------------------
(* The arguments.                                                          *)

\* Half of the spread is a price step at least, so the prices of the two sides
\* do not meet, and all of them are prices a level can have.
LEMMA SidesApart ==
  ASSUME GoodArguments
  PROVE  /\ Spread \div 2 \in Nat /\ Spread \div 2 >= 1
         /\ {MidPrice, LevelCount, TargetDepth, MaxOrders} \subseteq Nat
         /\ \A s \in Side : SidePrice(s) \subseteq Price
         /\ \A b \in SidePrice("Buy"), a \in SidePrice("Sell") : b < a
<1>1. Spread \div 2 \in Nat /\ Spread \div 2 >= 1
  BY DEF GoodArguments
<1> DEFINE half == Spread \div 2
<1> HIDE DEF half
<1>2. MidPrice \in Nat /\ LevelCount \in Nat /\ MaxPrice \in Nat /\ half \in Nat /\ half >= 1
  BY <1>1, BookAssumption DEF GoodArguments, half
<1>3. MidPrice - half - LevelCount >= 0 /\ MidPrice + half + LevelCount <= MaxPrice
  BY DEF GoodArguments, half
<1>4. /\ SidePrice("Buy") = 1..(MidPrice - half + 1)
      /\ SidePrice("Sell") = (MidPrice + half)..MaxPrice
  BY DEF SidePrice, half
<1>5. SidePrice("Buy") \subseteq Price /\ SidePrice("Sell") \subseteq Price
  BY <1>2, <1>3, <1>4 DEF Price
<1>6. \A b \in SidePrice("Buy"), a \in SidePrice("Sell") : b < a
  BY <1>2, <1>4
<1> QED
  BY <1>1, <1>5, <1>6 DEF GoodArguments, Side

\* The levels that have begun are within those of both sides, so are their ids.
LEMMA IdsInRange ==
  ASSUME GoodArguments, CountersOK
  PROVE  Begun \in Nat /\ MaxOrders * Begun <= LastId
<1>1. MaxOrders \in Nat /\ LevelCount \in Nat /\ level \in Nat /\ level <= LevelCount
  BY DEF GoodArguments, CountersOK
<1>2. Begun \in Nat /\ Begun <= 2 * LevelCount
  BY <1>1 DEF Begun
<1>3. ASSUME NEW d \in Nat, 2 * LevelCount = Begun + d
      PROVE  MaxOrders * Begun <= LastId
  <2>1. MaxOrders * (Begun + d) = MaxOrders * Begun + MaxOrders * d
    BY <1>1, <1>2
  <2>2. MaxOrders * d \in Nat /\ MaxOrders * Begun \in Nat
    BY <1>1, <1>2
  <2>3. LastId = MaxOrders * (Begun + d)
    BY <1>1, <1>3 DEF LastId
  <2> QED
    BY <2>1, <2>2, <2>3
<1>4. 2 * LevelCount - Begun \in Nat /\ 2 * LevelCount = Begun + (2 * LevelCount - Begun)
  BY <1>1, <1>2
<1> QED
  BY <1>2, <1>3, <1>4

-----------------------------------------------------------------------------
(* The invariant.                                                          *)

LEMMA SeedInvInit ==
  ASSUME GoodArguments, SeedInit
  PROVE  SeedInv
<1>1. CountersOK
  BY DEF GoodArguments, SeedInit, CountersOK, Side
<1>2. IdsOK
  BY DEF GoodArguments, SeedInit, IdsOK, Begun
<1>3. SeededSoFar
  BY DEF SeedInit, SeededSoFar, LevelsType, IndexType, WellFormed, OfSystem
<1> QED
  BY <1>1, <1>2, <1>3 DEF SeedInv

\* A level begins: its price is one of its side and it may use MaxOrders ids.
LEMMA NextLevelInv ==
  ASSUME GoodArguments, SeedInv, NextLevel
  PROVE  SeedInv'
<1>1. /\ CountersOK /\ IdsOK /\ SeededSoFar /\ side \in Side
      /\ level < LevelCount /\ level' = level + 1
      /\ UNCHANGED <<levels, index, next_id, side>>
  BY DEF SeedInv, NextLevel, CountersOK, bookVars
<1>2. price' \in SidePrice(side)
  <2> DEFINE half == Spread \div 2
  <2>1. PICK jitter \in {0, 1} : price' = BasePrice(side, level) + jitter
    BY DEF NextLevel
  <2>2. half \in Nat /\ half >= 1
    BY SidesApart
  <2>3. /\ MidPrice - half - LevelCount >= 0 /\ MidPrice + half + LevelCount <= MaxPrice
        /\ MidPrice \in Nat /\ LevelCount \in Nat /\ MaxPrice \in Nat /\ level \in Nat
    BY <1>1, BookAssumption DEF GoodArguments, CountersOK
  <2>4. /\ BasePrice("Buy", level) = MidPrice - half - level
        /\ BasePrice("Sell", level) = MidPrice + half + level
        /\ SidePrice("Buy") = 1..(MidPrice - half + 1)
        /\ SidePrice("Sell") = (MidPrice + half)..MaxPrice
    BY DEF BasePrice, SidePrice
  <2> HIDE DEF half
  <2>5. CASE side = "Buy"
    BY <1>1, <2>1, <2>2, <2>3, <2>4, <2>5
  <2>6. CASE side = "Sell"
    BY <1>1, <2>1, <2>2, <2>3, <2>4, <2>6
  <2> QED
    BY <1>1, <2>5, <2>6 DEF Side
<1>3. remaining' \in Nat /\ budget' \in Nat /\ orders' \in 1..MaxOrders /\ MaxOrders \in Nat
  <2>1. remaining' \in 0..budget /\ budget' = budget - remaining' /\ orders' \in 1..MaxOrders
    BY DEF NextLevel
  <2>2. budget \in Nat /\ MaxOrders \in Nat
    BY <1>1 DEF CountersOK, GoodArguments
  <2>3. remaining' \in Nat /\ remaining' <= budget
    BY <2>1, <2>2
  <2>4. budget' \in Nat
    <3>1. \A m, n \in Nat : n <= m => m - n \in Nat
      OBVIOUS
    <3> QED
      BY <2>1, <2>2, <2>3, <3>1
  <2> QED
    BY <2>1, <2>2, <2>3, <2>4
<1>4. price' \in Int
  BY <1>2, SidesApart, BookAssumption, <1>1 DEF Price
<1>5. CountersOK'
  <2>1. level' \in 0..LevelCount /\ LevelCount \in Nat
    BY <1>1 DEF CountersOK, GoodArguments
  <2>2. SidePrice(side)' = SidePrice(side)
    BY <1>1 DEF SidePrice
  <2>3. orders' \in Nat /\ orders' > 0
    BY <1>3
  <2> QED
    BY <1>1, <1>2, <1>3, <1>4, <2>1, <2>2, <2>3 DEF CountersOK
<1>6. IdsOK'
  <2>1. Begun \in Nat /\ Begun' = Begun + 1
    <3>1. Begun \in Nat
      BY <1>1, IdsInRange
    <3>2. level \in Nat /\ LevelCount \in Nat
      BY <1>1 DEF CountersOK, GoodArguments
    <3> QED
      BY <1>1, <3>1, <3>2 DEF Begun, Side
  <2>2. next_id - 1 <= MaxOrders * Begun
    BY <1>1, <1>3, <2>1 DEF IdsOK, CountersOK
  <2>3. MaxOrders * (Begun + 1) = MaxOrders * Begun + MaxOrders
    BY <1>3, <2>1
  <2>4. next_id' - 1 + orders' <= MaxOrders * Begun + MaxOrders
    <3>1. next_id \in Int /\ MaxOrders * Begun \in Int /\ orders' \in Int /\ orders' <= MaxOrders
      BY <1>1, <1>3, <2>1 DEF CountersOK
    <3> QED
      BY <1>1, <1>3, <2>2, <3>1
  <2> QED
    BY <1>1, <2>1, <2>3, <2>4 DEF IdsOK
<1>7. SeededSoFar'
  BY <1>1 DEF SeededSoFar, SidePrice
<1> QED
  BY <1>5, <1>6, <1>7 DEF SeedInv

\* An order of a level: its id is new and within LastId, and the order goes
\* through add_resting_order's early returns.
LEMMA PlaceInv ==
  ASSUME GoodArguments, SeedInv, Place
  PROVE  SeedInv'
<1>1. /\ CountersOK /\ IdsOK /\ SeededSoFar /\ remaining > 0 /\ orders > 0
      /\ next_id' = next_id + 1 /\ orders' = orders - 1
      /\ UNCHANGED <<side, level, budget, price>>
  BY DEF SeedInv, Place
<1>2. PICK slice \in Slices : AddRestingOrder(NextOrder(slice)) /\ remaining' = remaining - slice
  BY DEF Place
<1>3. slice \in 1..remaining /\ (orders = 1 => slice = remaining)
  BY <1>1, <1>2 DEF Slices, CountersOK
<1> DEFINE o == NextOrder(slice)
<1>4. o.id = next_id /\ o.user_id = 0 /\ o.side = side /\ o.price = price /\ o.qty = slice
  BY DEF NextOrder
<1>5. side \in Side /\ price \in SidePrice(side) /\ price \in Price
  BY <1>1, SidesApart DEF CountersOK
<1>6. next_id \in OrderId
  <2>1. next_id <= LastId /\ next_id \in Nat /\ next_id >= 1
    BY <1>1, IdsInRange DEF IdsOK, CountersOK, LastId, GoodArguments
  <2>2. LastId \in Nat
    BY DEF LastId, GoodArguments
  <2> QED
    BY <2>1, <2>2 DEF GoodArguments
<1>7. o \in Order
  <2>1. 0 \in User /\ price \in Int /\ slice \in Nat /\ "Limit" \in OrderType
    BY <1>1, <1>3, BookAssumption DEF CountersOK, OrderType
  <2> QED
    BY <1>5, <1>6, <2>1 DEF NextOrder, Order
<1>8. o.qty > 0 /\ o.id \notin DOMAIN index
  BY <1>1, <1>3, <1>4 DEF IdsOK, CountersOK
<1>9. levels' = PushBack(o) /\ index' = Locate(o)
  BY <1>2, <1>8 DEF AddRestingOrder, Addable
<1> HIDE DEF o
<1>10. /\ LevelsType(PushBack(o)) /\ IndexType(Locate(o))
       /\ WellFormed(PushBack(o), Locate(o))
       /\ DOMAIN Locate(o) = DOMAIN index \cup {next_id}
       /\ DOMAIN PushBack(o)[side] = DOMAIN levels[side] \cup {price}
       /\ \A s \in Side : s # side => PushBack(o)[s] = levels[s]
       /\ OfSystem(PushBack(o))
  BY <1>1, <1>4, <1>5, <1>7, <1>8, AddedOrder DEF SeededSoFar
<1>11. CountersOK'
  BY <1>1, <1>2, <1>3, <1>5 DEF CountersOK, SidePrice
<1>12. IdsOK'
  <2>1. Begun' = Begun /\ Begun \in Nat
    BY <1>1, IdsInRange DEF Begun
  <2>2. \A id \in DOMAIN index' : id \in 1..(next_id' - 1)
    BY <1>1, <1>9, <1>10 DEF IdsOK, CountersOK
  <2>3. next_id' - 1 + orders' <= MaxOrders * Begun'
    BY <1>1, <2>1 DEF IdsOK, CountersOK, GoodArguments
  <2> QED
    BY <2>2, <2>3 DEF IdsOK
<1>13. \A s \in Side : DOMAIN levels'[s] \subseteq SidePrice(s)
  BY <1>1, <1>5, <1>9, <1>10 DEF SeededSoFar
<1>14. SeededSoFar'
  BY <1>9, <1>10, <1>13 DEF SeededSoFar, SidePrice
<1> QED
  BY <1>11, <1>12, <1>14 DEF SeedInv

\* The other side begins with the ids where this one stopped.
LEMMA EndOfSideInv ==
  ASSUME GoodArguments, SeedInv, EndOfSide
  PROVE  SeedInv'
<1>1. /\ CountersOK /\ IdsOK /\ SeededSoFar /\ side \in Side
      /\ remaining = 0 /\ level = LevelCount /\ level' = 0 /\ budget' = TargetDepth
      /\ side' = IF side = "Buy" THEN "Sell" ELSE "done"
      /\ UNCHANGED <<levels, index, next_id, price, remaining, orders>>
  BY DEF SeedInv, EndOfSide, CountersOK, bookVars
<1>2. CountersOK'
  BY <1>1 DEF CountersOK, GoodArguments, Side
<1>3. IdsOK'
  <2>1. Begun' = Begun
    BY <1>1 DEF Begun, Side, GoodArguments
  <2> QED
    BY <1>1, <2>1 DEF IdsOK
<1>4. SeededSoFar'
  BY <1>1 DEF SeededSoFar, SidePrice
<1> QED
  BY <1>2, <1>3, <1>4 DEF SeedInv

LEMMA SeedInvStep ==
  ASSUME GoodArguments, SeedInv, [SeedNext]_seedVars
  PROVE  SeedInv'
<1>1. CASE NextLevel
  BY <1>1, NextLevelInv
<1>2. CASE Place
  BY <1>2, PlaceInv
<1>3. CASE EndOfSide
  BY <1>3, EndOfSideInv
<1>4. CASE UNCHANGED seedVars
  BY <1>4 DEF seedVars, bookVars, SeedInv, CountersOK, IdsOK, SeededSoFar, Begun, SidePrice
<1> QED
  BY <1>1, <1>2, <1>3, <1>4 DEF SeedNext, Return

-----------------------------------------------------------------------------
(* What seed_book promises.                                                *)

\* What the engine assumes of its book (SeedAssumption) is what seed_book
\* leaves: a well-formed book of the system's orders whose sides are apart,
\* with ids up to LastId only.
THEOREM SeedingIsGood ==
  ASSUME GoodArguments
  PROVE  SeedSpec => []SeedIsGood
<1>1. SeedInit => SeedInv
  BY SeedInvInit
<1>2. SeedInv /\ [SeedNext]_seedVars => SeedInv'
  BY SeedInvStep
<1>3. SeedInv => SeedIsGood
  <2> SUFFICES ASSUME SeedInv, side = "done" PROVE Seeded(levels, index, 1..LastId)
    BY DEF SeedIsGood
  <2>1. CountersOK /\ IdsOK /\ SeededSoFar
    BY DEF SeedInv
  <2>2. Uncrossed(levels)
    BY <2>1, SidesApart DEF SeededSoFar, Uncrossed, Side
  <2>3. DOMAIN index \subseteq 1..LastId
    BY <2>1, IdsInRange DEF IdsOK, CountersOK, LastId, GoodArguments
  <2> QED
    BY <2>1, <2>2, <2>3 DEF SeededSoFar, Seeded
<1> QED
  BY <1>1, <1>2, <1>3, PTL DEF SeedSpec

=============================================================================

