--------------------------- MODULE OrderBookProofs ---------------------------
(***************************************************************************)
(* Lemmas about the book's operators, for every book: what the proofs of   *)
(* the matching engine and those of seed_book share.                       *)
(***************************************************************************)
EXTENDS OrderBook, FoldProofs

\* A nonempty set of prices has a least and a greatest element.
LEMMA PriceExtremes ==
  ASSUME NEW T \in SUBSET Price, T # {}
  PROVE  /\ \E x \in T : \A y \in T : x <= y
         /\ \E x \in T : \A y \in T : y <= x
BY BookAssumption, IntervalExtremes DEF Price

\* best_bid and best_ask: Best is the extreme key of a nonempty side.
LEMMA BestIsBest ==
  ASSUME NEW side \in Side, DOMAIN levels[side] \subseteq Price, HasBest(side)
  PROVE  /\ Best(side) \in DOMAIN levels[side]
         /\ \A q \in DOMAIN levels[side] : ~Better(side, q, Best(side))
<1>1. \E p \in DOMAIN levels[side] : \A q \in DOMAIN levels[side] : ~Better(side, q, p)
  <2> DEFINE D == DOMAIN levels[side]
  <2>1. D \in SUBSET Price /\ D # {} /\ D \subseteq Int
    BY BookAssumption DEF HasBest, Price
  <2> HIDE DEF D
  <2>2. /\ \E x \in D : \A y \in D : x <= y
        /\ \E x \in D : \A y \in D : y <= x
    BY <2>1, PriceExtremes
  <2>3. \E p \in D : \A q \in D : ~Better(side, q, p)
    BY <2>1, <2>2 DEF Better, Side
  <2> QED
    BY <2>3 DEF D
<1> QED
  BY <1>1 DEF Best

\* What removing order i does to a list.
LEMMA RemoveAtProperties ==
  ASSUME NEW S, NEW s \in Seq(S), NEW i \in 1..Len(s)
  PROVE  /\ RemoveAt(s, i) \in Seq(S)
         /\ Len(RemoveAt(s, i)) = Len(s) - 1
         /\ \A k \in 1..(Len(s) - 1) :
              RemoveAt(s, i)[k] = IF k < i THEN s[k] ELSE s[k + 1]
<1> DEFINE l == SubSeq(s, 1, i - 1)
           r == SubSeq(s, i + 1, Len(s))
<1>1. /\ l \in Seq(S) /\ Len(l) = i - 1
      /\ \A k \in 1..(i - 1) : l[k] = s[k]
  <2>1. \A k \in 1..(i - 1) : s[k] \in S
    BY ElementOfSeq, LenProperties
  <2>2. /\ l \in Seq(S)
        /\ Len(l) = IF 1 <= i - 1 THEN (i - 1) - 1 + 1 ELSE 0
        /\ \A k \in 1..((i - 1) - 1 + 1) : l[k] = s[1 + k - 1]
    BY <2>1, SubSeqProperties, i - 1 \in Int, 1 \in Int
  <2> QED
    BY <2>2
<1>2. /\ r \in Seq(S) /\ Len(r) = Len(s) - i
      /\ \A k \in 1..(Len(s) - i) : r[k] = s[i + k]
  <2>1. \A k \in (i + 1)..Len(s) : s[k] \in S
    BY ElementOfSeq, LenProperties
  <2>2. /\ r \in Seq(S)
        /\ Len(r) = IF i + 1 <= Len(s) THEN Len(s) - (i + 1) + 1 ELSE 0
        /\ \A k \in 1..(Len(s) - (i + 1) + 1) : r[k] = s[(i + 1) + k - 1]
    BY <2>1, SubSeqProperties, LenProperties
  <2> QED
    BY <2>2, LenProperties
<1>3. /\ l \o r \in Seq(S) /\ Len(l \o r) = Len(l) + Len(r)
      /\ \A k \in 1..(Len(l) + Len(r)) : (l \o r)[k] =
           IF k <= Len(l) THEN l[k] ELSE r[k - Len(l)]
  BY <1>1, <1>2, ConcatProperties
<1>4. RemoveAt(s, i) = l \o r
  BY DEF RemoveAt
<1> HIDE DEF l, r
<1>5. Len(l) + Len(r) = Len(s) - 1
  BY <1>1, <1>2, LenProperties
<1>6. ASSUME NEW k \in 1..(Len(s) - 1)
      PROVE  RemoveAt(s, i)[k] = IF k < i THEN s[k] ELSE s[k + 1]
  BY <1>1, <1>2, <1>3, <1>4, <1>5, LenProperties
<1> QED
  BY <1>3, <1>4, <1>5, <1>6

\* Storing a level changes that level only, and erases it when it is empty.
LEMMA SetLevelProperties ==
  ASSUME LevelsType(levels),
         NEW side \in Side, NEW p \in Price, NEW q \in Seq(Order)
  PROVE  /\ LevelsType(SetLevel(side, p, q))
         /\ \A s \in Side : s # side => SetLevel(side, p, q)[s] = levels[s]
         /\ q = <<>> => DOMAIN SetLevel(side, p, q)[side] = DOMAIN levels[side] \ {p}
         /\ q # <<>> => DOMAIN SetLevel(side, p, q)[side] = DOMAIN levels[side] \cup {p}
         /\ q # <<>> => SetLevel(side, p, q)[side][p] = q
         /\ \A r \in DOMAIN SetLevel(side, p, q)[side] :
              r # p => SetLevel(side, p, q)[side][r] = levels[side][r]
<1> DEFINE nl == SetLevel(side, p, q)
           m == IF q = <<>> THEN Erase(levels[side], p) ELSE Put(levels[side], p, q)
<1>1. nl = [s \in Side |-> IF s = side THEN m ELSE levels[s]]
  BY DEF SetLevel, LevelsType
<1>2. /\ m = [r \in DOMAIN m |-> m[r]]
      /\ q = <<>> => DOMAIN m = DOMAIN levels[side] \ {p}
      /\ q # <<>> => DOMAIN m = DOMAIN levels[side] \cup {p}
      /\ q # <<>> => m[p] = q
      /\ \A r \in DOMAIN m : r # p => m[r] = levels[side][r]
  BY DEF Erase, Put
<1> HIDE DEF nl, m
<1>3. DOMAIN m \subseteq Price /\ \A r \in DOMAIN m : m[r] \in Seq(Order)
  BY <1>2 DEF LevelsType
<1>4. nl[side] = m /\ \A s \in Side : s # side => nl[s] = levels[s]
  BY <1>1
<1>5. nl = [s \in Side |-> nl[s]]
  BY <1>1
<1>6. LevelsType(nl)
  <2>1. ASSUME NEW s \in Side
        PROVE  /\ nl[s] = [r \in DOMAIN nl[s] |-> nl[s][r]]
               /\ DOMAIN nl[s] \subseteq Price
               /\ \A r \in DOMAIN nl[s] : nl[s][r] \in Seq(Order)
    <3>1. CASE s = side
      BY <1>2, <1>3, <1>4, <3>1
    <3>2. CASE s # side
      BY <1>4, <3>2 DEF LevelsType
    <3> QED
      BY <3>1, <3>2
  <2> QED
    BY <1>5, <2>1, Zenon DEF LevelsType
<1> QED
  BY <1>2, <1>4, <1>6 DEF nl

\* A well-formed book stays so when one level is replaced by a well-formed
\* queue and the new index still covers all the others.
LEMMA WellFormedStep ==
  ASSUME LevelsType(levels), WellFormed(levels, index),
         NEW side \in Side, NEW p \in Price, NEW q \in Seq(Order), NEW ix,
         q # <<>> => QueueOK(q, side, p, ix),
         \A s \in Side : \A r \in DOMAIN levels[s] :
           s # side \/ r # p => QueueOK(levels[s][r], s, r, ix)
  PROVE  WellFormed(SetLevel(side, p, q), ix)
<1> DEFINE nl == SetLevel(side, p, q)
<1>1. \A s \in Side : s # side => nl[s] = levels[s]
  BY SetLevelProperties
<1>2. q = <<>> => DOMAIN nl[side] = DOMAIN levels[side] \ {p}
  BY SetLevelProperties
<1>3. q # <<>> => DOMAIN nl[side] = DOMAIN levels[side] \cup {p}
  BY SetLevelProperties
<1>4. q # <<>> => nl[side][p] = q
  BY SetLevelProperties
<1>5. \A r \in DOMAIN nl[side] : r # p => nl[side][r] = levels[side][r]
  BY SetLevelProperties
<1> HIDE DEF nl
<1>6. ASSUME NEW s \in Side, NEW r \in DOMAIN nl[s]
      PROVE  nl[s][r] # <<>> /\ QueueOK(nl[s][r], s, r, ix)
  <2>1. CASE s # side
    BY <1>1, <2>1 DEF WellFormed
  <2>2. CASE s = side /\ r # p
    BY <1>2, <1>3, <1>5, <2>2 DEF WellFormed
  <2>3. CASE s = side /\ r = p
    BY <1>2, <1>3, <1>4, <2>3
  <2> QED
    BY <2>1, <2>2, <2>3
<1> QED
  BY <1>6 DEF WellFormed, nl

\* An order with another quantity is an order.
LEMMA OrderQty ==
  ASSUME NEW o \in Order, NEW n \in Nat
  PROVE  [o EXCEPT !.qty = n] \in Order
BY DEF Order

\* The opposite of a side is the other side.
LEMMA OppositeSide ==
  ASSUME NEW side \in Side
  PROVE  Opposite(side) \in Side /\ Opposite(side) # side
BY DEF Opposite, Side

\* add_resting_order puts the taker behind its level and into the index.
LEMMA PushBackIsSetLevel ==
  ASSUME LevelsType(levels), NEW o \in Order, o.price \in Price,
         NEW old, old = IF o.price \in DOMAIN levels[o.side]
                        THEN levels[o.side][o.price] ELSE <<>>
  PROVE  /\ old \in Seq(Order)
         /\ Append(old, o) \in Seq(Order) /\ Append(old, o) # <<>>
         /\ Len(Append(old, o)) = Len(old) + 1
         /\ PushBack(o) = SetLevel(o.side, o.price, Append(old, o))
<1>1. o.side \in Side
  BY DEF Order
<1>2. old \in Seq(Order)
  BY <1>1, EmptySeq DEF LevelsType
<1>3. Append(old, o) \in Seq(Order) /\ Len(Append(old, o)) = Len(old) + 1
  BY <1>2, AppendProperties
<1>4. Append(old, o) # <<>>
  BY <1>2, <1>3, LenProperties, EmptySeq
<1>5. PushBack(o) = SetLevel(o.side, o.price, Append(old, o))
  BY <1>4 DEF PushBack, SetLevel
<1> QED
  BY <1>2, <1>3, <1>4, <1>5

\* index_ stays well typed when an entry is erased.
LEMMA EraseIndexType ==
  ASSUME IndexType(index), NEW id
  PROVE  IndexType(Erase(index, id)) /\ DOMAIN Erase(index, id) = DOMAIN index \ {id}
BY DEF IndexType, Erase

\* Rewriting an existing level adds no price.
LEMMA SetLevelDomain ==
  ASSUME LevelsType(levels), NEW side \in Side, NEW p \in Price, NEW q \in Seq(Order),
         p \in DOMAIN levels[side]
  PROVE  \A s \in Side : DOMAIN SetLevel(side, p, q)[s] \subseteq DOMAIN levels[s]
<1>1. q = <<>> => DOMAIN SetLevel(side, p, q)[side] = DOMAIN levels[side] \ {p}
  BY SetLevelProperties
<1>2. q # <<>> => DOMAIN SetLevel(side, p, q)[side] = DOMAIN levels[side] \cup {p}
  BY SetLevelProperties
<1>3. \A s \in Side : s # side => SetLevel(side, p, q)[s] = levels[s]
  BY SetLevelProperties
<1> QED
  BY <1>1, <1>2, <1>3

\* The taker behind the orders of its own level.
LEMMA PushBackOK ==
  ASSUME NEW old \in Seq(Order), NEW o \in Order, NEW ix,
         old # <<>> => QueueOK(old, o.side, o.price, ix),
         o.qty > 0, o.id \notin DOMAIN ix
  PROVE  QueueOK(Append(old, o), o.side, o.price,
                 Put(ix, o.id, [side |-> o.side, price |-> o.price]))
<1> DEFINE q  == Append(old, o)
           jx == Put(ix, o.id, [side |-> o.side, price |-> o.price])
           n  == Len(old)
<1>1. n \in Nat /\ DOMAIN old = 1..n
  BY LenProperties
<1>2. /\ DOMAIN q = 1..(n + 1)
      /\ \A k \in 1..n : q[k] = old[k]
      /\ q[n + 1] = o
  BY AppendProperties, LenProperties
<1>3. /\ DOMAIN jx = DOMAIN ix \cup {o.id}
      /\ jx[o.id] = [side |-> o.side, price |-> o.price]
      /\ \A x \in DOMAIN ix : jx[x] = ix[x]
  BY DEF Put
<1>4. ASSUME NEW k \in 1..n
      PROVE  /\ old[k].side = o.side /\ old[k].price = o.price /\ old[k].qty > 0
             /\ old[k].id \in DOMAIN ix
             /\ ix[old[k].id] = [side |-> o.side, price |-> o.price]
             /\ \A j \in 1..n : old[k].id = old[j].id => k = j
  BY <1>1, EmptySeq DEF QueueOK
<1> HIDE DEF q, jx, n
<1>5. ASSUME NEW k \in 1..(n + 1)
      PROVE  /\ q[k].side = o.side /\ q[k].price = o.price /\ q[k].qty > 0
             /\ q[k].id \in DOMAIN jx
             /\ jx[q[k].id] = [side |-> o.side, price |-> o.price]
             /\ \A j \in 1..(n + 1) : q[k].id = q[j].id => k = j
  <2>1. \A j \in 1..(n + 1) : j \in 1..n \/ j = n + 1
    BY <1>1
  <2>2. CASE k \in 1..n
    BY <1>2, <1>3, <1>4, <2>1, <2>2
  <2>3. CASE k = n + 1
    BY <1>2, <1>3, <1>4, <2>1, <2>3
  <2> QED
    BY <2>1, <2>2, <2>3
<1>6. QueueOK(q, o.side, o.price, jx)
  BY <1>2, <1>5, Zenon DEF QueueOK
<1> QED
  BY <1>6 DEF q, jx

\* The index may gain an id that is not in a queue.
LEMMA QueueOKPut ==
  ASSUME NEW queue, NEW side, NEW price, NEW ix, QueueOK(queue, side, price, ix),
         NEW id, NEW loc, id \notin DOMAIN ix
  PROVE  QueueOK(queue, side, price, Put(ix, id, loc))
BY DEF QueueOK, Put

\* Unlinking order i: the others of its queue have other ids.
LEMMA RemoveAtOK ==
  ASSUME NEW queue \in Seq(Order), NEW side, NEW price, NEW ix,
         QueueOK(queue, side, price, ix), NEW i \in 1..Len(queue)
  PROVE  QueueOK(RemoveAt(queue, i), side, price, Erase(ix, queue[i].id))
<1> DEFINE q  == RemoveAt(queue, i)
           n  == Len(queue)
           jx == Erase(ix, queue[i].id)
           at == [k \in 1..(n - 1) |-> IF k < i THEN k ELSE k + 1]
<1>1. n \in Nat /\ DOMAIN queue = 1..n
  BY LenProperties
<1>2. /\ q \in Seq(Order) /\ Len(q) = n - 1
      /\ \A k \in 1..(n - 1) : q[k] = IF k < i THEN queue[k] ELSE queue[k + 1]
  BY RemoveAtProperties
<1>3. DOMAIN q = 1..(n - 1)
  BY <1>2, LenProperties
<1>4. /\ DOMAIN jx = DOMAIN ix \ {queue[i].id}
      /\ \A x \in DOMAIN jx : jx[x] = ix[x]
  BY DEF Erase
<1>5. /\ \A k \in 1..(n - 1) : at[k] \in 1..n /\ at[k] # i
      /\ \A j, k \in 1..(n - 1) : at[j] = at[k] => j = k
  BY <1>1
<1>6. \A k \in 1..(n - 1) : q[k] = queue[at[k]]
  BY <1>2
<1> HIDE DEF q, n, jx, at
<1>7. ASSUME NEW k \in 1..n
      PROVE  /\ queue[k].side = side /\ queue[k].price = price /\ queue[k].qty > 0
             /\ queue[k].id \in DOMAIN ix
             /\ ix[queue[k].id] = [side |-> side, price |-> price]
             /\ \A j \in 1..n : queue[k].id = queue[j].id => k = j
  BY <1>1 DEF QueueOK
<1>8. i \in 1..n
  BY DEF n
<1>9. ASSUME NEW k \in 1..(n - 1)
      PROVE  /\ q[k].side = side /\ q[k].price = price /\ q[k].qty > 0
             /\ q[k].id \in DOMAIN jx
             /\ jx[q[k].id] = [side |-> side, price |-> price]
             /\ \A j \in 1..(n - 1) : q[k].id = q[j].id => k = j
  <2>1. q[k] = queue[at[k]] /\ at[k] \in 1..n /\ at[k] # i
    BY <1>5, <1>6
  <2>2. q[k].id # queue[i].id
    BY <1>7, <1>8, <2>1
  <2>3. \A j \in 1..(n - 1) : q[k].id = q[j].id => k = j
    BY <1>5, <1>6, <1>7
  <2> QED
    BY <1>4, <1>7, <2>1, <2>2, <2>3
<1>10. QueueOK(q, side, price, jx)
  BY <1>3, <1>9, Zenon DEF QueueOK
<1> QED
  BY <1>10 DEF q, jx

\* add_resting_order through its early returns: the order is behind its level,
\* the index has it, nothing else of the book changes, and it is well formed.
LEMMA AddedOrder ==
  ASSUME LevelsType(levels), IndexType(index), WellFormed(levels, index),
         NEW o \in Order, o.price \in Price, o.qty > 0, o.id \notin DOMAIN index
  PROVE  /\ LevelsType(PushBack(o)) /\ IndexType(Locate(o))
         /\ WellFormed(PushBack(o), Locate(o))
         /\ DOMAIN Locate(o) = DOMAIN index \cup {o.id}
         /\ DOMAIN PushBack(o)[o.side] = DOMAIN levels[o.side] \cup {o.price}
         /\ \A s \in Side : s # o.side => PushBack(o)[s] = levels[s]
         /\ OfSystem(levels) /\ o.user_id = 0 => OfSystem(PushBack(o))
<1> DEFINE side == o.side
           p    == o.price
           old  == IF p \in DOMAIN levels[side] THEN levels[side][p] ELSE <<>>
           q    == Append(old, o)
<1>1. side \in Side /\ p \in Price /\ o.id \in OrderId
  BY DEF Order
<1>2. /\ old \in Seq(Order) /\ q \in Seq(Order) /\ q # <<>>
      /\ PushBack(o) = SetLevel(side, p, q)
  BY PushBackIsSetLevel
<1>3. /\ LevelsType(SetLevel(side, p, q))
      /\ \A s \in Side : s # side => SetLevel(side, p, q)[s] = levels[s]
      /\ DOMAIN SetLevel(side, p, q)[side] = DOMAIN levels[side] \cup {p}
      /\ SetLevel(side, p, q)[side][p] = q
      /\ \A r \in DOMAIN SetLevel(side, p, q)[side] :
           r # p => SetLevel(side, p, q)[side][r] = levels[side][r]
  <2> HIDE DEF q, old, p, side
  <2> QED
    BY <1>1, <1>2, SetLevelProperties
<1>4. Locate(o) = Put(index, o.id, [side |-> side, price |-> p])
  BY DEF Locate
<1>5. IndexType(Locate(o)) /\ DOMAIN Locate(o) = DOMAIN index \cup {o.id}
  BY <1>1, <1>4 DEF Put, IndexType
<1>6. WellFormed(SetLevel(side, p, q), Locate(o))
  <2>1. old # <<>> => QueueOK(old, side, p, index)
    BY <1>1 DEF WellFormed
  <2>2. QueueOK(q, side, p, Locate(o))
    BY <1>2, <1>4, <2>1, PushBackOK
  <2>3. \A s \in Side : \A r \in DOMAIN levels[s] : QueueOK(levels[s][r], s, r, Locate(o))
    BY <1>4, QueueOKPut DEF WellFormed
  <2> HIDE DEF q, old
  <2> QED
    BY <1>1, <1>2, <2>2, <2>3, WellFormedStep
<1>7. ASSUME OfSystem(levels), o.user_id = 0
      PROVE  OfSystem(SetLevel(side, p, q))
  <2>1. \A i \in DOMAIN old : old[i].user_id = 0
    BY <1>1, <1>7, EmptySeq, LenProperties DEF OfSystem
  <2>2. \A i \in DOMAIN q : q[i].user_id = 0
    BY <1>2, <1>7, <2>1, AppendProperties, LenProperties
  <2> HIDE DEF q, old
  <2>3. ASSUME NEW s \in Side, NEW r \in DOMAIN SetLevel(side, p, q)[s],
               NEW i \in DOMAIN SetLevel(side, p, q)[s][r]
        PROVE  SetLevel(side, p, q)[s][r][i].user_id = 0
    <3>1. CASE s = side /\ r = p
      BY <1>3, <2>2, <2>3, <3>1
    <3>2. CASE s = side /\ r # p
      BY <1>1, <1>3, <1>7, <2>3, <3>2 DEF OfSystem
    <3>3. CASE s # side
      BY <1>3, <1>7, <2>3, <3>3 DEF OfSystem
    <3> QED
      BY <3>1, <3>2, <3>3
  <2> QED
    BY <2>3 DEF OfSystem
<1> QED
  BY <1>2, <1>3, <1>5, <1>6, <1>7

=============================================================================
