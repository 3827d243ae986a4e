--------------------------- MODULE WsServerProofs ---------------------------
(* Proofs about WsServer, for any connections and workers, any capacity of *)
(* a socket and any number of operations.                                  *)
EXTENDS WsServer, SequenceTheorems, WellFoundedInduction, TLAPS

Broadcasting == {"broadcast", "loop", "writing"}
Sending == {"send", "sending"}

Label == {"absent", "idle", "book", "plan", "broadcast", "loop", "writing", "send", "sending",
          "leaving", "done", "handshake", "enlist", "book snapshot", "orders snapshot"}

\* Where each kind of thread can be, and who can own a mutex.
PcOK ==
  /\ pc \in [Actor -> Label]
  /\ \A w \in Worker : pc[w] \in {"idle", "book", "plan"} \cup Broadcasting
  /\ \A c \in Client : pc[c] \in {"absent", "idle", "book", "plan", "leaving", "done"}
                                   \cup Broadcasting \cup Sending
  /\ pc[Acceptor] \in {"idle", "handshake", "enlist", "book snapshot", "orders snapshot"} \cup Sending
  /\ book_mtx \in Actor \cup {Nobody}
  /\ clients_mtx \in Actor \cup {Nobody}
  /\ write_mtx \in [Client -> Actor \cup {Nobody}]

\* What a broadcast is about to send shows the book as it is, and its iterator
\* is inside the list while it writes.
BroadcastOK ==
  \A a \in Actor :
    /\ pc[a] \in Broadcasting =>
         outbox[a] \in {<<Msg("book", version), Msg("orders", version)>>,
                        <<Msg("orders", version)>>, <<Msg("trade", version)>>}
    /\ pc[a] \in {"loop", "writing"} => at[a] >= 1
    /\ pc[a] = "writing" => at[a] <= Len(clients)

\* What send_to_client is about to send: one message, a snapshot as the book
\* is, an answer no newer than the book its client was sent.
LetterOK ==
  /\ pc[Acceptor] \in Sending =>
       outbox[Acceptor] \in {<<Msg("session", 1)>>, <<Msg("book", version)>>, <<Msg("orders", version)>>}
  /\ \A c \in Client : pc[c] \in Sending =>
       \E v \in 0..version : /\ outbox[c] = <<Msg("reply", v)>>
                             /\ link[c] = "open" => v <= LastSent(c, "book")

Handshaking == {"handshake", "enlist"}

\* A connection from the accept to the end of its handler.
LinkOf(c) ==
  /\ c = guest => pc[c] = "absent" /\ link[c] # "away"
  /\ c = guest /\ pc[Acceptor] # "handshake" => link[c] # "silent"
  /\ c = guest /\ pc[Acceptor] \in Handshaking => c \notin ToSet(clients)
  /\ link[c] \in {"away", "silent"} => pc[c] = "absent" /\ c \notin ToSet(clients)
  /\ link[c] = "open" => c = guest \/ pc[c] # "absent"
  /\ link[c] # "open" => sock[c] = <<>> /\ view[c] = NothingSeen
  /\ c = guest /\ pc[Acceptor] \in Handshaking => sock[c] = <<>> /\ view[c] = NothingSeen
  /\ pc[c] \in {"leaving", "done"} => link[c] = "gone"
  /\ link[c] = "open" => c \in ToSet(clients) \/ (c = guest /\ pc[Acceptor] \in Handshaking)

LinkOK ==
  /\ guest = Nobody <=> pc[Acceptor] = "idle"
  /\ \A c \in Client : LinkOf(c)

Kinds == {"book", "orders", "trade"}
Others == {"orders", "trade", "reply"}

\* The messages s on their way to a client that has seen w, when the book is at
\* n: each kind in order and none newer than the book; a book is no older than
\* anything sent before it; whatever follows a book is no newer than some book.
Ordered(s, w, n) ==
  /\ \A t \in MsgType : w[t] <= n
  /\ \A i \in DOMAIN s : s[i].v <= n
  /\ \A i \in DOMAIN s : s[i].type \in Kinds => s[i].v >= w[s[i].type]
  /\ \A i, j \in DOMAIN s : i < j /\ s[i].type \in Kinds /\ s[j].type = s[i].type => s[i].v <= s[j].v
  /\ \A i \in DOMAIN s : s[i].type \in {"book", "orders"} => s[i].v >= 1
  /\ \A j \in DOMAIN s : s[j].type = "book" =>
       /\ \A t \in Others : w[t] <= s[j].v
       /\ \A i \in DOMAIN s : i < j => s[i].v <= s[j].v
  /\ \A j \in DOMAIN s : s[j].type \in Others =>
       \/ s[j].v <= w.book
       \/ \E i \in DOMAIN s : i < j /\ s[i].type = "book" /\ s[j].v <= s[i].v
       \/ w.book = 0 /\ \A i \in DOMAIN s : i < j => s[i].type # "book"
  /\ w.book > 0 => \A t \in Others : w[t] <= w.book

SockOK == \A c \in Client : Ordered(sock[c], view[c], version)

\* A broadcast still has a message of type t for client c.
OwedBy(a, c, t) ==
  /\ pc[a] \in Broadcasting
  /\ \E k \in DOMAIN outbox[a] :
       /\ outbox[a][k].type = t
       /\ \/ k > 1
          \/ pc[a] = "broadcast"
          \/ \E i \in DOMAIN clients : i >= at[a] /\ clients[i] = c

\* The acceptor has sent the book and still has the orders to send.
OrdersNext ==
  \/ pc[Acceptor] = "orders snapshot"
  \/ pc[Acceptor] \in Sending /\ Head(outbox[Acceptor]).type = "orders"

\* A client that has been sent a book, or orders, has been sent the newest or
\* is about to be; a handler's client has been sent both.
FeedOK ==
  /\ \A c \in Client : link[c] = "open" => \A t \in {"book", "orders"} :
       LastSent(c, t) > 0 => LastSent(c, t) = version \/ \E a \in Actor : OwedBy(a, c, t)
  /\ \A c \in Client : link[c] = "open" /\ pc[c] # "absent" =>
       LastSent(c, "book") > 0 /\ LastSent(c, "orders") > 0
  /\ \A c \in Client : link[c] = "open" /\ c = guest /\ OrdersNext =>
       LastSent(c, "book") > 0

FeedInv == /\ WsTypeOK /\ PcOK /\ BroadcastOK /\ LetterOK
           /\ LinkOK /\ ListedIsOwned /\ SockOK /\ FeedOK

-----------------------------------------------------------------------------
(* Sequences.                                                              *)

\* A nonempty set of naturals has a least element.
LEMMA SmallestOf ==
  ASSUME NEW T \in SUBSET Nat, T # {}
  PROVE  \E x \in T : \A y \in T : x <= y
<1>1. \E x \in T : \A y \in T : ~(<<y, x>> \in OpToRel(<, Nat))
  BY NatLessThanWellFounded, WFMin
<1>2. PICK x \in T : \A y \in T : ~(<<y, x>> \in OpToRel(<, Nat))
  BY <1>1
<1>3. ASSUME NEW y \in T, y < x PROVE FALSE
  <2>1. <<y, x>> \in Nat \X Nat
    OBVIOUS
  <2>2. <<y, x>>[1] < <<y, x>>[2]
    BY <1>3
  <2>3. <<y, x>> \in OpToRel(<, Nat)
    BY <2>1, <2>2, Zenon DEF OpToRel
  <2> QED
    BY <1>2, <2>3
<1> QED
  BY <1>3

\* A nonempty set of positions has a last one, which is its Max.
LEMMA LastPosition ==
  ASSUME NEW n \in Nat, NEW T \in SUBSET (1..n), T # {}
  PROVE  Max(T) \in T /\ \A y \in T : y <= Max(T)
<1> DEFINE U == {n - x : x \in T}
<1>1. U \in SUBSET Nat /\ U # {}
  OBVIOUS
<1> HIDE DEF U
<1>2. PICK u \in U : \A v \in U : u <= v
  BY <1>1, SmallestOf
<1>3. PICK x \in T : u = n - x
  BY <1>2 DEF U
<1>4. \A y \in T : n - y \in U
  BY DEF U
<1>5. \A y \in T : x >= y
  BY <1>2, <1>3, <1>4
<1>6. Max(T) \in T /\ \A y \in T : Max(T) >= y
  BY <1>5 DEF Max
<1> QED
  BY <1>6

\* Removing entry i moves the later ones down by one.
LEMMA RemoveAtProperties ==
  ASSUME NEW S, NEW s \in Seq(S), NEW i \in 1..Len(s)
  PROVE  /\ RemoveAt(s, i) \in Seq(S)
         /\ Len(RemoveAt(s, i)) = Len(s) - 1
         /\ \A k \in 1..(Len(s) - 1) :
              RemoveAt(s, i)[k] = IF k < i THEN s[k] ELSE s[k + 1]
<1> DEFINE l == SubSeq(s, 1, i - 1)
           r == SubSeq(s, i + 1, Len(s))
<1>1. /\ l \in Seq(S) /\ Len(l) = i - 1
      /\ \A k \in 1..(i - 1) : l[k] = s[k]
  <2>1. \A k \in 1..(i - 1) : s[k] \in S
    BY ElementOfSeq, LenProperties
  <2>2. /\ l \in Seq(S)
        /\ Len(l) = IF 1 <= i - 1 THEN (i - 1) - 1 + 1 ELSE 0
        /\ \A k \in 1..((i - 1) - 1 + 1) : l[k] = s[1 + k - 1]
    BY <2>1, SubSeqProperties, i - 1 \in Int, 1 \in Int
  <2> QED
    BY <2>2
<1>2. /\ r \in Seq(S) /\ Len(r) = Len(s) - i
      /\ \A k \in 1..(Len(s) - i) : r[k] = s[i + k]
  <2>1. \A k \in (i + 1)..Len(s) : s[k] \in S
    BY ElementOfSeq, LenProperties
  <2>2. /\ r \in Seq(S)
        /\ Len(r) = IF i + 1 <= Len(s) THEN Len(s) - (i + 1) + 1 ELSE 0
        /\ \A k \in 1..(Len(s) - (i + 1) + 1) : r[k] = s[(i + 1) + k - 1]
    BY <2>1, SubSeqProperties, LenProperties
  <2> QED
    BY <2>2, LenProperties
<1>3. /\ l \o r \in Seq(S) /\ Len(l \o r) = Len(l) + Len(r)
      /\ \A k \in 1..(Len(l) + Len(r)) : (l \o r)[k] =
           IF k <= Len(l) THEN l[k] ELSE r[k - Len(l)]
  BY <1>1, <1>2, ConcatProperties
<1>4. RemoveAt(s, i) = l \o r
  BY DEF RemoveAt
<1> HIDE DEF l, r
<1>5. Len(l) + Len(r) = Len(s) - 1
  BY <1>1, <1>2, LenProperties
<1>6. ASSUME NEW k \in 1..(Len(s) - 1)
      PROVE  RemoveAt(s, i)[k] = IF k < i THEN s[k] ELSE s[k + 1]
  BY <1>1, <1>2, <1>3, <1>4, <1>5, LenProperties
<1> QED
  BY <1>3, <1>4, <1>5, <1>6

\* The elements of a list that grows at its end.
LEMMA ToSetAppend ==
  ASSUME NEW S, NEW s \in Seq(S), NEW e \in S
  PROVE  /\ Append(s, e) \in Seq(S)
         /\ ToSet(Append(s, e)) = ToSet(s) \cup {e}
         /\ IsInjective(s) /\ e \notin ToSet(s) => IsInjective(Append(s, e))
<1>1. /\ Append(s, e) \in Seq(S) /\ Len(Append(s, e)) = Len(s) + 1 /\ Len(s) \in Nat
      /\ \A i \in 1..Len(s) : Append(s, e)[i] = s[i]
      /\ Append(s, e)[Len(s) + 1] = e
  BY AppendProperties, LenProperties
<1>2. DOMAIN s = 1..Len(s) /\ DOMAIN Append(s, e) = 1..(Len(s) + 1)
  BY <1>1, LenProperties
<1>3. DOMAIN Append(s, e) = DOMAIN s \cup {Len(s) + 1}
  BY <1>1, <1>2
<1>4. ToSet(Append(s, e)) = ToSet(s) \cup {e}
  BY <1>1, <1>2, <1>3 DEF ToSet
<1>5. ASSUME IsInjective(s), e \notin ToSet(s) PROVE IsInjective(Append(s, e))
  BY <1>1, <1>2, <1>3, <1>5 DEF ToSet, IsInjective
<1> QED
  BY <1>1, <1>4, <1>5

\* The elements of a list that loses entry i.
LEMMA ToSetRemove ==
  ASSUME NEW S, NEW s \in Seq(S), IsInjective(s), NEW i \in DOMAIN s
  PROVE  /\ RemoveAt(s, i) \in Seq(S)
         /\ ToSet(RemoveAt(s, i)) = ToSet(s) \ {s[i]}
         /\ IsInjective(RemoveAt(s, i))
<1> DEFINE q == RemoveAt(s, i)
<1>1. /\ Len(s) \in Nat /\ DOMAIN s = 1..Len(s) /\ i \in 1..Len(s)
  BY LenProperties
<1>2. /\ q \in Seq(S) /\ Len(q) = Len(s) - 1
      /\ \A k \in 1..(Len(s) - 1) : q[k] = IF k < i THEN s[k] ELSE s[k + 1]
  BY <1>1, RemoveAtProperties
<1>3. DOMAIN q = 1..(Len(s) - 1)
  BY <1>2, LenProperties
<1> HIDE DEF q
<1>4. \A k \in DOMAIN q : q[k] \in ToSet(s) \ {s[i]}
  BY <1>1, <1>2, <1>3 DEF ToSet, IsInjective
<1>5. ASSUME NEW k \in DOMAIN s, s[k] # s[i] PROVE s[k] \in ToSet(q)
  <2>1. CASE k < i
    <3>1. k \in DOMAIN q /\ q[k] = s[k]
      BY <1>1, <1>2, <1>3, <2>1
    <3> QED
      BY <3>1 DEF ToSet
  <2>2. CASE k > i
    <3>1. k - 1 \in DOMAIN q /\ q[k - 1] = s[k]
      BY <1>1, <1>2, <1>3, <2>2
    <3> QED
      BY <3>1 DEF ToSet
  <2> QED
    BY <1>1, <1>5, <2>1, <2>2
<1>6. ToSet(q) = ToSet(s) \ {s[i]}
  <2>1. ASSUME NEW x \in ToSet(q) PROVE x \in ToSet(s) \ {s[i]}
    <3>1. PICK k \in DOMAIN q : x = q[k]
      BY <2>1 DEF ToSet
    <3> QED
      BY <1>4, <3>1
  <2>2. ASSUME NEW x \in ToSet(s) \ {s[i]} PROVE x \in ToSet(q)
    <3>1. PICK k \in DOMAIN s : x = s[k]
      BY <2>2 DEF ToSet
    <3> QED
      BY <1>5, <2>2, <3>1
  <2> QED
    BY <2>1, <2>2
<1>7. IsInjective(q)
  <2>1. SUFFICES ASSUME NEW j \in DOMAIN q, NEW k \in DOMAIN q, q[j] = q[k]
                 PROVE  j = k
    BY DEF IsInjective
  <2>2. /\ j \in Nat /\ k \in Nat /\ i \in Nat
        /\ j \in DOMAIN s /\ k \in DOMAIN s /\ j + 1 \in DOMAIN s /\ k + 1 \in DOMAIN s
    BY <1>1, <1>3
  <2>3. \A m, n \in DOMAIN s : s[m] = s[n] => m = n
    BY DEF IsInjective
  <2>4. q[j] = s[IF j < i THEN j ELSE j + 1] /\ q[k] = s[IF k < i THEN k ELSE k + 1]
    BY <1>2, <1>3
  <2>5. (IF j < i THEN j ELSE j + 1) = (IF k < i THEN k ELSE k + 1)
    BY <2>1, <2>2, <2>3, <2>4
  <2> QED
    BY <2>2, <2>5
<1> QED
  BY <1>2, <1>6, <1>7 DEF q

-----------------------------------------------------------------------------
(* The messages on their way to a client.                                  *)

LEMMA Messages ==
  ASSUME NEW s \in Seq(Message)
  PROVE  \A i \in DOMAIN s : s[i].v \in Nat /\ s[i].type \in MsgType
<1>1. DOMAIN s = 1..Len(s)
  BY LenProperties
<1>2. \A i \in DOMAIN s : s[i] \in Message
  BY <1>1, ElementOfSeq
<1> QED
  BY <1>2 DEF Message

\* LastOf is the value of the last message of the type, if there is one.
LEMMA LastOfCases ==
  ASSUME NEW s \in Seq(Message), NEW t, NEW old
  PROVE  \/ LastOf(s, t, old) = old /\ \A i \in DOMAIN s : s[i].type # t
         \/ \E i \in DOMAIN s : /\ s[i].type = t /\ LastOf(s, t, old) = s[i].v
                              /\ \A j \in DOMAIN s : j > i => s[j].type # t
<1> DEFINE T == {i \in DOMAIN s : s[i].type = t}
<1>1. DOMAIN s = 1..Len(s) /\ Len(s) \in Nat
  BY LenProperties
<1>2. CASE T = {}
  BY <1>2 DEF LastOf
<1>3. CASE T # {}
  <2>1. Max(T) \in T /\ \A y \in T : y <= Max(T)
    <3>1. T \in SUBSET (1..Len(s))
      BY <1>1
    <3> HIDE DEF T
    <3> QED
      BY <1>1, <1>3, <3>1, LastPosition
  <2>2. LastOf(s, t, old) = s[Max(T)].v
    BY <1>3 DEF LastOf
  <2> DEFINE k == Max(T)
  <2>3. /\ k \in DOMAIN s /\ s[k].type = t /\ LastOf(s, t, old) = s[k].v
        /\ \A j \in DOMAIN s : s[j].type = t => j <= k
    BY <2>1, <2>2
  <2> HIDE DEF k
  <2>4. \A j \in DOMAIN s : j > k => s[j].type # t
    BY <1>1, <2>3
  <2> QED
    BY <2>3, <2>4
<1> QED
  BY <1>2, <1>3

\* It is the value of whatever message of the type has none after it.
LEMMA LastOfIs ==
  ASSUME NEW s \in Seq(Message), NEW t, NEW old
  PROVE  \A i \in DOMAIN s :
           s[i].type = t /\ (\A j \in DOMAIN s : j > i => s[j].type # t) => LastOf(s, t, old) = s[i].v
<1> SUFFICES ASSUME NEW i \in DOMAIN s,
                    s[i].type = t, \A j \in DOMAIN s : j > i => s[j].type # t
             PROVE  LastOf(s, t, old) = s[i].v
  OBVIOUS
<1>1. DOMAIN s = 1..Len(s) /\ Len(s) \in Nat
  BY LenProperties
<1>2. PICK k \in DOMAIN s : /\ s[k].type = t /\ LastOf(s, t, old) = s[k].v
                            /\ \A j \in DOMAIN s : j > k => s[j].type # t
  BY LastOfCases
<1>3. ~(k > i) /\ ~(i > k)
  BY <1>2
<1>4. k = i
  BY <1>1, <1>3
<1> QED
  BY <1>2, <1>4

\* What sending m does to it.
LEMMA LastOfAppend ==
  ASSUME NEW s \in Seq(Message), NEW m \in Message, NEW t, NEW old
  PROVE  LastOf(Append(s, m), t, old) = IF m.type = t THEN m.v ELSE LastOf(s, t, old)
<1> DEFINE q == Append(s, m)
<1>1. DOMAIN s = 1..Len(s) /\ Len(s) \in Nat
  BY LenProperties
<1>2. /\ q \in Seq(Message) /\ Len(q) = Len(s) + 1
      /\ \A i \in 1..Len(s) : q[i] = s[i]
      /\ q[Len(s) + 1] = m
  BY AppendProperties
<1>3. DOMAIN q = 1..(Len(s) + 1)
  BY <1>2, LenProperties
<1> HIDE DEF q
<1>4. CASE m.type = t
  <2>1. Len(s) + 1 \in DOMAIN q /\ q[Len(s) + 1].type = t
    BY <1>1, <1>2, <1>3, <1>4
  <2>2. \A j \in DOMAIN q : j > Len(s) + 1 => q[j].type # t
    BY <1>1, <1>3
  <2>3. LastOf(q, t, old) = q[Len(s) + 1].v
    <3> DEFINE k == Len(s) + 1
    <3>1. k \in DOMAIN q /\ q[k].type = t /\ \A j \in DOMAIN q : j > k => q[j].type # t
      BY <2>1, <2>2
    <3> HIDE DEF k
    <3>2. q \in Seq(Message)
      BY <1>2
    <3>3. LastOf(q, t, old) = q[k].v
      BY <3>1, <3>2, LastOfIs
    <3> QED
      BY <3>3 DEF k
  <2> QED
    BY <1>2, <1>4, <2>3 DEF q
<1>5. CASE m.type # t /\ \A i \in DOMAIN s : s[i].type # t
  <2>1. \A i \in DOMAIN q : q[i].type # t
    BY <1>1, <1>2, <1>3, <1>5
  <2>2. LastOf(q, t, old) = old
    BY <1>2, <2>1, LastOfCases
  <2>3. LastOf(s, t, old) = old
    BY <1>5, LastOfCases
  <2> QED
    BY <1>5, <2>2, <2>3 DEF q
<1>6. CASE m.type # t /\ ~\A i \in DOMAIN s : s[i].type # t
  <2>1. PICK i \in DOMAIN s : /\ s[i].type = t /\ LastOf(s, t, old) = s[i].v
                              /\ \A j \in DOMAIN s : j > i => s[j].type # t
    BY <1>6, LastOfCases
  <2>2. i \in DOMAIN q /\ q[i].type = t /\ q[i].v = s[i].v
    BY <1>1, <1>2, <1>3, <2>1
  <2>3. ASSUME NEW j \in DOMAIN q, j > i PROVE q[j].type # t
    <3>1. CASE j = Len(s) + 1
      BY <1>2, <1>6, <3>1
    <3>2. CASE j # Len(s) + 1
      <4>1. j \in DOMAIN s /\ q[j] = s[j]
        BY <1>1, <1>2, <1>3, <3>2
      <4> QED
        BY <2>1, <2>3, <4>1
    <3> QED
      BY <3>1, <3>2
  <2>4. LastOf(q, t, old) = q[i].v
    <3>1. q \in Seq(Message) /\ \A j \in DOMAIN q : j > i => q[j].type # t
      BY <1>2, <2>3
    <3> QED
      BY ONLY <2>2, <3>1, LastOfIs
  <2> QED
    BY <1>6, <2>1, <2>2, <2>4 DEF q
<1> QED
  BY <1>4, <1>5, <1>6

\* Receiving a message leaves it as it is.
LEMMA LastOfTail ==
  ASSUME NEW s \in Seq(Message), s # <<>>, NEW w \in [MsgType -> Nat], NEW t \in MsgType
  PROVE  LastOf(Tail(s), t, [w EXCEPT ![Head(s).type] = Head(s).v][t]) = LastOf(s, t, w[t])
<1> DEFINE q == Tail(s)
           x == [w EXCEPT ![Head(s).type] = Head(s).v][t]
<1>1. DOMAIN s = 1..Len(s) /\ Len(s) \in Nat /\ Len(s) > 0 /\ Head(s) = s[1]
  BY LenProperties, EmptySeq
<1>2. /\ q \in Seq(Message) /\ Len(q) = Len(s) - 1
      /\ \A i \in 1..Len(q) : q[i] = s[i + 1]
  BY HeadTailProperties
<1>3. DOMAIN q = 1..(Len(s) - 1)
  BY <1>2, LenProperties
<1>4. x = IF s[1].type = t THEN s[1].v ELSE w[t]
  BY <1>1
<1> HIDE DEF q, x
<1>5. CASE \A i \in DOMAIN q : q[i].type # t
  <2>1. LastOf(q, t, x) = x
    BY <1>2, <1>5, LastOfCases
  <2>2. \A i \in DOMAIN s : i > 1 => s[i].type # t
    <3>1. ASSUME NEW i \in DOMAIN s, i > 1 PROVE s[i].type # t
      <4>1. i - 1 \in DOMAIN q /\ q[i - 1] = s[(i - 1) + 1]
        BY <1>1, <1>2, <1>3, <3>1
      <4> QED
        BY <1>1, <1>5, <4>1
    <3> QED
      BY <3>1
  <2>3. CASE s[1].type = t
    <3> DEFINE k == 1
    <3>1. k \in DOMAIN s /\ s[k].type = t /\ \A j \in DOMAIN s : j > k => s[j].type # t
      BY <1>1, <2>2, <2>3
    <3> HIDE DEF k
    <3>2. \A old : LastOf(s, t, old) = s[k].v
      BY <3>1, LastOfIs
    <3> QED
      BY <1>4, <2>1, <2>3, <3>2 DEF q, x, k
  <2>4. CASE s[1].type # t
    <3>1. \A i \in DOMAIN s : s[i].type # t
      BY <1>1, <2>2, <2>4
    <3>2. LastOf(s, t, w[t]) = w[t]
      BY <3>1, LastOfCases
    <3> QED
      BY <1>4, <2>1, <2>4, <3>2 DEF q, x
  <2> QED
    BY <2>3, <2>4
<1>6. CASE ~\A i \in DOMAIN q : q[i].type # t
  <2>1. PICK i \in DOMAIN q : /\ q[i].type = t /\ LastOf(q, t, x) = q[i].v
                              /\ \A j \in DOMAIN q : j > i => q[j].type # t
    <3>1. q \in Seq(Message)
      BY <1>2
    <3>2. \/ LastOf(q, t, x) = x /\ \A i \in DOMAIN q : q[i].type # t
          \/ \E i \in DOMAIN q : /\ q[i].type = t /\ LastOf(q, t, x) = q[i].v
                               /\ \A j \in DOMAIN q : j > i => q[j].type # t
      BY ONLY <3>1, LastOfCases
    <3> QED
      BY <1>6, <3>2, Zenon
  <2>2. i + 1 \in DOMAIN s /\ s[i + 1] = q[i]
    BY <1>1, <1>2, <1>3, <2>1
  <2>3. ASSUME NEW j \in DOMAIN s, j > i + 1 PROVE s[j].type # t
    <3>1. j - 1 \in DOMAIN q /\ q[j - 1] = s[(j - 1) + 1] /\ j - 1 > i
      BY <1>1, <1>2, <1>3, <2>1, <2>3
    <3> QED
      <4>1. j - 1 \in DOMAIN q /\ j - 1 > i
        BY <3>1
      <4>2. q[j - 1].type # t
        BY <2>1, <4>1
      <4>3. (j - 1) + 1 = j
        BY <1>1
      <4> QED
        BY <3>1, <4>2, <4>3
  <2>4. LastOf(s, t, w[t]) = s[i + 1].v
    <3> DEFINE k == i + 1
    <3>1. k \in DOMAIN s /\ s[k].type = t /\ \A j \in DOMAIN s : j > k => s[j].type # t
      BY <2>1, <2>2, <2>3
    <3> HIDE DEF k
    <3>2. \A old : LastOf(s, t, old) = s[k].v
      BY <3>1, LastOfIs
    <3> QED
      BY <3>2 DEF k
  <2> QED
    BY <2>1, <2>2, <2>4 DEF q, x
<1> QED
  BY <1>5, <1>6

\* The order is kept by a book that moves on, by a message that is received,
\* and by one that is sent with what it should carry.
LEMMA OrderedGrow ==
  ASSUME NEW s \in Seq(Message), NEW w \in [MsgType -> Nat], NEW n \in Nat, NEW m \in Nat,
         Ordered(s, w, n), n <= m
  PROVE  Ordered(s, w, m)
<1>1. \A i \in DOMAIN s : s[i].v \in Nat
  BY Messages
<1>2. \A t \in MsgType : w[t] <= m
  BY DEF Ordered
<1>3. \A i \in DOMAIN s : s[i].v <= m
  BY <1>1 DEF Ordered
<1> QED
  BY <1>2, <1>3 DEF Ordered

LEMMA OrderedEmpty ==
  ASSUME NEW n \in Nat
  PROVE  Ordered(<<>>, NothingSeen, n)
<1>1. \A t \in MsgType : NothingSeen[t] = 0
  BY DEF NothingSeen
<1>2. NothingSeen.book = 0 /\ \A t \in Others : t \in MsgType
  BY DEF NothingSeen, Others, MsgType
<1>3. DOMAIN <<>> = {}
  OBVIOUS
<1>4. \A t \in MsgType : NothingSeen[t] <= n
  BY <1>1
<1> QED
  BY <1>2, <1>3, <1>4 DEF Ordered

LEMMA OrderedTail ==
  ASSUME NEW s \in Seq(Message), s # <<>>, NEW w \in [MsgType -> Nat], NEW n \in Nat,
         Ordered(s, w, n)
  PROVE  /\ Ordered(Tail(s), [w EXCEPT ![Head(s).type] = Head(s).v], n)
         /\ \A t \in Kinds : [w EXCEPT ![Head(s).type] = Head(s).v][t] >= w[t]
<1> DEFINE q == Tail(s)
           x == [w EXCEPT ![Head(s).type] = Head(s).v]
<1>1. DOMAIN s = 1..Len(s) /\ Len(s) \in Nat /\ Len(s) > 0 /\ Head(s) = s[1]
  BY LenProperties, EmptySeq
<1>2. \A i \in DOMAIN s : s[i].v \in Nat /\ s[i].type \in MsgType
  BY Messages
<1>3. /\ q \in Seq(Message) /\ Len(q) = Len(s) - 1
      /\ \A i \in 1..Len(q) : q[i] = s[i + 1]
  BY HeadTailProperties
<1>4. DOMAIN q = 1..(Len(s) - 1)
  BY <1>3, LenProperties
<1>5. \A i \in DOMAIN q : i \in Nat /\ i + 1 \in DOMAIN s /\ i + 1 > 1 /\ q[i] = s[i + 1]
  BY <1>1, <1>3, <1>4
<1>6. \A t \in MsgType : x[t] = IF s[1].type = t THEN s[1].v ELSE w[t]
  <2>1. Head(s) = s[1]
    BY <1>1
  <2> QED
    BY <2>1
<1>7. 1 \in DOMAIN s
  BY <1>1
<1> HIDE DEF q, x
<1>8. \A t \in MsgType : x[t] <= n
  BY <1>6, <1>7 DEF Ordered
<1>9. \A i \in DOMAIN q : q[i].v <= n
  BY <1>5 DEF Ordered
<1>10. \A i \in DOMAIN q : q[i].type \in Kinds => q[i].v >= x[q[i].type]
  BY <1>2, <1>5, <1>6, <1>7 DEF Ordered
<1>11. \A i, j \in DOMAIN q : i < j /\ q[i].type \in Kinds /\ q[j].type = q[i].type => q[i].v <= q[j].v
  <2>1. ASSUME NEW i \in DOMAIN q, NEW j \in DOMAIN q, i < j, q[i].type \in Kinds, q[j].type = q[i].type
        PROVE  q[i].v <= q[j].v
    <3>1. i + 1 < j + 1
      BY <1>5, <2>1
    <3> QED
      BY <1>5, <2>1, <3>1 DEF Ordered
  <2> QED
    BY <2>1
<1>12. \A i \in DOMAIN q : q[i].type \in {"book", "orders"} => q[i].v >= 1
  BY <1>5 DEF Ordered
<1>13. ASSUME NEW j \in DOMAIN q, q[j].type = "book"
       PROVE  /\ \A t \in Others : x[t] <= q[j].v
              /\ \A i \in DOMAIN q : i < j => q[i].v <= q[j].v
  <2>1. \A t \in Others : w[t] <= s[j + 1].v
    BY <1>5, <1>13 DEF Ordered
  <2>2. \A i \in DOMAIN s : i < j + 1 => s[i].v <= s[j + 1].v
    BY <1>5, <1>13 DEF Ordered
  <2>3. s[1].v <= s[j + 1].v
    BY <1>5, <1>7, <2>2
  <2>4. \A t \in Others : x[t] <= q[j].v
    BY <1>5, <1>6, <2>1, <2>3 DEF Others, MsgType
  <2>5. ASSUME NEW i \in DOMAIN q, i < j PROVE q[i].v <= q[j].v
    <3>1. i + 1 < j + 1
      BY <1>5, <2>5
    <3> QED
      BY <1>5, <2>2, <3>1
  <2> QED
    BY <2>4, <2>5
<1>14. ASSUME NEW j \in DOMAIN q, q[j].type \in Others
       PROVE  \/ q[j].v <= x.book
              \/ \E i \in DOMAIN q : i < j /\ q[i].type = "book" /\ q[j].v <= q[i].v
              \/ x.book = 0 /\ \A i \in DOMAIN q : i < j => q[i].type # "book"
  <2>1. \/ s[j + 1].v <= w.book
        \/ \E i \in DOMAIN s : i < j + 1 /\ s[i].type = "book" /\ s[j + 1].v <= s[i].v
        \/ w.book = 0 /\ \A i \in DOMAIN s : i < j + 1 => s[i].type # "book"
    BY <1>5, <1>14 DEF Ordered
  <2>2. x.book = IF s[1].type = "book" THEN s[1].v ELSE w.book
    BY <1>6 DEF MsgType
  <2>3. w.book \in Nat /\ s[1].v \in Nat /\ s[j + 1].v \in Nat
    BY <1>2, <1>5, <1>7 DEF MsgType
  <2>4. s[1].type = "book" => w.book <= s[1].v
    BY <1>7 DEF Ordered, Kinds
  <2>5. CASE s[j + 1].v <= w.book
    BY <1>5, <2>2, <2>3, <2>4, <2>5
  <2>6. ASSUME NEW i \in DOMAIN s, i < j + 1, s[i].type = "book", s[j + 1].v <= s[i].v
        PROVE  \/ q[j].v <= x.book
               \/ \E k \in DOMAIN q : k < j /\ q[k].type = "book" /\ q[j].v <= q[k].v
    <3>1. CASE i = 1
      BY <1>5, <2>2, <2>6, <3>1
    <3>2. CASE i # 1
      <4>1. i - 1 \in DOMAIN q /\ i - 1 < j /\ (i - 1) + 1 = i
        BY <1>1, <1>4, <1>5, <2>6, <3>2
      <4>2. q[i - 1] = s[i]
        BY <1>5, <4>1
      <4> QED
        BY <1>5, <2>6, <4>1, <4>2
    <3> QED
      BY <3>1, <3>2
  <2>7. CASE w.book = 0 /\ \A i \in DOMAIN s : i < j + 1 => s[i].type # "book"
    <3>1. x.book = 0
      BY <1>5, <1>7, <2>2, <2>7
    <3>2. ASSUME NEW i \in DOMAIN q, i < j PROVE q[i].type # "book"
      <4>1. i + 1 < j + 1
        BY <1>5, <3>2
      <4> QED
        BY <1>5, <2>7, <4>1
    <3> QED
      BY <3>1, <3>2
  <2> QED
    BY <2>1, <2>5, <2>6, <2>7
<1>15. x.book > 0 => \A t \in Others : x[t] <= x.book
  <2>1. x.book = IF s[1].type = "book" THEN s[1].v ELSE w.book
    BY <1>6 DEF MsgType
  <2>2. \A t \in Others : x[t] = IF s[1].type = t THEN s[1].v ELSE w[t]
    BY <1>6 DEF Others, MsgType
  <2>3. CASE s[1].type = "book"
    BY <1>7, <2>1, <2>2, <2>3 DEF Ordered, Others
  <2>4. CASE s[1].type # "book"
    <3>1. s[1].type \in Others /\ w.book > 0 => s[1].v <= w.book
      <4>1. ~\E i \in DOMAIN s : i < 1
        BY <1>1
      <4>2. w.book \in Nat
        BY DEF MsgType
      <4> QED
        BY <1>7, <4>1, <4>2 DEF Ordered
    <3>2. w.book > 0 => \A t \in Others : w[t] <= w.book
      BY DEF Ordered
    <3> QED
      BY <2>1, <2>2, <2>4, <3>1, <3>2
  <2> QED
    BY <2>3, <2>4
<1>16. \A t \in Kinds : x[t] >= w[t]
  <2>1. \A t \in Kinds : t \in MsgType /\ w[t] \in Nat
    BY DEF Kinds, MsgType
  <2> QED
    BY <1>6, <1>7, <2>1 DEF Ordered
<1>17. Ordered(q, x, n)
  BY <1>8, <1>9, <1>10, <1>11, <1>12, <1>13, <1>14, <1>15 DEF Ordered
<1> QED
  BY <1>16, <1>17 DEF q, x

\* The last book or orders that a client was sent are no newer than the book,
\* and a natural number.
LEMMA LastOfBound ==
  ASSUME NEW s \in Seq(Message), NEW w \in [MsgType -> Nat], NEW n \in Nat,
         Ordered(s, w, n), NEW t \in MsgType
  PROVE  LastOf(s, t, w[t]) \in Nat /\ LastOf(s, t, w[t]) <= n
<1>1. \A i \in DOMAIN s : s[i].v \in Nat
  BY Messages
<1>2. w[t] \in Nat /\ w[t] <= n /\ \A i \in DOMAIN s : s[i].v <= n
  BY DEF Ordered
<1>3. LastOf(s, t, w[t]) = w[t] \/ \E i \in DOMAIN s : LastOf(s, t, w[t]) = s[i].v
  BY LastOfCases
<1> QED
  BY <1>1, <1>2, <1>3

\* A client without a book is one that was sent none.
LEMMA NoBook ==
  ASSUME NEW s \in Seq(Message), NEW w \in [MsgType -> Nat], NEW n \in Nat,
         Ordered(s, w, n), ~(LastOf(s, "book", w.book) > 0)
  PROVE  w.book = 0 /\ \A i \in DOMAIN s : s[i].type # "book"
<1>1. w.book \in Nat
  BY DEF MsgType
<1>2. \A i \in DOMAIN s : s[i].type = "book" => s[i].v >= 1 /\ s[i].v \in Nat
  BY Messages DEF Ordered
<1>3. \/ LastOf(s, "book", w.book) = w.book /\ \A i \in DOMAIN s : s[i].type # "book"
      \/ \E i \in DOMAIN s : /\ s[i].type = "book" /\ LastOf(s, "book", w.book) = s[i].v
                           /\ \A j \in DOMAIN s : j > i => s[j].type # "book"
  BY LastOfCases
<1> QED
  BY <1>1, <1>2, <1>3

LEMMA OrderedAppend ==
  ASSUME NEW s \in Seq(Message), NEW w \in [MsgType -> Nat], NEW n \in Nat,
         Ordered(s, w, n), NEW m \in Message, m.v <= n, n >= 1,
         m.type \in Kinds => m.v = n,
         m.type \in Others /\ LastOf(s, "book", w.book) > 0 => m.v <= LastOf(s, "book", w.book)
  PROVE  Ordered(Append(s, m), w, n)
<1> DEFINE q == Append(s, m)
           e == Len(s) + 1
<1>1. DOMAIN s = 1..Len(s) /\ Len(s) \in Nat
  BY LenProperties
<1>2. \A i \in DOMAIN s : s[i].v \in Nat /\ s[i].type \in MsgType
  BY Messages
<1>3. /\ q \in Seq(Message) /\ Len(q) = Len(s) + 1
      /\ \A i \in 1..Len(s) : q[i] = s[i]
      /\ q[Len(s) + 1] = m
  BY AppendProperties
<1>4. /\ DOMAIN q = DOMAIN s \cup {e} /\ e \in Nat /\ q[e] = m
      /\ \A i \in DOMAIN s : i \in Nat /\ q[i] = s[i] /\ i < e
  <2>1. DOMAIN q = 1..(Len(s) + 1)
    BY <1>3, LenProperties
  <2> QED
    BY <1>1, <1>3, <2>1
<1>5. \A i \in DOMAIN q : i \in Nat /\ i <= e /\ (i < e => i \in DOMAIN s) /\ (i = e \/ i < e)
  BY <1>4
<1>6. m.v \in Nat /\ m.type \in MsgType
  BY DEF Message
<1> HIDE DEF q, e
<1>7. \A t \in MsgType : w[t] <= n
  BY DEF Ordered
<1>8. \A i \in DOMAIN q : q[i].v <= n
  BY <1>4 DEF Ordered
<1>9. \A i \in DOMAIN q : q[i].type \in Kinds => q[i].v >= w[q[i].type]
  <2>1. \A i \in DOMAIN s : q[i].type \in Kinds => q[i].v >= w[q[i].type]
    BY <1>4 DEF Ordered
  <2>2. m.type \in Kinds => m.v >= w[m.type]
    BY <1>6, <1>7
  <2> QED
    BY <1>4, <2>1, <2>2
<1>10. \A i, j \in DOMAIN q : i < j /\ q[i].type \in Kinds /\ q[j].type = q[i].type => q[i].v <= q[j].v
  <2>1. ASSUME NEW i \in DOMAIN q, NEW j \in DOMAIN q, i < j, q[i].type \in Kinds, q[j].type = q[i].type
        PROVE  q[i].v <= q[j].v
    <3>1. i \in DOMAIN s
      BY <1>5, <2>1
    <3>2. CASE j = e
      <4>1. q[j].v = n
        BY <1>4, <2>1, <3>2
      <4> QED
        BY <1>8, <4>1
    <3>3. CASE j \in DOMAIN s
      BY <1>4, <2>1, <3>1, <3>3 DEF Ordered
    <3> QED
      BY <1>4, <3>2, <3>3
  <2> QED
    BY <2>1
<1>11. \A i \in DOMAIN q : q[i].type \in {"book", "orders"} => q[i].v >= 1
  <2>1. m.type \in {"book", "orders"} => m.v >= 1
    BY DEF Kinds
  <2> QED
    BY <1>4, <2>1 DEF Ordered
<1>12. ASSUME NEW j \in DOMAIN q, q[j].type = "book"
       PROVE  /\ \A t \in Others : w[t] <= q[j].v
              /\ \A i \in DOMAIN q : i < j => q[i].v <= q[j].v
  <2>1. CASE j = e
    <3>1. q[j].v = n
      BY <1>4, <1>12, <2>1 DEF Kinds
    <3> QED
      BY <1>7, <1>8, <3>1 DEF Others, MsgType
  <2>2. CASE j \in DOMAIN s
    <3>1. \A i \in DOMAIN q : i < j => i \in DOMAIN s
      BY <1>4, <1>5, <2>2
    <3> QED
      BY <1>4, <1>12, <2>2, <3>1 DEF Ordered
  <2> QED
    BY <1>4, <2>1, <2>2
<1>13. ASSUME NEW j \in DOMAIN q, q[j].type \in Others
       PROVE  \/ q[j].v <= w.book
              \/ \E i \in DOMAIN q : i < j /\ q[i].type = "book" /\ q[j].v <= q[i].v
              \/ w.book = 0 /\ \A i \in DOMAIN q : i < j => q[i].type # "book"
  <2>1. CASE j = e
    <3>1. \A i \in DOMAIN q : i < j => i \in DOMAIN s /\ q[i] = s[i]
      BY <1>4, <1>5, <2>1
    <3>2. CASE ~(LastOf(s, "book", w.book) > 0)
      <4>1. w.book = 0 /\ \A i \in DOMAIN s : s[i].type # "book"
        BY <3>2, NoBook
      <4> QED
        BY <3>1, <4>1
    <3>3. CASE LastOf(s, "book", w.book) > 0
      <4>1. q[j].v <= LastOf(s, "book", w.book)
        BY <1>4, <1>13, <2>1, <3>3
      <4>2. \/ LastOf(s, "book", w.book) = w.book
            \/ \E i \in DOMAIN s : s[i].type = "book" /\ LastOf(s, "book", w.book) = s[i].v
        BY LastOfCases
      <4>3. CASE LastOf(s, "book", w.book) = w.book
        BY <4>1, <4>3
      <4>4. CASE \E i \in DOMAIN s : s[i].type = "book" /\ LastOf(s, "book", w.book) = s[i].v
        BY <1>4, <2>1, <4>1, <4>4
      <4> QED
        BY <4>2, <4>3, <4>4
    <3> QED
      BY <3>2, <3>3
  <2>2. CASE j \in DOMAIN s
    <3>1. \A i \in DOMAIN q : i < j => i \in DOMAIN s /\ q[i] = s[i]
      BY <1>4, <1>5, <2>2
    <3>2. q[j] = s[j] /\ s[j].type \in Others
      BY <1>4, <1>13, <2>2
    <3>3. \/ s[j].v <= w.book
          \/ \E i \in DOMAIN s : i < j /\ s[i].type = "book" /\ s[j].v <= s[i].v
          \/ w.book = 0 /\ \A i \in DOMAIN s : i < j => s[i].type # "book"
      BY <2>2, <3>2 DEF Ordered
    <3>4. \A i \in DOMAIN s : i \in DOMAIN q /\ q[i] = s[i]
      BY <1>4
    <3> QED
      BY <3>1, <3>2, <3>3, <3>4
  <2> QED
    BY <1>4, <2>1, <2>2
<1>14. w.book > 0 => \A t \in Others : w[t] <= w.book
  BY DEF Ordered
<1>15. Ordered(q, w, n)
  BY <1>7, <1>8, <1>9, <1>10, <1>11, <1>12, <1>13, <1>14 DEF Ordered
<1> QED
  BY <1>15 DEF q

-----------------------------------------------------------------------------
(* Threads and mutexes.                                                    *)

LEMMA Tuples ==
  ASSUME NEW x, NEW y
  PROVE  /\ Head(<<x>>) = x /\ Tail(<<x>>) = <<>> /\ <<x>>[1] = x /\ DOMAIN <<x>> = {1}
         /\ Head(<<x, y>>) = x /\ Tail(<<x, y>>) = <<y>> /\ DOMAIN <<x, y>> = {1, 2}
         /\ <<x, y>>[1] = x /\ <<x, y>>[2] = y /\ <<x>> # <<>> /\ <<x, y>> # <<>>
OBVIOUS

\* The next message of a broadcast, and what is left after it.
LEMMA BroadcastCases ==
  ASSUME BroadcastOK, NEW a \in Actor, pc[a] \in Broadcasting
  PROVE  \/ /\ outbox[a] = <<Msg("book", version), Msg("orders", version)>>
            /\ Head(outbox[a]) = Msg("book", version)
            /\ Tail(outbox[a]) = <<Msg("orders", version)>> /\ Tail(outbox[a]) # <<>>
            /\ DOMAIN outbox[a] = {1, 2}
         \/ /\ outbox[a] = <<Msg("orders", version)>>
            /\ Head(outbox[a]) = Msg("orders", version)
            /\ Tail(outbox[a]) = <<>> /\ DOMAIN outbox[a] = {1}
         \/ /\ outbox[a] = <<Msg("trade", version)>>
            /\ Head(outbox[a]) = Msg("trade", version)
            /\ Tail(outbox[a]) = <<>> /\ DOMAIN outbox[a] = {1}
<1>1. \/ outbox[a] = <<Msg("book", version), Msg("orders", version)>>
      \/ outbox[a] = <<Msg("orders", version)>>
      \/ outbox[a] = <<Msg("trade", version)>>
  BY DEF BroadcastOK
<1>2. CASE outbox[a] = <<Msg("book", version), Msg("orders", version)>>
  BY <1>2, Tuples
<1>3. CASE outbox[a] = <<Msg("orders", version)>>
  BY <1>3, Tuples
<1>4. CASE outbox[a] = <<Msg("trade", version)>>
  BY <1>4, Tuples
<1> QED
  BY <1>1, <1>2, <1>3, <1>4

\* The three letters of the acceptor, and what each leads to.
LEMMA GreetedCases ==
  ASSUME LetterOK, PcOK, Greeted
  PROVE  /\ book_mtx' = IF book_mtx = Acceptor THEN Nobody ELSE book_mtx
         /\ \/ /\ Head(outbox[Acceptor]) = Msg("session", 1)
               /\ pc' = [pc EXCEPT ![Acceptor] = "book snapshot"] /\ guest' = guest
            \/ /\ Head(outbox[Acceptor]) = Msg("book", version)
               /\ pc' = [pc EXCEPT ![Acceptor] = "orders snapshot"] /\ guest' = guest
            \/ /\ Head(outbox[Acceptor]) = Msg("orders", version)
               /\ pc' = [pc EXCEPT ![Acceptor] = "idle", ![guest] = "idle"] /\ guest' = Nobody
<1>1. pc[Acceptor] \in Sending
  BY DEF Greeted, Sending
<1>2. \/ Head(outbox[Acceptor]) = Msg("session", 1)
      \/ Head(outbox[Acceptor]) = Msg("book", version)
      \/ Head(outbox[Acceptor]) = Msg("orders", version)
  BY <1>1, Tuples DEF LetterOK
<1>3. CASE Head(outbox[Acceptor]) = Msg("session", 1)
  <2>1. Head(outbox[Acceptor]).type = "session"
    BY <1>3 DEF Msg
  <2> QED
    BY <1>3, <2>1 DEF Greeted, Go
<1>4. CASE Head(outbox[Acceptor]) = Msg("book", version)
  <2>1. Head(outbox[Acceptor]).type = "book"
    BY <1>4 DEF Msg
  <2> QED
    BY <1>4, <2>1 DEF Greeted, Go
<1>5. CASE Head(outbox[Acceptor]) = Msg("orders", version)
  <2>1. Head(outbox[Acceptor]).type = "orders"
    BY <1>5 DEF Msg
  <2> QED
    BY <1>5, <2>1 DEF Greeted, Go
<1> QED
  BY <1>2, <1>3, <1>4, <1>5 DEF Greeted

\* The steps, grouped by what they do: on the book, in a broadcast, a letter.
LEMMA NextCases ==
  ASSUME [WsNext]_wsVars
  PROVE  \/ \E a \in Worker \cup Client :
              Begin(a) \/ LockBook(a) \/ UnlockBook(a) \/ Notify(a) \/ LockClients(a) \/ UnlockClients(a)
         \/ \E a \in Worker \cup Client : LockClient(a) \/ Written(a) \/ WriteFailed(a)
         \/ \E a \in Actor : LockRecipient(a)
         \/ \E c \in Client : BeginInvalid(c) \/ Replied(c) \/ ReadFailed(c) \/ RemoveClient(c)
         \/ \E c \in Client : Accept(c)
         \/ \E c \in Client : Remote(c)
         \/ Handshake \/ HandshakeFailed \/ Enlist
         \/ Snapshot("book snapshot", "book") \/ Snapshot("orders snapshot", "orders")
         \/ Greeted
         \/ UNCHANGED wsVars
BY DEF WsNext, Proceed, Serve, AcceptLoop, Quiet, Actor

\* A thread is where its code can be, and a mutex is somebody's or nobody's.
LEMMA PcStep ==
  ASSUME PcOK, LetterOK, LinkOK, DataOK, [WsNext]_wsVars
  PROVE  PcOK'
<1> USE WsAssumption DEF PcOK, Label, Actor, Go, Broadcasting, Sending
<1>1. ASSUME NEW a \in Worker \cup Client,
             Begin(a) \/ LockBook(a) \/ UnlockBook(a) \/ Notify(a)
      PROVE  PcOK'
  <2>1. CASE Begin(a)
    BY <2>1 DEF Begin, mutexes
  <2>2. CASE LockBook(a)
    BY <2>2 DEF LockBook
  <2>3. CASE UnlockBook(a)
    BY <2>3 DEF UnlockBook
  <2>4. CASE Notify(a)
    BY <2>4 DEF Notify, mutexes
  <2> QED
    BY <1>1, <2>1, <2>2, <2>3, <2>4
<1>2. ASSUME NEW a \in Worker \cup Client, LockClients(a) \/ UnlockClients(a)
      PROVE  PcOK'
  BY <1>2 DEF LockClients, UnlockClients
<1>3. ASSUME NEW a \in Worker \cup Client,
             LockClient(a) \/ Written(a) \/ WriteFailed(a)
      PROVE  PcOK'
  <2> DEFINE d == clients[at[a]]
  <2>1. /\ book_mtx' = book_mtx /\ clients_mtx' = clients_mtx
        /\ \/ write_mtx' = [write_mtx EXCEPT ![d] = a]
           \/ write_mtx' = [write_mtx EXCEPT ![d] = Nobody]
        /\ pc[a] \in {"loop", "writing"}
        /\ pc' = [pc EXCEPT ![a] = "loop"] \/ pc' = [pc EXCEPT ![a] = "writing"]
    BY <1>3 DEF LockClient, Written, WriteFailed
  <2> HIDE DEF d
  <2>2. write_mtx' \in [Client -> Actor \cup {Nobody}]
    BY <2>1
  <2> QED
    BY <2>1, <2>2
<1>4. ASSUME NEW a \in Actor, LockRecipient(a) PROVE PcOK'
  BY <1>4 DEF LockRecipient
<1>5. ASSUME NEW c \in Client,
             BeginInvalid(c) \/ Replied(c) \/ ReadFailed(c) \/ RemoveClient(c)
      PROVE  PcOK'
  BY <1>5 DEF BeginInvalid, Replied, ReadFailed, RemoveClient, mutexes
<1>6. ASSUME NEW c \in Client, Accept(c) \/ Remote(c) PROVE PcOK'
  BY <1>6 DEF Accept, Remote, Connect, Speak, Receive, Leave, mutexes
<1>7. ASSUME \/ Handshake \/ HandshakeFailed \/ Enlist
             \/ Snapshot("book snapshot", "book") \/ Snapshot("orders snapshot", "orders")
      PROVE  PcOK'
  BY <1>7 DEF Handshake, HandshakeFailed, Enlist, Snapshot, mutexes
<1>8. ASSUME Greeted PROVE PcOK'
  <2>1. guest # Nobody
    BY <1>8 DEF Greeted, LinkOK, LinkOf
  <2>2. guest \in Client
    BY <2>1 DEF DataOK
  <2>3. write_mtx' \in [Client -> Actor \cup {Nobody}]
    BY <1>8 DEF Greeted
  <2> QED
    BY <1>8, <2>2, <2>3, GreetedCases DEF Greeted
<1>9. ASSUME UNCHANGED wsVars PROVE PcOK'
  BY <1>9 DEF wsVars, mutexes
<1> QED
  BY <1>1, <1>2, <1>3, <1>4, <1>5, <1>6, <1>7, <1>8, <1>9, NextCases

\* book_mtx is owned by the thread on the book, or by the acceptor between a
\* snapshot and the end of its write.
LEMMA BookMutexStep ==
  ASSUME PcOK, LetterOK, LinkOK, DataOK, MutexOK, [WsNext]_wsVars, NEW b \in Actor
  PROVE  (book_mtx' = b) <=> HoldsBook(b)'
<1> USE WsAssumption DEF Go
<1>1. (book_mtx = b) <=> HoldsBook(b)
  BY DEF MutexOK
<1>2. /\ pc \in [Actor -> Label] /\ outbox \in [Actor -> Seq(Message)]
      /\ pc[Acceptor] \notin {"plan", "broadcast", "loop", "writing"}
      /\ Acceptor \in Actor
  BY DEF PcOK, DataOK, Actor, Sending
<1>3. ASSUME NEW a \in Worker \cup Client,
             Begin(a) \/ LockBook(a) \/ UnlockBook(a) \/ Notify(a) \/ LockClients(a) \/ UnlockClients(a)
      PROVE  (book_mtx' = b) <=> HoldsBook(b)'
  <2>1. a # Acceptor /\ a \in Actor
    BY DEF Actor
  <2>2. outbox'[Acceptor] = outbox[Acceptor] /\ pc'[Acceptor] = pc[Acceptor]
    BY <1>2, <1>3, <2>1
       DEF Begin, LockBook, UnlockBook, Notify, LockClients, UnlockClients, Load
  <2>3. CASE b = a
    BY <1>1, <1>2, <1>3, <2>1, <2>2, <2>3
       DEF HoldsBook, Begin, LockBook, UnlockBook, Notify, LockClients, UnlockClients, mutexes
  <2>4. CASE b # a
    <3>1. HoldsBook(b)' <=> HoldsBook(b)
      BY <1>2, <1>3, <2>2, <2>4
         DEF HoldsBook, Begin, LockBook, UnlockBook, Notify, LockClients, UnlockClients
    <3>2. (book_mtx' = b) <=> (book_mtx = b)
      <4>1. pc[a] = "plan" => book_mtx = a
        BY <2>1 DEF MutexOK, HoldsBook
      <4> QED
        BY <1>3, <2>4, <4>1
           DEF Begin, LockBook, UnlockBook, Notify, LockClients, UnlockClients, mutexes, Actor
    <3> QED
      BY <1>1, <3>1, <3>2
  <2> QED
    BY <2>3, <2>4
<1>4. ASSUME NEW a \in Worker \cup Client, LockClient(a) \/ Written(a) \/ WriteFailed(a)
      PROVE  (book_mtx' = b) <=> HoldsBook(b)'
  BY <1>1, <1>2, <1>4 DEF HoldsBook, LockClient, Written, WriteFailed, Actor
<1>5. ASSUME NEW a \in Actor, LockRecipient(a)
      PROVE  (book_mtx' = b) <=> HoldsBook(b)'
  BY <1>1, <1>2, <1>5 DEF HoldsBook, LockRecipient
<1>6. ASSUME NEW c \in Client, BeginInvalid(c) \/ Replied(c) \/ ReadFailed(c) \/ RemoveClient(c)
      PROVE  (book_mtx' = b) <=> HoldsBook(b)'
  <2>1. c # Acceptor /\ c \in Actor
    BY DEF Actor
  <2>2. outbox'[Acceptor] = outbox[Acceptor] /\ book_mtx' = book_mtx
    BY <1>2, <1>6, <2>1 DEF BeginInvalid, Replied, ReadFailed, RemoveClient, Load, mutexes
  <2> QED
    BY <1>1, <1>2, <1>6, <2>1, <2>2 DEF HoldsBook, BeginInvalid, Replied, ReadFailed, RemoveClient
<1>7. ASSUME NEW c \in Client, Accept(c) \/ Remote(c)
      PROVE  (book_mtx' = b) <=> HoldsBook(b)'
  BY <1>1, <1>2, <1>7 DEF HoldsBook, Accept, Remote, Connect, Speak, Receive, Leave, mutexes
<1>8. ASSUME Handshake \/ HandshakeFailed
      PROVE  (book_mtx' = b) <=> HoldsBook(b)'
  BY <1>1, <1>2, <1>8 DEF HoldsBook, Handshake, HandshakeFailed, mutexes
<1>9. ASSUME Enlist
      PROVE  (book_mtx' = b) <=> HoldsBook(b)'
  <2>1. Head(outbox'[Acceptor]).type = "session"
    BY <1>2, <1>9, Tuples DEF Enlist, Load, Msg
  <2> QED
    BY <1>1, <1>2, <1>9, <2>1 DEF HoldsBook, Enlist, mutexes
<1>10. ASSUME Snapshot("book snapshot", "book") \/ Snapshot("orders snapshot", "orders")
       PROVE  (book_mtx' = b) <=> HoldsBook(b)'
  <2>1. Head(outbox'[Acceptor]).type # "session"
    <3>1. \/ outbox'[Acceptor] = <<Msg("book", version)>>
          \/ outbox'[Acceptor] = <<Msg("orders", version)>>
      BY <1>2, <1>10 DEF Snapshot, Load
    <3>2. \/ Head(outbox'[Acceptor]) = Msg("book", version)
          \/ Head(outbox'[Acceptor]) = Msg("orders", version)
      BY <3>1, Tuples
    <3> QED
      BY <3>2 DEF Msg
  <2>2. book_mtx = Nobody /\ book_mtx' = Acceptor /\ pc' = [pc EXCEPT ![Acceptor] = "send"]
    BY <1>10 DEF Snapshot
  <2>3. ~HoldsBook(b)
    BY <1>1, <2>2 DEF Actor
  <2> QED
    BY <1>2, <2>1, <2>2, <2>3 DEF HoldsBook
<1>11. ASSUME Greeted
       PROVE  (book_mtx' = b) <=> HoldsBook(b)'
  <2>1. guest \in Client /\ guest # Acceptor /\ pc[guest] = "absent"
    BY <1>11 DEF Greeted, LinkOK, LinkOf, DataOK
  <2>2. pc'[Acceptor] \in {"book snapshot", "orders snapshot", "idle"}
    BY <1>2, <1>11, <2>1, GreetedCases
  <2>3. b # Acceptor => (pc'[b] = pc[b] \/ (pc[b] = "absent" /\ pc'[b] = "idle"))
    BY <1>2, <1>11, <2>1, GreetedCases
  <2>4. HoldsBook(b)' <=> (HoldsBook(b) /\ b # Acceptor)
    BY <2>2, <2>3 DEF HoldsBook
  <2>5. (book_mtx' = b) <=> (book_mtx = b /\ b # Acceptor)
    BY <1>2, <1>11 DEF Greeted, Actor
  <2> QED
    BY <1>1, <2>4, <2>5
<1>12. ASSUME UNCHANGED wsVars
       PROVE  (book_mtx' = b) <=> HoldsBook(b)'
  BY <1>1, <1>12 DEF HoldsBook, wsVars, mutexes
<1> QED
  BY <1>3, <1>4, <1>5, <1>6, <1>7, <1>8, <1>9, <1>10, <1>11, <1>12, NextCases

\* clients_mtx is owned by the thread inside a broadcast.
LEMMA ClientsMutexStep ==
  ASSUME PcOK, LetterOK, LinkOK, DataOK, MutexOK, [WsNext]_wsVars, NEW b \in Actor
  PROVE  (clients_mtx' = b) <=> (pc'[b] \in {"loop", "writing"})
<1> USE WsAssumption DEF Go
<1>1. \A a \in Actor : (clients_mtx = a) <=> (pc[a] \in {"loop", "writing"})
  BY DEF MutexOK
<1>2. pc \in [Actor -> Label] /\ Acceptor \in Actor /\ Nobody \notin Actor
  BY DEF PcOK, Actor
<1>3. ASSUME NEW a \in Worker \cup Client,
             Begin(a) \/ LockBook(a) \/ UnlockBook(a) \/ Notify(a) \/ LockClients(a) \/ UnlockClients(a)
      PROVE  (clients_mtx' = b) <=> (pc'[b] \in {"loop", "writing"})
  <2>1. a \in Actor
    BY DEF Actor
  <2> QED
    BY <1>1, <1>2, <1>3, <2>1
       DEF Begin, LockBook, UnlockBook, Notify, LockClients, UnlockClients, mutexes
<1>4. ASSUME NEW a \in Worker \cup Client, LockClient(a) \/ Written(a) \/ WriteFailed(a)
      PROVE  (clients_mtx' = b) <=> (pc'[b] \in {"loop", "writing"})
  BY <1>1, <1>2, <1>4 DEF LockClient, Written, WriteFailed, Actor
<1>5. ASSUME NEW a \in Actor, LockRecipient(a)
      PROVE  (clients_mtx' = b) <=> (pc'[b] \in {"loop", "writing"})
  BY <1>1, <1>2, <1>5 DEF LockRecipient
<1>6. ASSUME NEW c \in Client, BeginInvalid(c) \/ Replied(c) \/ ReadFailed(c) \/ RemoveClient(c)
      PROVE  (clients_mtx' = b) <=> (pc'[b] \in {"loop", "writing"})
  BY <1>1, <1>2, <1>6 DEF BeginInvalid, Replied, ReadFailed, RemoveClient, mutexes, Actor
<1>7. ASSUME NEW c \in Client, Accept(c) \/ Remote(c)
      PROVE  (clients_mtx' = b) <=> (pc'[b] \in {"loop", "writing"})
  BY <1>1, <1>2, <1>7 DEF Accept, Remote, Connect, Speak, Receive, Leave, mutexes
<1>8. ASSUME \/ Handshake \/ HandshakeFailed \/ Enlist
             \/ Snapshot("book snapshot", "book") \/ Snapshot("orders snapshot", "orders")
      PROVE  (clients_mtx' = b) <=> (pc'[b] \in {"loop", "writing"})
  BY <1>1, <1>2, <1>8 DEF Handshake, HandshakeFailed, Enlist, Snapshot, mutexes
<1>9. ASSUME Greeted
      PROVE  (clients_mtx' = b) <=> (pc'[b] \in {"loop", "writing"})
  <2>1. pc[guest] = "absent" /\ pc[Acceptor] = "sending" /\ clients_mtx' = clients_mtx
    BY <1>9 DEF Greeted, LinkOK, LinkOf, DataOK
  <2> QED
    BY <1>1, <1>2, <1>9, <2>1, GreetedCases
<1>10. ASSUME UNCHANGED wsVars
       PROVE  (clients_mtx' = b) <=> (pc'[b] \in {"loop", "writing"})
  BY <1>1, <1>10 DEF wsVars, mutexes
<1> QED
  BY <1>3, <1>4, <1>5, <1>6, <1>7, <1>8, <1>9, <1>10, NextCases

\* Thread a is in a write to client c.
WritesTo(a, c) ==
  \/ pc[a] = "writing" /\ clients[at[a]] = c
  \/ pc[a] = "sending" /\ Recipient(a) = c

\* Only one thread is inside a broadcast.
LEMMA OneLoop ==
  ASSUME MutexOK, NEW a \in Actor, NEW b \in Actor,
         pc[a] \in {"loop", "writing"}, pc[b] \in {"loop", "writing"}
  PROVE  a = b
BY DEF MutexOK

\* The target of a broadcast's write is a client.
LEMMA TargetIsClient ==
  ASSUME DataOK, BroadcastOK, NEW a \in Actor,
         pc[a] = "writing" \/ (pc[a] = "loop" /\ at[a] <= Len(clients))
  PROVE  at[a] \in DOMAIN clients /\ clients[at[a]] \in Client
<1>1. at[a] \in Nat /\ at[a] >= 1 /\ at[a] <= Len(clients)
  BY DEF DataOK, BroadcastOK
<1>2. clients \in Seq(Client) /\ Len(clients) \in Nat /\ DOMAIN clients = 1..Len(clients)
  BY LenProperties DEF DataOK
<1>3. at[a] \in 1..Len(clients)
  BY <1>1, <1>2
<1> QED
  BY <1>2, <1>3, ElementOfSeq

\* The write_mtx of a client is owned by the thread in a write to it.
LEMMA WriteMutexStep ==
  ASSUME PcOK, BroadcastOK, LetterOK, LinkOK, DataOK, MutexOK, [WsNext]_wsVars,
         NEW b \in Actor, NEW d \in Client
  PROVE  (write_mtx'[d] = b) <=> WritesTo(b, d)'
<1> USE WsAssumption DEF Go
<1>1. \A a \in Actor, c \in Client : (write_mtx[c] = a) <=> WritesTo(a, c)
  BY DEF MutexOK, WritesTo
<1>2. /\ pc \in [Actor -> Label] /\ at \in [Actor -> Nat]
      /\ Acceptor \in Actor /\ Nobody \notin Actor
      /\ write_mtx \in [Client -> Actor \cup {Nobody}]
  BY DEF PcOK, DataOK, Actor
<1>3. ASSUME NEW a \in Worker \cup Client,
             Begin(a) \/ LockBook(a) \/ UnlockBook(a) \/ Notify(a) \/ LockClients(a) \/ UnlockClients(a)
      PROVE  (write_mtx'[d] = b) <=> WritesTo(b, d)'
  <2>1. a \in Actor
    BY DEF Actor
  <2>2. /\ write_mtx' = write_mtx /\ clients' = clients /\ guest' = guest
        /\ b # a => pc'[b] = pc[b] /\ at'[b] = at[b]
        /\ pc[a] \notin {"writing", "sending"} /\ pc'[a] \notin {"writing", "sending"}
    BY <1>2, <1>3, <2>1
       DEF Begin, LockBook, UnlockBook, Notify, LockClients, UnlockClients, mutexes
  <2> QED
    BY <1>1, <2>2 DEF WritesTo, Recipient
<1>4. ASSUME NEW a \in Worker \cup Client, LockClient(a)
      PROVE  (write_mtx'[d] = b) <=> WritesTo(b, d)'
  <2>1. a \in Actor /\ clients[at[a]] \in Client
    BY <1>4, TargetIsClient DEF LockClient, Actor
  <2> QED
    BY <1>1, <1>2, <1>4, <2>1 DEF LockClient, WritesTo, Recipient
<1>5. ASSUME NEW a \in Worker \cup Client, Written(a) \/ WriteFailed(a)
      PROVE  (write_mtx'[d] = b) <=> WritesTo(b, d)'
  <2> DEFINE e == clients[at[a]]
  <2>1. a \in Actor /\ pc[a] = "writing"
    BY <1>5 DEF Written, WriteFailed, Actor
  <2>2. e \in Client
    BY <2>1, TargetIsClient
  <2>3. /\ write_mtx' = [write_mtx EXCEPT ![e] = Nobody] /\ pc' = [pc EXCEPT ![a] = "loop"]
        /\ guest' = guest
    BY <1>5 DEF Written, WriteFailed
  <2>4. write_mtx[e] = a
    BY <1>1, <2>1, <2>2 DEF WritesTo
  <2>5. b # a => pc[b] # "writing"
    BY <2>1, OneLoop
  <2>6. WritesTo(b, d)' <=> b # a /\ WritesTo(b, d)
    BY <1>2, <2>1, <2>3, <2>5 DEF WritesTo, Recipient
  <2>7. (write_mtx'[d] = b) <=> b # a /\ write_mtx[d] = b
    <3>1. write_mtx[d] = a => d = e
      BY <1>1, <2>1 DEF WritesTo
    <3> HIDE DEF e
    <3> QED
      BY <1>2, <2>2, <2>3, <2>4, <3>1
  <2> QED
    BY <1>1, <2>6, <2>7
<1>6. ASSUME NEW a \in Actor, LockRecipient(a)
      PROVE  (write_mtx'[d] = b) <=> WritesTo(b, d)'
  <2>1. Recipient(a) \in Client
    BY <1>6 DEF LockRecipient, Recipient, PcOK, LinkOK, LinkOf, DataOK, Actor, Broadcasting
  <2> QED
    BY <1>1, <1>2, <1>6, <2>1 DEF LockRecipient, WritesTo, Recipient
<1>7. ASSUME NEW c \in Client, BeginInvalid(c) \/ ReadFailed(c) \/ RemoveClient(c)
      PROVE  (write_mtx'[d] = b) <=> WritesTo(b, d)'
  <2>1. c \in Actor
    BY DEF Actor
  <2>2. /\ write_mtx' = write_mtx /\ guest' = guest /\ at' = at
        /\ pc'[b] = pc[b] \/ (b = c /\ pc[c] \in {"idle", "leaving"} /\ pc'[c] \in {"send", "leaving", "done"})
        /\ clients' = clients \/ clients_mtx = Nobody
    BY <1>2, <1>7, <2>1 DEF BeginInvalid, ReadFailed, RemoveClient, mutexes
  <2>3. pc[b] = "writing" => clients' = clients
    BY <2>2 DEF MutexOK
  <2> QED
    BY <1>1, <2>2, <2>3 DEF WritesTo, Recipient
<1>8. ASSUME NEW c \in Client, Replied(c)
      PROVE  (write_mtx'[d] = b) <=> WritesTo(b, d)'
  <2>1. c \in Actor /\ c # Acceptor
    BY DEF Actor
  <2> QED
    BY <1>1, <1>2, <1>8, <2>1 DEF Replied, WritesTo, Recipient
<1>9. ASSUME NEW c \in Client, Accept(c)
      PROVE  (write_mtx'[d] = b) <=> WritesTo(b, d)'
  BY <1>1, <1>2, <1>9 DEF Accept, mutexes, WritesTo, Recipient
<1>10. ASSUME NEW c \in Client, Remote(c)
       PROVE  (write_mtx'[d] = b) <=> WritesTo(b, d)'
  BY <1>1, <1>10 DEF Remote, Connect, Speak, Receive, Leave, mutexes, WritesTo, Recipient
<1>11. ASSUME \/ Handshake \/ HandshakeFailed
              \/ Snapshot("book snapshot", "book") \/ Snapshot("orders snapshot", "orders")
       PROVE  (write_mtx'[d] = b) <=> WritesTo(b, d)'
  <2>1. /\ write_mtx' = write_mtx /\ clients' = clients /\ at' = at
        /\ pc[Acceptor] \notin {"writing", "sending"} /\ pc'[Acceptor] \notin {"writing", "sending"}
        /\ b # Acceptor => pc'[b] = pc[b]
    BY <1>2, <1>11 DEF Handshake, HandshakeFailed, Snapshot, mutexes
  <2> QED
    BY <1>1, <2>1 DEF WritesTo, Recipient
<1>12. ASSUME Enlist
       PROVE  (write_mtx'[d] = b) <=> WritesTo(b, d)'
  <2>1. pc[b] # "writing"
    BY <1>12 DEF Enlist, MutexOK
  <2> QED
    BY <1>1, <1>2, <1>12, <2>1 DEF Enlist, mutexes, WritesTo, Recipient
<1>13. ASSUME Greeted
       PROVE  (write_mtx'[d] = b) <=> WritesTo(b, d)'
  <2>1. /\ guest \in Client /\ guest # Acceptor /\ pc[guest] = "absent" /\ pc[Acceptor] = "sending"
        /\ write_mtx' = [write_mtx EXCEPT ![guest] = Nobody] /\ clients' = clients /\ at' = at
    BY <1>13 DEF Greeted, LinkOK, LinkOf, DataOK
  <2>2. write_mtx[guest] = Acceptor
    BY <1>1, <1>2, <2>1 DEF WritesTo, Recipient
  <2>3. /\ pc'[Acceptor] \notin {"writing", "sending"}
        /\ b # Acceptor => (pc'[b] = pc[b] \/ (pc[b] = "absent" /\ pc'[b] = "idle"))
    BY <1>2, <1>13, <2>1, GreetedCases
  <2>4. WritesTo(b, d)' <=> b # Acceptor /\ WritesTo(b, d)
    BY <2>1, <2>3 DEF WritesTo, Recipient
  <2>5. (write_mtx'[d] = b) <=> b # Acceptor /\ write_mtx[d] = b
    <3>1. write_mtx[d] = Acceptor => d = guest
      BY <1>1, <1>2, <2>1 DEF WritesTo, Recipient
    <3> QED
      BY <1>2, <2>1, <2>2, <3>1
  <2> QED
    BY <1>1, <2>4, <2>5
<1>14. ASSUME UNCHANGED wsVars
       PROVE  (write_mtx'[d] = b) <=> WritesTo(b, d)'
  BY <1>1, <1>14 DEF wsVars, mutexes, WritesTo, Recipient
<1> QED
  BY <1>3, <1>4, <1>5, <1>6, <1>7, <1>8, <1>9, <1>10, <1>11, <1>12, <1>13, <1>14, NextCases

LEMMA MutexStep ==
  ASSUME PcOK, BroadcastOK, LetterOK, LinkOK, DataOK, MutexOK, [WsNext]_wsVars
  PROVE  MutexOK'
<1>1. \A b \in Actor : (book_mtx' = b) <=> HoldsBook(b)'
  BY BookMutexStep
<1>2. \A b \in Actor : (clients_mtx' = b) <=> (pc'[b] \in {"loop", "writing"})
  BY ClientsMutexStep
<1>3. \A b \in Actor, d \in Client : (write_mtx'[d] = b) <=> WritesTo(b, d)'
  BY WriteMutexStep
<1> QED
  BY <1>1, <1>2, <1>3 DEF MutexOK, WritesTo

-----------------------------------------------------------------------------
(* Types.                                                                  *)

\* The list of clients stays a list without repetition.
LEMMA ClientsTyped ==
  ASSUME DataOK, PcOK, BroadcastOK, LinkOK, [WsNext]_wsVars
  PROVE  clients' \in Seq(Client) /\ IsInjective(clients')
<1>1. clients \in Seq(Client) /\ IsInjective(clients)
  BY DEF DataOK
<1>2. ASSUME NEW i \in DOMAIN clients, clients' = RemoveAt(clients, i)
      PROVE  clients' \in Seq(Client) /\ IsInjective(clients')
  BY <1>1, <1>2, ToSetRemove
<1>3. ASSUME NEW a \in Worker \cup Client, WriteFailed(a)
      PROVE  clients' \in Seq(Client) /\ IsInjective(clients')
  <2>1. at[a] \in DOMAIN clients
    BY <1>3, TargetIsClient DEF WriteFailed, Actor
  <2> QED
    BY <1>2, <1>3, <2>1 DEF WriteFailed
<1>4. ASSUME NEW c \in Client, RemoveClient(c)
      PROVE  clients' \in Seq(Client) /\ IsInjective(clients')
  BY <1>1, <1>2, <1>4 DEF RemoveClient
<1>5. ASSUME Enlist
      PROVE  clients' \in Seq(Client) /\ IsInjective(clients')
  <2>1. guest \in Client /\ guest \notin ToSet(clients) /\ clients' = Append(clients, guest)
    BY <1>5 DEF Enlist, LinkOK, LinkOf, DataOK, Handshaking
  <2> QED
    BY <1>1, <2>1, ToSetAppend
<1>6. ASSUME UNCHANGED clients
      PROVE  clients' \in Seq(Client) /\ IsInjective(clients')
  BY <1>1, <1>6
<1>7. \/ \E a \in Worker \cup Client : WriteFailed(a)
      \/ \E c \in Client : RemoveClient(c)
      \/ Enlist
      \/ UNCHANGED clients
  BY NextCases DEF Begin, LockBook, UnlockBook, Notify, LockClients, UnlockClients, LockClient,
       Written, LockRecipient, BeginInvalid, Replied, ReadFailed, Accept, Remote, Connect, Speak,
       Receive, Leave, Handshake, HandshakeFailed, Snapshot, Greeted, wsVars
<1> QED
  BY <1>3, <1>4, <1>5, <1>6, <1>7

\* What can be sent is a message.
LEMMA MsgTyped ==
  ASSUME NEW t \in MsgType, NEW v \in Nat
  PROVE  /\ Msg(t, v) \in Message /\ <<Msg(t, v)>> \in Seq(Message)
         /\ Msg(t, v).type = t /\ Msg(t, v).v = v
BY DEF Msg, Message

\* The plans of the threads are parts of operations, and the outboxes hold messages.
LEMMA OutboxTyped ==
  ASSUME DataOK, PcOK, BroadcastOK, LetterOK, [WsNext]_wsVars
  PROVE  /\ plan' \in [Actor -> Seq({"change", "trade"})]
         /\ outbox' \in [Actor -> Seq(Message)]
         /\ version' \in Nat \ {0}
<1> DEFINE P == /\ plan' \in [Actor -> Seq({"change", "trade"})]
                /\ outbox' \in [Actor -> Seq(Message)]
                /\ version' \in Nat \ {0}
<1> USE DEF Load
<1>1. /\ plan \in [Actor -> Seq({"change", "trade"})]
      /\ outbox \in [Actor -> Seq(Message)]
      /\ version \in Nat \ {0}
  BY DEF DataOK
<1>2. \A v \in Nat, t \in {"session", "book", "orders", "trade", "reply"} :
        Msg(t, v) \in Message /\ <<Msg(t, v)>> \in Seq(Message)
  BY MsgTyped DEF MsgType
<1> USE EmptySeq
<1>3. ASSUME NEW a \in Worker \cup Client, LockBook(a) PROVE P
  <2>1. Operations \subseteq Seq({"change", "trade"})
    BY DEF Operations
  <2> QED
    BY <1>1, <1>3, <2>1 DEF LockBook
<1>4. ASSUME NEW a \in Worker \cup Client, Notify(a) PROVE P
  <2>1. a \in Actor /\ plan[a] \in Seq({"change", "trade"}) /\ plan[a] # <<>>
    BY <1>1, <1>4 DEF Notify, Actor
  <2>2. Tail(plan[a]) \in Seq({"change", "trade"})
    BY <2>1, HeadTailProperties
  <2>3. version' \in Nat \ {0}
    BY <1>1, <1>4 DEF Notify
  <2>4. /\ <<Msg("trade", version')>> \in Seq(Message)
        /\ <<Msg("book", version'), Msg("orders", version')>> \in Seq(Message)
    BY <1>2, <2>3
  <2>5. outbox' \in [Actor -> Seq(Message)]
    BY <1>1, <1>4, <2>4 DEF Notify
  <2>6. plan' \in [Actor -> Seq({"change", "trade"})]
    BY <1>1, <1>4, <2>2 DEF Notify
  <2> QED
    BY <2>3, <2>5, <2>6
<1>5. ASSUME NEW a \in Worker \cup Client, UnlockBook(a) PROVE P
  BY <1>1, <1>2, <1>5 DEF UnlockBook
<1>6. ASSUME NEW a \in Worker \cup Client, UnlockClients(a) PROVE P
  <2>1. pc[a] \in Broadcasting /\ a \in Actor
    BY <1>6 DEF UnlockClients, Broadcasting, Actor
  <2>2. Tail(outbox[a]) \in {<<>>, <<Msg("orders", version)>>}
    BY <2>1, BroadcastCases
  <2>3. Tail(outbox[a]) \in Seq(Message)
    <3>1. <<>> \in Seq(Message)
      OBVIOUS
    <3>2. <<Msg("orders", version)>> \in Seq(Message)
      BY <1>1, <1>2
    <3> QED
      BY <2>2, <3>1, <3>2
  <2> QED
    BY <1>1, <1>6, <2>3 DEF UnlockClients
<1>7. ASSUME NEW c \in Client, BeginInvalid(c) \/ Replied(c) PROVE P
  <2>1. outbox' = [outbox EXCEPT ![c] = <<Msg("reply", 0)>>] \/ outbox' = [outbox EXCEPT ![c] = <<>>]
    BY <1>7 DEF BeginInvalid, Replied
  <2>2. outbox' \in [Actor -> Seq(Message)]
    <3>1. <<>> \in Seq(Message) /\ <<Msg("reply", 0)>> \in Seq(Message)
      BY <1>2
    <3> QED
      BY <1>1, <2>1, <3>1
  <2> QED
    BY <1>1, <1>7, <2>2 DEF BeginInvalid, Replied
<1>8. ASSUME Enlist PROVE P
  BY <1>1, <1>2, <1>8 DEF Enlist
<1>9. ASSUME Snapshot("book snapshot", "book") \/ Snapshot("orders snapshot", "orders") PROVE P
  BY <1>1, <1>2, <1>9 DEF Snapshot
<1>10. ASSUME Greeted PROVE P
  <2>1. outbox' = [outbox EXCEPT ![Acceptor] = <<>>] /\ plan' = plan /\ version' = version
    BY <1>10 DEF Greeted
  <2>2. <<>> \in Seq(Message)
    OBVIOUS
  <2> QED
    BY <1>1, <2>1, <2>2
<1>11. ASSUME UNCHANGED <<plan, outbox, version>> PROVE P
  BY <1>1, <1>11
<1>12. \/ \E a \in Worker \cup Client : LockBook(a) \/ Notify(a) \/ UnlockBook(a) \/ UnlockClients(a)
       \/ \E c \in Client : BeginInvalid(c) \/ Replied(c)
       \/ Enlist \/ Snapshot("book snapshot", "book") \/ Snapshot("orders snapshot", "orders")
       \/ Greeted
       \/ UNCHANGED <<plan, outbox, version>>
  BY NextCases DEF Begin, LockClients, LockClient, Written, WriteFailed, LockRecipient,
       ReadFailed, RemoveClient, Accept, Remote, Connect, Speak, Receive, Leave,
       Handshake, HandshakeFailed, wsVars
<1> QED
  BY <1>3, <1>4, <1>5, <1>6, <1>7, <1>8, <1>9, <1>10, <1>11, <1>12

-----------------------------------------------------------------------------
(* What is sent to a client.                                               *)

LEMMA HoldersOfBook ==
  ASSUME MutexOK, NEW a \in Actor, NEW b \in Actor, HoldsBook(a), HoldsBook(b)
  PROVE  a = b
BY DEF MutexOK

\* While a thread holds book_mtx and owes no message of type t, every client
\* that has been sent one has been sent the newest.
LEMMA SentIsCurrent ==
  ASSUME MutexOK, FeedOK, NEW a \in Actor, HoldsBook(a), NEW t \in {"book", "orders"},
         pc[a] \in Broadcasting => \A k \in DOMAIN outbox[a] : outbox[a][k].type # t,
         NEW c \in Client, link[c] = "open", LastSent(c, t) > 0
  PROVE  LastSent(c, t) = version
<1>1. SUFFICES ASSUME NEW b \in Actor, OwedBy(b, c, t) PROVE FALSE
  BY DEF FeedOK
<1>2. pc[b] \in Broadcasting /\ \E k \in DOMAIN outbox[b] : outbox[b][k].type = t
  BY <1>1 DEF OwedBy
<1>3. HoldsBook(b)
  BY <1>2 DEF HoldsBook, Broadcasting
<1>4. a = b
  BY <1>3, HoldersOfBook
<1> QED
  BY <1>2, <1>4

\* A message that may be sent to c: the book, the orders or a trade as of now,
\* and nothing newer than the book c was sent last.
Fresh(c, m) ==
  /\ m \in Message
  /\ m.v <= version
  /\ m.type \in Kinds => m.v = version
  /\ link[c] = "open" /\ m.type \in Others /\ LastSent(c, "book") > 0 => m.v <= LastSent(c, "book")

LEMMA WrittenIsFresh ==
  ASSUME DataOK, PcOK, BroadcastOK, MutexOK, FeedOK, NEW a \in Actor, pc[a] = "writing",
         NEW c \in Client
  PROVE  Fresh(c, Head(outbox[a]))
<1> DEFINE m == Head(outbox[a])
<1>1. pc[a] \in Broadcasting /\ HoldsBook(a)
  BY DEF Broadcasting, HoldsBook
<1>2. version \in Nat
  BY DEF DataOK
<1>3. /\ Msg("book", version) \in Message /\ Msg("book", version).type = "book"
      /\ Msg("orders", version) \in Message /\ Msg("orders", version).type = "orders"
      /\ Msg("trade", version) \in Message /\ Msg("trade", version).type = "trade"
      /\ \A t \in MsgType : Msg(t, version).v = version
  BY <1>2, MsgTyped DEF MsgType
<1>4. m \in Message /\ m.v = version
  BY <1>1, <1>3, BroadcastCases DEF MsgType
<1>5. ASSUME link[c] = "open", m.type \in Others, LastSent(c, "book") > 0
      PROVE  m.v <= LastSent(c, "book")
  <2>1. outbox[a] \in {<<Msg("orders", version)>>, <<Msg("trade", version)>>}
    BY <1>1, <1>3, <1>5, BroadcastCases DEF Others
  <2>2. \A k \in DOMAIN outbox[a] : outbox[a][k].type # "book"
    BY <1>3, <2>1, Tuples
  <2>3. LastSent(c, "book") = version
    BY <1>1, <1>5, <2>2, SentIsCurrent
  <2> QED
    BY <1>2, <1>4, <2>3
<1> QED
  BY <1>2, <1>4, <1>5 DEF Fresh

LEMMA ReplyIsFresh ==
  ASSUME DataOK, LetterOK, NEW c \in Client, pc[c] = "sending"
  PROVE  Fresh(c, Head(outbox[c]))
<1>1. PICK v \in 0..version : /\ outbox[c] = <<Msg("reply", v)>>
                              /\ link[c] = "open" => v <= LastSent(c, "book")
  BY DEF LetterOK, Sending
<1>2. Head(outbox[c]) = Msg("reply", v) /\ v \in Nat /\ v <= version
  BY <1>1, Tuples DEF DataOK
<1>3. /\ Msg("reply", v) \in Message /\ Msg("reply", v).type = "reply" /\ Msg("reply", v).v = v
  BY <1>2, MsgTyped DEF MsgType
<1> QED
  BY <1>1, <1>2, <1>3 DEF Fresh, Kinds

LEMMA GreetingIsFresh ==
  ASSUME DataOK, PcOK, LetterOK, MutexOK, FeedOK, pc[Acceptor] = "sending", guest \in Client
  PROVE  Fresh(guest, Head(outbox[Acceptor]))
<1> DEFINE m == Head(outbox[Acceptor])
<1>1. m \in {Msg("session", 1), Msg("book", version), Msg("orders", version)}
  BY Tuples DEF LetterOK, Sending
<1>2. version \in Nat /\ version >= 1
  BY DEF DataOK
<1>3. CASE m = Msg("session", 1)
  <2>1. m \in Message /\ m.type = "session" /\ m.v = 1
    BY <1>3, MsgTyped DEF MsgType
  <2> QED
    BY <1>2, <2>1 DEF Fresh, Kinds, Others
<1>4. CASE m = Msg("book", version)
  <2>1. m \in Message /\ m.type = "book" /\ m.v = version
    BY <1>2, <1>4, MsgTyped DEF MsgType
  <2> QED
    BY <1>2, <2>1 DEF Fresh, Others
<1>5. CASE m = Msg("orders", version)
  <2>1. m \in Message /\ m.type = "orders" /\ m.v = version
    BY <1>2, <1>5, MsgTyped DEF MsgType
  <2>2. HoldsBook(Acceptor) /\ Acceptor \in Actor
    BY <2>1 DEF HoldsBook, Actor
  <2>3. pc[Acceptor] \notin Broadcasting
    BY DEF Broadcasting
  <2>4. link[guest] = "open" /\ LastSent(guest, "book") > 0 => LastSent(guest, "book") = version
    BY <2>2, <2>3, SentIsCurrent
  <2> QED
    BY <1>2, <2>1, <2>4 DEF Fresh
<1> QED
  BY <1>1, <1>3, <1>4, <1>5

\* Every step sends one fresh message, delivers one, closes a connection or
\* leaves the messages alone.
LEMMA SockCases ==
  ASSUME DataOK, PcOK, BroadcastOK, LetterOK, LinkOK, MutexOK, FeedOK, [WsNext]_wsVars
  PROVE  \/ \E c \in Client, m \in Message :
              /\ Fresh(c, m) /\ Deliver(c, m) /\ UNCHANGED <<view, version, link>>
         \/ \E c \in Client : Receive(c)
         \/ \E c \in Client : Leave(c)
         \/ UNCHANGED <<sock, view>> /\ version' >= version
<1>1. ASSUME NEW a \in Worker \cup Client, Written(a)
      PROVE  \E c \in Client, m \in Message :
               Fresh(c, m) /\ Deliver(c, m) /\ UNCHANGED <<view, version, link>>
  <2>1. a \in Actor /\ pc[a] = "writing"
    BY <1>1 DEF Written, Actor
  <2>2. clients[at[a]] \in Client
    BY <2>1, TargetIsClient
  <2>3. Fresh(clients[at[a]], Head(outbox[a]))
    BY <2>1, <2>2, WrittenIsFresh
  <2> QED
    BY <1>1, <2>2, <2>3 DEF Written, Fresh
<1>2. ASSUME NEW c \in Client, Replied(c)
      PROVE  Fresh(c, Head(outbox[c])) /\ Deliver(c, Head(outbox[c])) /\ UNCHANGED <<view, version, link>>
  BY <1>2, ReplyIsFresh DEF Replied
<1>3. ASSUME Greeted
      PROVE  /\ guest \in Client /\ Fresh(guest, Head(outbox[Acceptor]))
             /\ Deliver(guest, Head(outbox[Acceptor])) /\ UNCHANGED <<view, version, link>>
  <2>1. guest \in Client
    BY <1>3 DEF Greeted, LinkOK, LinkOf, DataOK
  <2> QED
    BY <1>3, <2>1, GreetingIsFresh DEF Greeted
<1>4. ASSUME NEW a \in Worker \cup Client, Notify(a)
      PROVE  UNCHANGED <<sock, view>> /\ version' >= version
  BY <1>4 DEF Notify, DataOK
<1>5. version >= version
  BY DEF DataOK
<1>6. \/ \E a \in Worker \cup Client : Written(a) \/ Notify(a)
      \/ \E c \in Client : Replied(c)
      \/ Greeted
      \/ \E c \in Client : Receive(c) \/ Leave(c)
      \/ UNCHANGED <<sock, view, version>>
  BY NextCases DEF Begin, LockBook, UnlockBook, LockClients, UnlockClients, LockClient, WriteFailed,
       LockRecipient, BeginInvalid, ReadFailed, RemoveClient, Accept, Remote, Connect, Speak,
       Handshake, HandshakeFailed, Enlist, Snapshot, wsVars
<1>7. CASE UNCHANGED <<sock, view, version>>
  BY <1>5, <1>7
<1>8. CASE \E c \in Client : Replied(c)
  BY <1>2, <1>8 DEF Fresh
<1>9. CASE Greeted
  BY <1>3, <1>9 DEF Fresh
<1> QED
  BY <1>1, <1>4, <1>6, <1>7, <1>8, <1>9

\* Sending changes what one client has been sent last.
LEMMA Sent ==
  ASSUME DataOK, NEW c \in Client, NEW m \in Message, Deliver(c, m), UNCHANGED view,
         NEW d \in Client, NEW t \in MsgType
  PROVE  LastSent(d, t)' = IF d = c /\ link[c] = "open" /\ m.type = t THEN m.v ELSE LastSent(d, t)
<1>1. sock \in [Client -> Seq(Message)]
  BY DEF DataOK
<1>2. CASE d = c /\ link[c] = "open"
  <2>1. sock'[d] = Append(sock[d], m) /\ sock[d] \in Seq(Message)
    BY <1>1, <1>2 DEF Deliver
  <2> QED
    BY <1>2, <2>1, LastOfAppend DEF LastSent
<1>3. CASE d # c \/ link[c] # "open"
  BY <1>1, <1>3 DEF Deliver, LastSent
<1> QED
  BY <1>2, <1>3

\* Receiving changes nothing of what has been sent.
LEMMA Received ==
  ASSUME DataOK, NEW c \in Client, Receive(c), NEW d \in Client, NEW t \in MsgType
  PROVE  LastSent(d, t)' = LastSent(d, t)
<1>1. /\ sock \in [Client -> Seq(Message)] /\ view \in [Client -> [MsgType -> Nat]]
  BY DEF DataOK
<1>2. /\ sock' = [sock EXCEPT ![c] = Tail(sock[c])] /\ sock[c] # <<>>
      /\ view' = [view EXCEPT ![c][Head(sock[c]).type] = Head(sock[c]).v]
  BY DEF Receive
<1>3. CASE d = c
  <2>1. /\ sock'[d] = Tail(sock[d]) /\ sock[d] \in Seq(Message) /\ view[d] \in [MsgType -> Nat]
        /\ view'[d] = [view[d] EXCEPT ![Head(sock[d]).type] = Head(sock[d]).v]
    BY <1>1, <1>2, <1>3
  <2>2. view'[d][t] = [view[d] EXCEPT ![Head(sock[d]).type] = Head(sock[d]).v][t]
    BY <2>1
  <2> QED
    BY <1>2, <1>3, <2>1, <2>2, LastOfTail DEF LastSent
<1>4. CASE d # c
  BY <1>1, <1>2, <1>4 DEF LastSent
<1> QED
  BY <1>3, <1>4

\* Messages and views stay typed and ordered, and a socket within its capacity.
LEMMA SockStep ==
  ASSUME DataOK, PcOK, BroadcastOK, LetterOK, LinkOK, MutexOK, FeedOK, SockOK, [WsNext]_wsVars
  PROVE  /\ sock' \in [Client -> Seq(Message)] /\ \A c \in Client : Len(sock'[c]) <= Capacity
         /\ view' \in [Client -> [MsgType -> Nat]]
         /\ SockOK'
<1> DEFINE P == /\ sock' \in [Client -> Seq(Message)] /\ \A c \in Client : Len(sock'[c]) <= Capacity
                /\ view' \in [Client -> [MsgType -> Nat]]
                /\ SockOK'
<1>1. /\ sock \in [Client -> Seq(Message)] /\ \A c \in Client : Len(sock[c]) <= Capacity
      /\ view \in [Client -> [MsgType -> Nat]]
      /\ version \in Nat /\ version >= 1 /\ Capacity \in Nat
      /\ \A c \in Client : Ordered(sock[c], view[c], version)
  BY WsAssumption DEF DataOK, SockOK
<1>2. ASSUME NEW c \in Client, NEW m \in Message,
             Fresh(c, m), Deliver(c, m), UNCHANGED <<view, version, link>>
      PROVE  P
  <2>1. CASE link[c] = "open"
    <3>1. /\ sock' = [sock EXCEPT ![c] = Append(sock[c], m)] /\ Len(sock[c]) < Capacity
          /\ sock[c] \in Seq(Message)
      BY <1>1, <1>2, <2>1 DEF Deliver
    <3>2. /\ Append(sock[c], m) \in Seq(Message) /\ Len(Append(sock[c], m)) = Len(sock[c]) + 1
          /\ Len(sock[c]) \in Nat
      BY <3>1, AppendProperties, LenProperties
    <3>3. Ordered(Append(sock[c], m), view[c], version)
      <4>1. /\ m.v <= version /\ (m.type \in Kinds => m.v = version)
            /\ m.type \in Others /\ LastOf(sock[c], "book", view[c].book) > 0 =>
                 m.v <= LastOf(sock[c], "book", view[c].book)
        BY <1>2, <2>1 DEF Fresh, LastSent
      <4>2. /\ sock[c] \in Seq(Message) /\ view[c] \in [MsgType -> Nat]
            /\ Ordered(sock[c], view[c], version)
        BY <1>1
      <4> QED
        BY <1>1, <4>1, <4>2, OrderedAppend
    <3>4. Len(sock[c]) + 1 <= Capacity
      BY <1>1, <3>1, <3>2
    <3>5. SockOK'
      BY <1>1, <1>2, <3>1, <3>3 DEF SockOK
    <3> QED
      BY <1>1, <1>2, <3>1, <3>2, <3>4, <3>5
  <2>2. CASE link[c] # "open"
    BY <1>1, <1>2, <2>2 DEF Deliver, SockOK
  <2> QED
    BY <2>1, <2>2
<1>3. ASSUME NEW c \in Client, Receive(c) PROVE P
  <2>1. /\ sock' = [sock EXCEPT ![c] = Tail(sock[c])] /\ sock[c] # <<>>
        /\ view' = [view EXCEPT ![c][Head(sock[c]).type] = Head(sock[c]).v] /\ version' = version
    BY <1>3 DEF Receive
  <2>2. sock[c] \in Seq(Message) /\ view[c] \in [MsgType -> Nat] /\ Ordered(sock[c], view[c], version)
    BY <1>1
  <2>3. /\ Head(sock[c]) \in Message /\ Tail(sock[c]) \in Seq(Message)
        /\ Len(Tail(sock[c])) = Len(sock[c]) - 1 /\ Len(sock[c]) \in Nat
    BY <2>1, <2>2, HeadTailProperties, LenProperties
  <2>4. Head(sock[c]).type \in MsgType /\ Head(sock[c]).v \in Nat
    BY <2>3 DEF Message
  <2> DEFINE x == [view[c] EXCEPT ![Head(sock[c]).type] = Head(sock[c]).v]
  <2>5. x \in [MsgType -> Nat] /\ view' = [view EXCEPT ![c] = x]
    BY <1>1, <2>1, <2>2, <2>4
  <2>6. Ordered(Tail(sock[c]), x, version)
    BY <1>1, <2>1, <2>2, OrderedTail
  <2> HIDE DEF x
  <2>7. Len(sock[c]) - 1 <= Capacity
    BY <1>1, <2>3
  <2>8. SockOK'
    BY <1>1, <2>1, <2>5, <2>6 DEF SockOK
  <2> QED
    BY <1>1, <2>1, <2>3, <2>5, <2>7, <2>8
<1>4. ASSUME NEW c \in Client, Leave(c) PROVE P
  <2>1. /\ sock' = [sock EXCEPT ![c] = <<>>] /\ view' = [view EXCEPT ![c] = NothingSeen]
        /\ version' = version
    BY <1>4 DEF Leave
  <2>2. <<>> \in Seq(Message) /\ Len(<<>>) = 0 /\ 0 <= Capacity
    BY <1>1
  <2>3. NothingSeen \in [MsgType -> Nat]
    BY DEF NothingSeen
  <2>4. Ordered(<<>>, NothingSeen, version)
    BY <1>1, OrderedEmpty
  <2> HIDE DEF Ordered
  <2>5. SockOK'
    BY <1>1, <2>1, <2>4 DEF SockOK
  <2> QED
    BY <1>1, <2>1, <2>2, <2>3, <2>5
<1>5. ASSUME UNCHANGED <<sock, view>>, version' >= version PROVE P
  <2>1. version' \in Nat
    BY OutboxTyped
  <2>2. \A c \in Client : Ordered(sock[c], view[c], version')
    <3> TAKE c \in Client
    <3>1. /\ sock[c] \in Seq(Message) /\ view[c] \in [MsgType -> Nat] /\ version <= version'
          /\ Ordered(sock[c], view[c], version)
      BY <1>1, <1>5, <2>1
    <3> QED
      BY <1>1, <2>1, <3>1, OrderedGrow
  <2> QED
    BY <1>1, <1>5, <2>2 DEF SockOK
<1> QED
  BY <1>2, <1>3, <1>4, <1>5, SockCases

\* Every variable stays of its type.
LEMMA DataStep ==
  ASSUME DataOK, PcOK, BroadcastOK, LetterOK, LinkOK, MutexOK, FeedOK, SockOK, [WsNext]_wsVars
  PROVE  DataOK'
<1>1. /\ ops \in 0..MaxOps /\ at \in [Actor -> Nat] /\ guest \in Client \cup {Nobody}
      /\ link \in [Client -> {"away", "silent", "open", "gone"}]
      /\ MaxOps \in Nat
  BY WsAssumption DEF DataOK
<1>2. ops' \in 0..MaxOps
  <2>1. (\E a \in Worker \cup Client : Begin(a)) \/ (\E c \in Client : BeginInvalid(c)) \/ UNCHANGED ops
    BY NextCases DEF LockBook, UnlockBook, Notify, LockClients, UnlockClients, LockClient, Written,
         WriteFailed, LockRecipient, Replied, ReadFailed, RemoveClient, Accept, Remote,
         Connect, Speak, Receive, Leave, Handshake, HandshakeFailed, Enlist, Snapshot, Greeted, wsVars
  <2>2. UNCHANGED ops \/ (ops' = ops + 1 /\ ops < MaxOps)
    BY <2>1 DEF Begin, BeginInvalid
  <2> QED
    BY <1>1, <2>2
<1>3. at' \in [Actor -> Nat]
  <2>1. \/ at' = at
        \/ \E a \in Worker \cup Client : \/ at' = [at EXCEPT ![a] = 0]
                                         \/ at' = [at EXCEPT ![a] = 1]
                                         \/ at' = [at EXCEPT ![a] = at[a] + 1]
    BY NextCases DEF Begin, LockBook, UnlockBook, Notify, LockClients, UnlockClients, LockClient, Written,
         WriteFailed, LockRecipient, BeginInvalid, Replied, ReadFailed, RemoveClient, Accept, Remote,
         Connect, Speak, Receive, Leave, Handshake, HandshakeFailed, Enlist, Snapshot, Greeted, wsVars
  <2>2. \A a \in Worker \cup Client : at[a] + 1 \in Nat
    BY <1>1 DEF Actor
  <2> QED
    BY <1>1, <2>1, <2>2
<1>4. guest' \in Client \cup {Nobody}
  <2>1. guest' \in {guest, Nobody} \cup Client
    BY NextCases, GreetedCases DEF Begin, LockBook, UnlockBook, Notify, LockClients, UnlockClients,
         LockClient, Written, WriteFailed, LockRecipient, BeginInvalid, Replied, ReadFailed, RemoveClient,
         Accept, Remote, Connect, Speak, Receive, Leave, Handshake, HandshakeFailed, Enlist, Snapshot, wsVars
  <2> QED
    BY <1>1, <2>1
<1>5. link' \in [Client -> {"away", "silent", "open", "gone"}]
  <2>1. \/ link' = link
        \/ \E c \in Client : \/ link' = [link EXCEPT ![c] = "silent"]
                             \/ link' = [link EXCEPT ![c] = "open"]
                             \/ link' = [link EXCEPT ![c] = "gone"]
    BY NextCases DEF Begin, LockBook, UnlockBook, Notify, LockClients, UnlockClients, LockClient, Written,
         WriteFailed, LockRecipient, BeginInvalid, Replied, ReadFailed, RemoveClient, Accept, Remote,
         Connect, Speak, Receive, Leave, Handshake, HandshakeFailed, Enlist, Snapshot, Greeted, wsVars
  <2> QED
    BY <1>1, <2>1
<1> QED
  BY <1>2, <1>3, <1>4, <1>5, ClientsTyped, OutboxTyped, SockStep DEF DataOK

-----------------------------------------------------------------------------
(* Connections.                                                            *)

LEMMA LinkStep ==
  ASSUME DataOK, PcOK, BroadcastOK, LetterOK, LinkOK, MutexOK, [WsNext]_wsVars
  PROVE  LinkOK'
<1> USE WsAssumption DEF Go
<1> DEFINE P == (guest' = Nobody <=> pc'[Acceptor] = "idle") /\ \A c \in Client : LinkOf(c)'
<1>1. /\ guest = Nobody <=> pc[Acceptor] = "idle"
      /\ \A c \in Client : LinkOf(c)
      /\ pc \in [Actor -> Label] /\ Acceptor \in Actor /\ Acceptor \notin Client
      /\ Client \subseteq Actor /\ Nobody \notin Client
      /\ guest \in Client \cup {Nobody} /\ clients \in Seq(Client) /\ IsInjective(clients)
      /\ link \in [Client -> {"away", "silent", "open", "gone"}]
      /\ sock \in [Client -> Seq(Message)] /\ view \in [Client -> [MsgType -> Nat]]
  BY DEF LinkOK, DataOK, PcOK, Actor
<1>2. ASSUME NEW a \in Actor, UNCHANGED <<guest, link, sock, view, clients>>,
             NEW l \in Label, pc' = [pc EXCEPT ![a] = l], pc[a] \notin {"absent", "leaving", "done"},
             l \notin {"absent", "leaving", "done"},
             a = Acceptor => pc[a] \notin {"idle"} \cup Handshaking /\ l \notin {"idle"} \cup Handshaking
      PROVE  P
  <2>1. /\ pc'[Acceptor] = "idle" <=> pc[Acceptor] = "idle"
        /\ pc'[Acceptor] \in Handshaking <=> pc[Acceptor] \in Handshaking
        /\ pc'[Acceptor] = "handshake" <=> pc[Acceptor] = "handshake"
    BY <1>1, <1>2 DEF Handshaking
  <2>2. ASSUME NEW c \in Client PROVE LinkOf(c)'
    <3>1. /\ pc'[c] = "absent" <=> pc[c] = "absent"
          /\ pc'[c] \in {"leaving", "done"} <=> pc[c] \in {"leaving", "done"}
      BY <1>1, <1>2
    <3>2. LinkOf(c)
      BY <1>1
    <3> QED
      BY <1>2, <2>1, <3>1, <3>2 DEF LinkOf
  <2> QED
    BY <1>1, <1>2, <2>1, <2>2
<1>3. ASSUME NEW a \in Worker \cup Client,
             Begin(a) \/ LockBook(a) \/ UnlockBook(a) \/ Notify(a) \/ LockClients(a) \/ UnlockClients(a)
      PROVE  P
  <2>1. a \in Actor /\ a # Acceptor
    BY DEF Actor
  <2>2. /\ UNCHANGED <<guest, link, sock, view, clients>>
        /\ pc[a] \notin {"absent", "leaving", "done"}
        /\ \E l \in Label : pc' = [pc EXCEPT ![a] = l] /\ l \notin {"absent", "leaving", "done"}
    BY <1>3 DEF Begin, LockBook, UnlockBook, Notify, LockClients, UnlockClients, Label
  <2> QED
    BY <1>2, <2>1, <2>2
<1>4. ASSUME NEW a \in Worker \cup Client, LockClient(a) PROVE P
  <2>1. /\ a \in Actor /\ a # Acceptor /\ "writing" \in Label
        /\ UNCHANGED <<guest, link, sock, view, clients>> /\ pc[a] = "loop"
        /\ pc' = [pc EXCEPT ![a] = "writing"]
    BY <1>4 DEF LockClient, Actor, Label
  <2> QED
    BY <1>2, <2>1
<1>5. ASSUME NEW a \in Actor, LockRecipient(a) PROVE P
  <2>1. /\ "sending" \in Label /\ UNCHANGED <<guest, link, sock, view, clients>> /\ pc[a] = "send"
        /\ pc' = [pc EXCEPT ![a] = "sending"]
    BY <1>5 DEF LockRecipient, Label
  <2> QED
    BY <1>2, <2>1 DEF Handshaking
<1>6. ASSUME NEW a \in Worker \cup Client, Written(a) PROVE P
  <2> DEFINE e == clients[at[a]]
  <2>1. /\ a \in Actor /\ a # Acceptor /\ pc[a] = "writing" /\ pc' = [pc EXCEPT ![a] = "loop"]
        /\ UNCHANGED <<guest, link, view, clients>>
        /\ \/ link[e] = "open" /\ sock' = [sock EXCEPT ![e] = Append(@, Head(outbox[a]))]
           \/ link[e] = "gone" /\ UNCHANGED sock
    BY <1>6 DEF Written, Deliver, Actor
  <2>2. e \in Client /\ e \in ToSet(clients)
    BY <2>1, TargetIsClient DEF ToSet
  <2> HIDE DEF e
  <2>3. ~(e = guest /\ pc[Acceptor] \in Handshaking)
    BY <1>1, <2>2 DEF LinkOf
  <2> QED
    BY <1>1, <2>1, <2>2, <2>3 DEF LinkOf
<1>7. ASSUME NEW a \in Worker \cup Client, WriteFailed(a) PROVE P
  <2> DEFINE e == clients[at[a]]
  <2>1. /\ a \in Actor /\ a # Acceptor /\ pc[a] = "writing" /\ pc' = [pc EXCEPT ![a] = "loop"]
        /\ UNCHANGED <<guest, link, view, sock>> /\ link[e] = "gone"
        /\ clients' = RemoveAt(clients, at[a])
    BY <1>7 DEF WriteFailed, Actor
  <2>2. e \in Client /\ at[a] \in DOMAIN clients
    BY <2>1, TargetIsClient
  <2>3. ToSet(clients') = ToSet(clients) \ {e}
    BY <1>1, <2>1, <2>2, ToSetRemove
  <2> HIDE DEF e
  <2> QED
    BY <1>1, <2>1, <2>2, <2>3 DEF LinkOf
<1>8. ASSUME NEW c \in Client, BeginInvalid(c) PROVE P
  <2>1. /\ "send" \in Label /\ UNCHANGED <<guest, link, sock, view, clients>> /\ pc[c] = "idle"
        /\ pc' = [pc EXCEPT ![c] = "send"]
    BY <1>8 DEF BeginInvalid, Label
  <2> QED
    BY <1>1, <1>2, <2>1
<1>9. ASSUME NEW c \in Client, Replied(c) PROVE P
  <2>1. /\ pc[c] = "sending" /\ pc' = [pc EXCEPT ![c] = "idle"]
        /\ UNCHANGED <<guest, link, view, clients>>
        /\ \/ link[c] = "open" /\ sock' = [sock EXCEPT ![c] = Append(@, Head(outbox[c]))]
           \/ link[c] = "gone" /\ UNCHANGED sock
    BY <1>9 DEF Replied, Deliver
  <2> QED
    BY <1>1, <2>1 DEF LinkOf
<1>10. ASSUME NEW c \in Client, ReadFailed(c) PROVE P
  <2>1. /\ pc[c] = "idle" /\ pc' = [pc EXCEPT ![c] = "leaving"] /\ link[c] = "gone"
        /\ UNCHANGED <<guest, link, view, clients, sock>>
    BY <1>10 DEF ReadFailed
  <2> QED
    BY <1>1, <2>1 DEF LinkOf
<1>11. ASSUME NEW c \in Client, RemoveClient(c) PROVE P
  <2>1. /\ pc[c] = "leaving" /\ pc' = [pc EXCEPT ![c] = "done"]
        /\ UNCHANGED <<guest, link, view, sock>>
    BY <1>11 DEF RemoveClient
  <2>2. ToSet(clients') = ToSet(clients) \ {c}
    BY <1>1, <1>11, ToSetRemove DEF RemoveClient
  <2> QED
    BY <1>1, <2>1, <2>2 DEF LinkOf
<1>12. ASSUME NEW c \in Client, Accept(c) PROVE P
  <2>1. /\ pc[Acceptor] = "idle" /\ pc' = [pc EXCEPT ![Acceptor] = "handshake"]
        /\ link[c] = "silent" /\ guest' = c /\ UNCHANGED <<link, view, sock, clients>>
    BY <1>12 DEF Accept
  <2> QED
    BY <1>1, <2>1 DEF LinkOf, Handshaking
<1>13. ASSUME NEW c \in Client, Remote(c) PROVE P
  <2>1. CASE Connect(c)
    BY <1>1, <2>1 DEF Connect, LinkOf
  <2>2. CASE Speak(c)
    <3>1. pc[Acceptor] = "handshake" /\ sock[c] = <<>> /\ view[c] = NothingSeen
      BY <1>1, <2>2 DEF Speak, LinkOf
    <3> QED
      BY <1>1, <2>2, <3>1 DEF Speak, LinkOf, Handshaking
  <2>3. CASE Receive(c)
    BY <1>1, <2>3 DEF Receive, LinkOf
  <2>4. CASE Leave(c)
    BY <1>1, <2>4 DEF Leave, LinkOf
  <2> QED
    BY <1>13, <2>1, <2>2, <2>3, <2>4 DEF Remote
<1>14. ASSUME Handshake PROVE P
  BY <1>1, <1>14 DEF Handshake, LinkOf, Handshaking
<1>15. ASSUME HandshakeFailed PROVE P
  BY <1>1, <1>15 DEF HandshakeFailed, LinkOf, Handshaking
<1>16. ASSUME Enlist PROVE P
  <2>1. /\ pc[Acceptor] = "enlist" /\ pc' = [pc EXCEPT ![Acceptor] = "send"]
        /\ clients' = Append(clients, guest) /\ UNCHANGED <<guest, link, view, sock>>
    BY <1>16 DEF Enlist
  <2>2. guest \in Client
    BY <1>1, <2>1
  <2>3. ToSet(clients') = ToSet(clients) \cup {guest}
    BY <1>1, <2>1, <2>2, ToSetAppend
  <2> QED
    BY <1>1, <2>1, <2>2, <2>3 DEF LinkOf, Handshaking
<1>17. ASSUME Snapshot("book snapshot", "book") \/ Snapshot("orders snapshot", "orders") PROVE P
  <2>1. /\ "send" \in Label /\ UNCHANGED <<guest, link, sock, view, clients>>
        /\ pc[Acceptor] \in {"book snapshot", "orders snapshot"}
        /\ pc' = [pc EXCEPT ![Acceptor] = "send"]
    BY <1>17 DEF Snapshot, Label
  <2> QED
    BY <1>1, <1>2, <2>1 DEF Handshaking
<1>18. ASSUME Greeted PROVE P
  <2>1. /\ pc[Acceptor] = "sending" /\ UNCHANGED <<link, view, clients>>
        /\ \/ link[guest] = "open" /\ sock' = [sock EXCEPT ![guest] = Append(@, Head(outbox[Acceptor]))]
           \/ link[guest] = "gone" /\ UNCHANGED sock
    BY <1>18 DEF Greeted, Deliver
  <2>2. guest \in Client
    BY <1>1, <2>1
  <2>3. \/ /\ guest' = guest /\ pc'[Acceptor] \in {"book snapshot", "orders snapshot"}
           /\ \A c \in Client : pc'[c] = pc[c]
        \/ /\ guest' = Nobody /\ pc'[Acceptor] = "idle" /\ pc'[guest] = "idle"
           /\ \A c \in Client : c # guest => pc'[c] = pc[c]
    BY <1>1, <1>18, <2>2, GreetedCases
  <2> QED
    BY <1>1, <2>1, <2>2, <2>3 DEF LinkOf, Handshaking
<1>19. ASSUME UNCHANGED wsVars PROVE P
  BY <1>1, <1>19 DEF wsVars, LinkOf
<1>20. P
  BY <1>3, <1>4, <1>5, <1>6, <1>7, <1>8, <1>9, <1>10, <1>11, <1>12, <1>13, <1>14, <1>15, <1>16, <1>17,
     <1>18, <1>19, NextCases
<1> QED
  BY <1>20 DEF LinkOK

LEMMA ListedStep ==
  ASSUME DataOK, PcOK, BroadcastOK, LetterOK, LinkOK, ListedIsOwned, [WsNext]_wsVars
  PROVE  ListedIsOwned'
<1> USE WsAssumption DEF Go
<1> DEFINE Owned(c) == c = guest \/ pc[c] \notin {"absent", "done"}
<1>1. /\ \A c \in ToSet(clients) : Owned(c)
      /\ pc \in [Actor -> Label] /\ Acceptor \in Actor /\ Acceptor \notin Client
      /\ Client \subseteq Actor
      /\ clients \in Seq(Client) /\ IsInjective(clients)
  BY DEF ListedIsOwned, DataOK, PcOK, Actor
<1>2. ToSet(clients) \subseteq Client
  BY <1>1, LenProperties, ElementOfSeq DEF ToSet
<1>3. ASSUME NEW a \in Worker \cup Client,
             Begin(a) \/ LockBook(a) \/ UnlockBook(a) \/ Notify(a) \/ LockClients(a) \/ UnlockClients(a)
      PROVE  ListedIsOwned'
  <2>1. clients' = clients /\ guest' = guest
        /\ \A c \in Client : pc'[c] = pc[c] \/ pc'[c] \notin {"absent", "done"}
    BY <1>1, <1>3 DEF Begin, LockBook, UnlockBook, Notify, LockClients, UnlockClients
  <2> QED
    BY <1>1, <1>2, <2>1 DEF ListedIsOwned
<1>4. ASSUME NEW a \in Worker \cup Client, LockClient(a) \/ Written(a) PROVE ListedIsOwned'
  <2>1. clients' = clients /\ guest' = guest
        /\ \A c \in Client : pc'[c] = pc[c] \/ pc'[c] \notin {"absent", "done"}
    BY <1>1, <1>4 DEF LockClient, Written
  <2> QED
    BY <1>1, <1>2, <2>1 DEF ListedIsOwned
<1>5. ASSUME NEW a \in Worker \cup Client, WriteFailed(a) PROVE ListedIsOwned'
  <2>1. guest' = guest /\ \A c \in Client : pc'[c] = pc[c] \/ pc'[c] \notin {"absent", "done"}
    BY <1>1, <1>5 DEF WriteFailed
  <2>2. at[a] \in DOMAIN clients
    BY <1>5, TargetIsClient DEF WriteFailed, Actor
  <2>3. ToSet(clients') \subseteq ToSet(clients)
    BY <1>1, <1>5, <2>2, ToSetRemove DEF WriteFailed
  <2> QED
    BY <1>1, <1>2, <2>1, <2>3 DEF ListedIsOwned
<1>6. ASSUME NEW c \in Client, RemoveClient(c) PROVE ListedIsOwned'
  <2>1. guest' = guest /\ pc' = [pc EXCEPT ![c] = "done"]
    BY <1>6 DEF RemoveClient
  <2>2. ToSet(clients') = ToSet(clients) \ {c}
    BY <1>1, <1>6, ToSetRemove DEF RemoveClient
  <2> QED
    BY <1>1, <1>2, <2>1, <2>2 DEF ListedIsOwned
<1>7. ASSUME NEW a \in Actor, LockRecipient(a) PROVE ListedIsOwned'
  <2>1. clients' = clients /\ guest' = guest
        /\ \A c \in Client : pc'[c] = pc[c] \/ pc'[c] \notin {"absent", "done"}
    BY <1>1, <1>7 DEF LockRecipient
  <2> QED
    BY <1>1, <1>2, <2>1 DEF ListedIsOwned
<1>8. ASSUME NEW c \in Client, BeginInvalid(c) \/ Replied(c) \/ ReadFailed(c) PROVE ListedIsOwned'
  <2>1. clients' = clients /\ guest' = guest
        /\ \A d \in Client : pc'[d] = pc[d] \/ pc'[d] \notin {"absent", "done"}
    BY <1>1, <1>8 DEF BeginInvalid, Replied, ReadFailed
  <2> QED
    BY <1>1, <1>2, <2>1 DEF ListedIsOwned
<1>9. ASSUME NEW c \in Client, Accept(c) PROVE ListedIsOwned'
  <2>1. guest \notin Client
    BY <1>9 DEF Accept, LinkOK, Actor
  <2>2. clients' = clients /\ \A d \in Client : pc'[d] = pc[d]
    BY <1>1, <1>9 DEF Accept
  <2> QED
    BY <1>1, <1>2, <2>1, <2>2 DEF ListedIsOwned
<1>10. ASSUME NEW c \in Client, Remote(c) PROVE ListedIsOwned'
  BY <1>10 DEF Remote, Connect, Speak, Receive, Leave, ListedIsOwned
<1>11. ASSUME Handshake \/ HandshakeFailed PROVE ListedIsOwned'
  <2>1. clients' = clients /\ \A c \in Client : pc'[c] = pc[c]
    BY <1>1, <1>11 DEF Handshake, HandshakeFailed
  <2>2. guest' = guest \/ guest \notin ToSet(clients)
    BY <1>2, <1>11 DEF Handshake, HandshakeFailed, LinkOK, LinkOf, Handshaking
  <2> QED
    BY <1>1, <1>2, <2>1, <2>2 DEF ListedIsOwned
<1>12. ASSUME Enlist PROVE ListedIsOwned'
  <2>1. guest \in Client /\ clients' = Append(clients, guest) /\ guest' = guest
    BY <1>12 DEF Enlist, LinkOK, DataOK
  <2>2. ToSet(clients') = ToSet(clients) \cup {guest}
    BY <1>1, <2>1, ToSetAppend
  <2>3. \A c \in Client : pc'[c] = pc[c]
    BY <1>1, <1>12 DEF Enlist
  <2> QED
    BY <1>1, <1>2, <2>1, <2>2, <2>3 DEF ListedIsOwned
<1>13. ASSUME Snapshot("book snapshot", "book") \/ Snapshot("orders snapshot", "orders")
       PROVE  ListedIsOwned'
  <2>1. clients' = clients /\ guest' = guest /\ \A c \in Client : pc'[c] = pc[c]
    BY <1>1, <1>13 DEF Snapshot
  <2> QED
    BY <1>1, <1>2, <2>1 DEF ListedIsOwned
<1>14. ASSUME Greeted PROVE ListedIsOwned'
  <2>1. clients' = clients /\ pc[Acceptor] = "sending"
    BY <1>14 DEF Greeted
  <2>2. \A c \in Client : Owned(c) => Owned(c)'
    BY <1>1, <1>14, <2>1, GreetedCases DEF LinkOK
  <2> QED
    BY <1>1, <1>2, <2>1, <2>2 DEF ListedIsOwned
<1>15. ASSUME UNCHANGED wsVars PROVE ListedIsOwned'
  BY <1>15 DEF wsVars, ListedIsOwned
<1> QED
  BY <1>3, <1>4, <1>5, <1>6, <1>7, <1>8, <1>9, <1>10, <1>11, <1>12, <1>13, <1>14, <1>15, NextCases

-----------------------------------------------------------------------------
(* What is about to be sent.                                               *)

LEMMA BroadcastStep ==
  ASSUME DataOK, PcOK, BroadcastOK, LetterOK, LinkOK, MutexOK, [WsNext]_wsVars
  PROVE  BroadcastOK'
<1> USE WsAssumption DEF Go, Load
<1> DEFINE Packet(a) ==
             pc[a] \in Broadcasting =>
               outbox[a] \in {<<Msg("book", version), Msg("orders", version)>>,
                              <<Msg("orders", version)>>, <<Msg("trade", version)>>}
           Inside(a) == /\ pc[a] \in {"loop", "writing"} => at[a] >= 1
                        /\ pc[a] = "writing" => at[a] <= Len(clients)
<1>1. /\ \A b \in Actor : Packet(b) /\ Inside(b)
      /\ pc \in [Actor -> Label] /\ Acceptor \in Actor /\ Acceptor \notin Client \cup Worker
      /\ Client \cup Worker \subseteq Actor /\ at \in [Actor -> Nat]
      /\ outbox \in [Actor -> Seq(Message)]
  BY DEF BroadcastOK, DataOK, PcOK, Actor
<1>2. SUFFICES ASSUME NEW b \in Actor PROVE Packet(b)' /\ Inside(b)'
  BY DEF BroadcastOK
<1>3. ASSUME UNCHANGED version, pc'[b] = pc[b], outbox'[b] = outbox[b] PROVE Packet(b)'
  BY <1>1, <1>3
<1>4. ASSUME UNCHANGED clients, pc'[b] = pc[b], at'[b] = at[b] PROVE Inside(b)'
  BY <1>1, <1>4
<1>5. ASSUME pc'[b] \notin Broadcasting PROVE Packet(b)' /\ Inside(b)'
  BY <1>5 DEF Broadcasting
<1>6. ASSUME pc[b] \notin {"loop", "writing"}, pc'[b] = pc[b] PROVE Inside(b)'
  BY <1>6
<1>7. ASSUME NEW a \in Worker \cup Client, Begin(a) \/ LockBook(a) \/ UnlockBook(a)
      PROVE  Packet(b)' /\ Inside(b)'
  <2>1. /\ UNCHANGED <<version, clients, at>> /\ pc'[a] \notin Broadcasting
        /\ b # a => pc'[b] = pc[b] /\ outbox'[b] = outbox[b]
    BY <1>1, <1>7 DEF Begin, LockBook, UnlockBook, Broadcasting
  <2> QED
    BY <1>3, <1>4, <1>5, <2>1
<1>8. ASSUME NEW a \in Worker \cup Client, Notify(a) PROVE Packet(b)' /\ Inside(b)'
  <2>1. CASE b = a
    BY <1>1, <1>8, <2>1 DEF Notify
  <2>2. CASE b # a
    <3>1. HoldsBook(a) /\ a \in Actor /\ pc'[b] = pc[b]
      BY <1>1, <1>8, <2>2 DEF Notify, HoldsBook
    <3>2. ~HoldsBook(b)
      BY <2>2, <3>1, HoldersOfBook
    <3>3. pc'[b] \notin Broadcasting
      BY <3>1, <3>2 DEF HoldsBook, Broadcasting
    <3> QED
      BY <1>5, <3>3
  <2> QED
    BY <2>1, <2>2
<1>9. ASSUME NEW a \in Worker \cup Client, LockClients(a) PROVE Packet(b)' /\ Inside(b)'
  <2>1. CASE b = a
    BY <1>1, <1>9, <2>1 DEF LockClients, Broadcasting
  <2>2. CASE b # a
    BY <1>1, <1>3, <1>4, <1>9, <2>2 DEF LockClients
  <2> QED
    BY <2>1, <2>2
<1>10. ASSUME NEW a \in Worker \cup Client, UnlockClients(a) PROVE Packet(b)' /\ Inside(b)'
  <2>1. CASE b = a
    <3>1. /\ pc[a] \in Broadcasting /\ version' = version /\ outbox'[a] = Tail(outbox[a])
          /\ pc'[a] = IF Tail(outbox[a]) = <<>> THEN "plan" ELSE "broadcast"
      BY <1>1, <1>10 DEF UnlockClients, Broadcasting
    <3>2. Tail(outbox[a]) \in {<<>>, <<Msg("orders", version)>>}
      BY <1>1, <3>1, BroadcastCases
    <3> QED
      BY <2>1, <3>1, <3>2 DEF Broadcasting
  <2>2. CASE b # a
    BY <1>1, <1>3, <1>4, <1>10, <2>2 DEF UnlockClients
  <2> QED
    BY <2>1, <2>2
<1>11. ASSUME NEW a \in Worker \cup Client, LockClient(a) \/ Written(a)
       PROVE  Packet(b)' /\ Inside(b)'
  <2>1. CASE b = a
    BY <1>1, <1>11, <2>1 DEF LockClient, Written, Broadcasting
  <2>2. CASE b # a
    BY <1>1, <1>3, <1>4, <1>11, <2>2 DEF LockClient, Written
  <2> QED
    BY <2>1, <2>2
<1>12. ASSUME NEW a \in Worker \cup Client, WriteFailed(a) PROVE Packet(b)' /\ Inside(b)'
  <2>1. CASE b = a
    BY <1>1, <1>12, <2>1 DEF WriteFailed, Broadcasting
  <2>2. CASE b # a
    <3>1. pc[a] = "writing" /\ a \in Actor
      BY <1>1, <1>12 DEF WriteFailed
    <3>2. pc[b] \notin {"loop", "writing"}
      BY <2>2, <3>1, OneLoop
    <3> QED
      BY <1>1, <1>3, <1>6, <1>12, <2>2, <3>2 DEF WriteFailed
  <2> QED
    BY <2>1, <2>2
<1>13. ASSUME NEW a \in Actor, LockRecipient(a) PROVE Packet(b)' /\ Inside(b)'
  <2>1. /\ UNCHANGED <<version, clients, at, outbox>> /\ pc'[a] \notin Broadcasting
        /\ b # a => pc'[b] = pc[b]
    BY <1>1, <1>13 DEF LockRecipient, Broadcasting
  <2> QED
    BY <1>3, <1>4, <1>5, <2>1
<1>14. ASSUME NEW c \in Client, BeginInvalid(c) \/ Replied(c) \/ ReadFailed(c)
       PROVE  Packet(b)' /\ Inside(b)'
  <2>1. /\ UNCHANGED <<version, clients, at>> /\ pc'[c] \notin Broadcasting
        /\ b # c => pc'[b] = pc[b] /\ outbox'[b] = outbox[b]
    BY <1>1, <1>14 DEF BeginInvalid, Replied, ReadFailed, Broadcasting
  <2> QED
    BY <1>3, <1>4, <1>5, <2>1
<1>15. ASSUME NEW c \in Client, RemoveClient(c) PROVE Packet(b)' /\ Inside(b)'
  <2>1. /\ UNCHANGED <<version, outbox>> /\ pc'[c] \notin Broadcasting /\ clients_mtx = Nobody
        /\ b # c => pc'[b] = pc[b]
    BY <1>1, <1>15 DEF RemoveClient, Broadcasting
  <2>2. pc[b] \notin {"loop", "writing"}
    BY <2>1 DEF MutexOK, Actor
  <2> QED
    BY <1>3, <1>5, <1>6, <2>1, <2>2
<1>16. ASSUME NEW c \in Client, Accept(c) \/ Remote(c) PROVE Packet(b)' /\ Inside(b)'
  <2>1. /\ UNCHANGED <<version, clients, at, outbox>> /\ pc'[Acceptor] \notin Broadcasting
        /\ b # Acceptor => pc'[b] = pc[b]
    BY <1>1, <1>16 DEF Accept, Remote, Connect, Speak, Receive, Leave, Broadcasting, PcOK, Sending
  <2> QED
    BY <1>3, <1>4, <1>5, <2>1
<1>17. ASSUME \/ Handshake \/ HandshakeFailed
              \/ Snapshot("book snapshot", "book") \/ Snapshot("orders snapshot", "orders")
       PROVE  Packet(b)' /\ Inside(b)'
  <2>1. /\ UNCHANGED <<version, clients, at>> /\ pc'[Acceptor] \notin Broadcasting
        /\ b # Acceptor => pc'[b] = pc[b] /\ outbox'[b] = outbox[b]
    BY <1>1, <1>17 DEF Handshake, HandshakeFailed, Snapshot, Broadcasting
  <2> QED
    BY <1>3, <1>4, <1>5, <2>1
<1>18. ASSUME Enlist PROVE Packet(b)' /\ Inside(b)'
  <2>1. /\ UNCHANGED version /\ pc'[Acceptor] \notin Broadcasting /\ clients_mtx = Nobody
        /\ b # Acceptor => pc'[b] = pc[b] /\ outbox'[b] = outbox[b]
    BY <1>1, <1>18 DEF Enlist, Broadcasting
  <2>2. pc[b] \notin {"loop", "writing"}
    BY <2>1 DEF MutexOK, Actor
  <2> QED
    BY <1>3, <1>5, <1>6, <2>1, <2>2
<1>19. ASSUME Greeted PROVE Packet(b)' /\ Inside(b)'
  <2>1. guest \in Client
    BY <1>19 DEF Greeted, LinkOK, DataOK
  <2>2. /\ UNCHANGED <<version, clients, at>>
        /\ b # Acceptor => outbox'[b] = outbox[b]
    BY <1>1, <1>19 DEF Greeted
  <2>3. pc'[b] = pc[b] \/ pc'[b] \in {"book snapshot", "orders snapshot", "idle"}
    BY <1>1, <1>19, <2>1, GreetedCases
  <2>4. pc'[Acceptor] \in {"book snapshot", "orders snapshot", "idle"}
    BY <1>1, <1>19, <2>1, GreetedCases
  <2> QED
    BY <1>3, <1>4, <1>5, <2>2, <2>3, <2>4 DEF Broadcasting
<1>20. ASSUME UNCHANGED wsVars PROVE Packet(b)' /\ Inside(b)'
  BY <1>3, <1>4, <1>20 DEF wsVars
<1> HIDE DEF Packet, Inside
<1> QED
  BY <1>7, <1>8, <1>9, <1>10, <1>11, <1>12, <1>13, <1>14, <1>15, <1>16, <1>17, <1>18, <1>19, <1>20,
     NextCases

-----------------------------------------------------------------------------
(* The feed of a client.                                                   *)

\* A client that is not listed has been sent nothing.
LEMMA NothingSent ==
  ASSUME DataOK, LinkOK, NEW c \in Client, NEW t \in MsgType,
         link[c] # "open" \/ c \notin ToSet(clients)
  PROVE  LastSent(c, t) = 0
<1>1. sock[c] = <<>> /\ view[c] = NothingSeen
  BY DEF LinkOK, LinkOf
<1>2. \A i \in DOMAIN sock[c] : FALSE
  BY <1>1
<1>3. view[c][t] = 0
  BY <1>1 DEF NothingSeen
<1>4. {i \in DOMAIN sock[c] : sock[c][i].type = t} = {}
  BY <1>2
<1> QED
  BY <1>3, <1>4 DEF LastSent, LastOf

\* What a client has been sent last of a type is a version, not above the book's.
LEMMA SentBound ==
  ASSUME DataOK, SockOK, NEW c \in Client, NEW t \in MsgType
  PROVE  LastSent(c, t) \in Nat /\ LastSent(c, t) <= version
<1>1. /\ sock[c] \in Seq(Message) /\ view[c] \in [MsgType -> Nat] /\ version \in Nat
      /\ Ordered(sock[c], view[c], version)
  BY DEF DataOK, SockOK
<1> QED
  BY <1>1, LastOfBound DEF LastSent

\* As long as a client stays, it only changes to the version as it is.
LEMMA SentStep ==
  ASSUME DataOK, PcOK, BroadcastOK, LetterOK, LinkOK, MutexOK, FeedOK, [WsNext]_wsVars,
         NEW c \in Client, link'[c] = "open", NEW t \in {"book", "orders"}
  PROVE  \/ LastSent(c, t)' = LastSent(c, t)
         \/ LastSent(c, t)' = version /\ version' = version
<1>1. t \in MsgType /\ t \in Kinds
  BY DEF MsgType, Kinds
<1>2. ASSUME NEW d \in Client, NEW m \in Message,
             Fresh(d, m), Deliver(d, m), UNCHANGED <<view, version, link>>
      PROVE  LastSent(c, t)' = LastSent(c, t) \/ (LastSent(c, t)' = version /\ version' = version)
  BY <1>1, <1>2, Sent DEF Fresh
<1>3. ASSUME NEW d \in Client, Receive(d) PROVE LastSent(c, t)' = LastSent(c, t)
  BY <1>1, <1>3, Received
<1>4. ASSUME NEW d \in Client, Leave(d) PROVE LastSent(c, t)' = LastSent(c, t)
  <2>1. d # c
    BY <1>4 DEF Leave, DataOK
  <2>2. sock'[c] = sock[c] /\ view'[c] = view[c]
    BY <1>4, <2>1 DEF Leave, DataOK
  <2> QED
    BY <2>2 DEF LastSent
<1>5. ASSUME UNCHANGED <<sock, view>> PROVE LastSent(c, t)' = LastSent(c, t)
  BY <1>5 DEF LastSent
<1> QED
  BY <1>2, <1>3, <1>4, <1>5, SockCases

\* A change of the book is owed to everybody.
LEMMA NotifyOwes ==
  ASSUME DataOK, PcOK, NEW a \in Worker \cup Client, Notify(a), version' # version,
         NEW c \in Client, NEW t \in {"book", "orders"}
  PROVE  OwedBy(a, c, t)'
<1>1. /\ version' \in Nat /\ version' = version + 1 /\ a \in Actor
      /\ pc'[a] = "broadcast"
      /\ outbox'[a] = <<Msg("book", version'), Msg("orders", version')>>
  <2>1. Head(plan[a]) = "change"
    BY DEF Notify, DataOK
  <2>2. version \in Nat /\ a \in Actor /\ pc \in [Actor -> Label] /\ outbox \in [Actor -> Seq(Message)]
    BY DEF DataOK, PcOK, Actor
  <2>3. version' = version + 1
    BY <2>1 DEF Notify
  <2>4. pc' = [pc EXCEPT ![a] = "broadcast"]
    BY DEF Notify, Go
  <2>5. outbox' = [outbox EXCEPT ![a] = <<Msg("book", version'), Msg("orders", version')>>]
    BY <2>1 DEF Notify, Load
  <2> QED
    BY <2>2, <2>3, <2>4, <2>5
<1>2. /\ DOMAIN outbox'[a] = {1, 2} /\ outbox'[a][1] = Msg("book", version')
      /\ outbox'[a][2] = Msg("orders", version')
  BY <1>1, Tuples
<1>3. outbox'[a][1].type = "book" /\ outbox'[a][2].type = "orders"
  BY <1>2 DEF Msg
<1> QED
  BY <1>1, <1>2, <1>3 DEF OwedBy, Broadcasting

\* What a thread owes is left alone by a step that touches neither the thread
\* nor the list, nor the list from the place where the thread is.
LEMMA OwedKept ==
  ASSUME NEW b \in Actor, NEW c \in Client, NEW t \in {"book", "orders"}, OwedBy(b, c, t),
         pc'[b] \in Broadcasting, outbox'[b] = outbox[b],
         pc[b] = "broadcast" => pc'[b] = "broadcast",
         \A i \in DOMAIN clients : i >= at[b] /\ clients[i] = c =>
           \E j \in DOMAIN clients' : j >= at'[b] /\ clients'[j] = c
  PROVE  OwedBy(b, c, t)'
BY DEF OwedBy

\* What is owed to a client stays owed until it has been sent.
LEMMA OwedStep ==
  ASSUME DataOK, PcOK, BroadcastOK, LetterOK, LinkOK, MutexOK, [WsNext]_wsVars,
         NEW b \in Actor, NEW c \in Client, NEW t \in {"book", "orders"}, OwedBy(b, c, t),
         link[c] = "open", c \in ToSet(clients)
  PROVE  \/ OwedBy(b, c, t)'
         \/ LastSent(c, t)' = version' /\ version' = version
<1> USE WsAssumption DEF Go, Load
<1>1. /\ pc \in [Actor -> Label] /\ Acceptor \in Actor /\ Acceptor \notin Client \cup Worker
      /\ Client \cup Worker \subseteq Actor /\ at \in [Actor -> Nat] /\ outbox \in [Actor -> Seq(Message)]
      /\ clients \in Seq(Client) /\ IsInjective(clients)
  BY DEF DataOK, PcOK, Actor
<1>2. pc[b] \in Broadcasting /\ b # Acceptor /\ HoldsBook(b)
  BY DEF OwedBy, PcOK, Broadcasting, Sending, HoldsBook
<1>3. ASSUME UNCHANGED clients, pc'[b] = pc[b], outbox'[b] = outbox[b], at'[b] = at[b]
      PROVE  OwedBy(b, c, t)'
  BY <1>2, <1>3, OwedKept
<1>4. ASSUME pc[b] = "broadcast", pc'[b] = pc[b], outbox'[b] = outbox[b]
      PROVE  OwedBy(b, c, t)'
  BY <1>4 DEF OwedBy
<1>5. ASSUME NEW a \in Worker \cup Client, Begin(a) \/ LockBook(a) \/ UnlockBook(a)
      PROVE  OwedBy(b, c, t)'
  <2>1. a # b
    BY <1>2, <1>5 DEF Begin, LockBook, UnlockBook, Broadcasting
  <2>2. UNCHANGED clients /\ pc'[b] = pc[b] /\ outbox'[b] = outbox[b] /\ at'[b] = at[b]
    BY <1>1, <1>5, <2>1 DEF Begin, LockBook, UnlockBook
  <2> QED
    BY <1>3, <2>2
<1>6. ASSUME NEW a \in Worker \cup Client, Notify(a) PROVE FALSE
  <2>1. a \in Actor /\ HoldsBook(a) /\ pc[a] = "plan"
    BY <1>1, <1>6 DEF Notify, HoldsBook
  <2>2. a = b
    BY <1>2, <2>1, HoldersOfBook
  <2> QED
    BY <1>2, <2>1, <2>2 DEF Broadcasting
<1>7. ASSUME NEW a \in Worker \cup Client, LockClients(a) PROVE OwedBy(b, c, t)'
  <2>1. CASE a # b
    BY <1>1, <1>3, <1>7, <2>1 DEF LockClients
  <2>2. CASE a = b
    <3>1. /\ pc'[b] = "loop" /\ outbox' = outbox /\ clients' = clients /\ at'[b] = 1
      BY <1>1, <1>7, <2>2 DEF LockClients
    <3>2. PICK i \in DOMAIN clients : clients[i] = c
      BY DEF ToSet
    <3>3. i >= 1
      BY <1>1, <3>2, LenProperties
    <3> QED
      BY <3>1, <3>2, <3>3 DEF OwedBy, Broadcasting
  <2> QED
    BY <2>1, <2>2
<1>8. ASSUME NEW a \in Worker \cup Client, UnlockClients(a) PROVE OwedBy(b, c, t)'
  <2>1. CASE a # b
    BY <1>1, <1>3, <1>8, <2>1 DEF UnlockClients
  <2>2. CASE a = b
    <3>1. /\ pc[b] = "loop" /\ at[b] > Len(clients)
          /\ outbox'[b] = Tail(outbox[b]) /\ clients' = clients
          /\ pc'[b] = IF Tail(outbox[b]) = <<>> THEN "plan" ELSE "broadcast"
      BY <1>1, <1>8, <2>2 DEF UnlockClients
    <3>2. ~\E i \in DOMAIN clients : i >= at[b]
      BY <1>1, <3>1, LenProperties
    <3>3. PICK k \in DOMAIN outbox[b] : outbox[b][k].type = t /\ k > 1
      BY <3>1, <3>2 DEF OwedBy
    <3>4. /\ outbox[b] = <<Msg("book", version), Msg("orders", version)>>
          /\ Tail(outbox[b]) = <<Msg("orders", version)>> /\ Tail(outbox[b]) # <<>> /\ k = 2
      BY <1>2, <3>3, BroadcastCases
    <3>5. outbox'[b][1].type = t /\ 1 \in DOMAIN outbox'[b] /\ pc'[b] = "broadcast"
      BY <3>1, <3>3, <3>4, Tuples
    <3> QED
      BY <3>5 DEF OwedBy, Broadcasting
  <2> QED
    BY <2>1, <2>2
<1>9. ASSUME NEW a \in Worker \cup Client, LockClient(a) PROVE OwedBy(b, c, t)'
  <2>1. CASE a # b
    BY <1>1, <1>3, <1>9, <2>1 DEF LockClient
  <2>2. CASE a = b
    <3>1. /\ pc[b] = "loop" /\ pc'[b] = "writing" /\ UNCHANGED <<outbox, at, clients>>
      BY <1>1, <1>9, <2>2 DEF LockClient
    <3> QED
      BY <3>1, OwedKept DEF Broadcasting
  <2> QED
    BY <2>1, <2>2
<1>10. ASSUME NEW a \in Worker \cup Client, Written(a)
       PROVE  OwedBy(b, c, t)' \/ (LastSent(c, t)' = version' /\ version' = version)
  <2>1. CASE a # b
    BY <1>1, <1>3, <1>10, <2>1 DEF Written
  <2>2. CASE a = b
    <3>1. /\ pc[b] = "writing" /\ pc'[b] = "loop" /\ at'[b] = at[b] + 1
          /\ UNCHANGED <<outbox, clients, view, version>> /\ Deliver(clients[at[b]], Head(outbox[b]))
      BY <1>1, <1>10, <2>2 DEF Written
    <3>2. at[b] \in DOMAIN clients /\ clients[at[b]] \in Client
      BY <3>1, TargetIsClient
    <3>3. CASE clients[at[b]] # c
      <4>1. \A i \in DOMAIN clients : i >= at[b] /\ clients[i] = c => i >= at[b] + 1
        BY <1>1, <3>2, <3>3, LenProperties
      <4> QED
        BY <3>1, <4>1, OwedKept DEF Broadcasting
    <3>4. CASE clients[at[b]] = c /\ Head(outbox[b]).type = t
      <4>1. Head(outbox[b]) \in Message /\ Head(outbox[b]).v = version
        <5>1. version \in Nat
          BY DEF DataOK
        <5>2. PICK u \in MsgType : Head(outbox[b]) = Msg(u, version)
          BY <1>2, BroadcastCases DEF MsgType
        <5> QED
          BY <5>1, <5>2, MsgTyped
      <4>2. t \in MsgType
        BY DEF MsgType
      <4>3. LastSent(c, t)' = version
        BY <3>1, <3>4, <4>1, <4>2, Sent
      <4> QED
        BY <3>1, <4>3
    <3>5. CASE Head(outbox[b]).type # t
      <4>1. outbox[b][1] = Head(outbox[b])
        BY <1>2, BroadcastCases, Tuples
      <4>2. PICK k \in DOMAIN outbox[b] : outbox[b][k].type = t
        BY DEF OwedBy
      <4>3. k > 1
        BY <1>2, <3>5, <4>1, <4>2, BroadcastCases
      <4> QED
        BY <3>1, <4>2, <4>3 DEF OwedBy, Broadcasting
    <3> QED
      BY <3>3, <3>4, <3>5
  <2> QED
    BY <2>1, <2>2
<1>11. ASSUME NEW a \in Worker \cup Client, WriteFailed(a) PROVE OwedBy(b, c, t)'
  <2>1. a \in Actor /\ pc[a] = "writing"
    BY <1>1, <1>11 DEF WriteFailed
  <2>2. CASE a # b
    <3>1. pc[b] = "broadcast"
      BY <1>2, <2>1, <2>2, OneLoop DEF Broadcasting
    <3> QED
      BY <1>1, <1>4, <1>11, <2>2, <3>1 DEF WriteFailed
  <2>3. CASE a = b
    <3>1. /\ pc[b] = "writing" /\ pc'[b] = "loop" /\ UNCHANGED <<outbox, at>>
          /\ clients' = RemoveAt(clients, at[b]) /\ link[clients[at[b]]] = "gone"
      BY <1>1, <1>11, <2>3 DEF WriteFailed
    <3>2. at[b] \in DOMAIN clients /\ clients[at[b]] # c
      BY <3>1, TargetIsClient
    <3>3. /\ DOMAIN clients = 1..Len(clients) /\ Len(clients) \in Nat
      BY <1>1, LenProperties
    <3>4. /\ clients' \in Seq(Client) /\ Len(clients') = Len(clients) - 1
          /\ \A k \in 1..(Len(clients) - 1) : clients'[k] = IF k < at[b] THEN clients[k] ELSE clients[k + 1]
      <4> DEFINE q == RemoveAt(clients, at[b])
      <4>1. at[b] \in 1..Len(clients)
        BY <3>2, <3>3
      <4>2. /\ q \in Seq(Client) /\ Len(q) = Len(clients) - 1
            /\ \A k \in 1..(Len(clients) - 1) : q[k] = IF k < at[b] THEN clients[k] ELSE clients[k + 1]
        BY <1>1, <4>1, RemoveAtProperties
      <4>3. clients' = q
        BY <3>1
      <4> HIDE DEF q
      <4> QED
        BY <4>2, <4>3
    <3>5. DOMAIN clients' = 1..(Len(clients) - 1)
      BY <3>4, LenProperties
    <3>6. ASSUME NEW i \in DOMAIN clients, i >= at[b], clients[i] = c
          PROVE  \E j \in DOMAIN clients' : j >= at[b] /\ clients'[j] = c
      <4>1. i > at[b] /\ at[b] \in 1..Len(clients)
        BY <3>2, <3>3, <3>6
      <4>2. i - 1 \in 1..(Len(clients) - 1) /\ i - 1 >= at[b] /\ (i - 1) + 1 = i
        BY <3>3, <4>1
      <4>3. clients'[i - 1] = clients[i]
        BY <3>3, <3>4, <4>1, <4>2
      <4> QED
        BY <3>5, <3>6, <4>2, <4>3
    <3> QED
      BY <3>1, <3>6, OwedKept DEF Broadcasting
  <2> QED
    BY <2>2, <2>3
<1>12. ASSUME NEW a \in Actor, LockRecipient(a) PROVE OwedBy(b, c, t)'
  <2>1. a # b
    BY <1>2, <1>12 DEF LockRecipient, Broadcasting
  <2> QED
    BY <1>1, <1>3, <1>12, <2>1 DEF LockRecipient
<1>13. ASSUME NEW d \in Client, BeginInvalid(d) \/ Replied(d) \/ ReadFailed(d) PROVE OwedBy(b, c, t)'
  <2>1. d # b
    BY <1>2, <1>13 DEF BeginInvalid, Replied, ReadFailed, Broadcasting
  <2> QED
    BY <1>1, <1>3, <1>13, <2>1 DEF BeginInvalid, Replied, ReadFailed
<1>14. ASSUME NEW d \in Client, RemoveClient(d) PROVE OwedBy(b, c, t)'
  <2>1. d # b /\ clients_mtx = Nobody
    BY <1>2, <1>14 DEF RemoveClient, Broadcasting
  <2>2. pc[b] = "broadcast"
    BY <1>2, <2>1 DEF MutexOK, Broadcasting, Actor
  <2> QED
    BY <1>1, <1>4, <1>14, <2>1, <2>2 DEF RemoveClient
<1>15. ASSUME NEW d \in Client, Accept(d) PROVE OwedBy(b, c, t)'
  BY <1>1, <1>2, <1>3, <1>15 DEF Accept
<1>16. ASSUME NEW d \in Client, Remote(d) PROVE OwedBy(b, c, t)'
  BY <1>3, <1>16 DEF Remote, Connect, Speak, Receive, Leave
<1>17. ASSUME \/ Handshake \/ HandshakeFailed
              \/ Snapshot("book snapshot", "book") \/ Snapshot("orders snapshot", "orders")
       PROVE  OwedBy(b, c, t)'
  BY <1>1, <1>2, <1>3, <1>17 DEF Handshake, HandshakeFailed, Snapshot
<1>18. ASSUME Enlist PROVE OwedBy(b, c, t)'
  <2>1. pc[b] = "broadcast"
    BY <1>2, <1>18 DEF Enlist, MutexOK, Broadcasting, Actor
  <2> QED
    BY <1>1, <1>2, <1>4, <1>18, <2>1 DEF Enlist
<1>19. ASSUME Greeted PROVE OwedBy(b, c, t)'
  <2>1. pc[guest] = "absent" /\ guest # b
    BY <1>2, <1>19 DEF Greeted, LinkOK, LinkOf, DataOK, Broadcasting
  <2>2. pc'[b] = pc[b]
    BY <1>1, <1>2, <1>19, <2>1, GreetedCases
  <2> QED
    BY <1>1, <1>2, <1>3, <1>19, <2>2 DEF Greeted
<1>20. ASSUME UNCHANGED wsVars PROVE OwedBy(b, c, t)'
  BY <1>3, <1>20 DEF wsVars
<1> QED
  BY <1>5, <1>6, <1>7, <1>8, <1>9, <1>10, <1>11, <1>12, <1>13, <1>14, <1>15, <1>16, <1>17, <1>18, <1>19,
     <1>20, NextCases

\* The book only changes when it is owed to everybody.
LEMMA VersionStep ==
  ASSUME DataOK, PcOK, [WsNext]_wsVars, NEW c \in Client, NEW t \in {"book", "orders"}
  PROVE  version' = version \/ \E a \in Actor : OwedBy(a, c, t)'
<1>1. ASSUME NEW a \in Worker \cup Client, Notify(a)
      PROVE  version' = version \/ \E b \in Actor : OwedBy(b, c, t)'
  BY <1>1, NotifyOwes DEF Actor
<1>2. (\E a \in Worker \cup Client : Notify(a)) \/ UNCHANGED version
  BY NextCases DEF Begin, LockBook, UnlockBook, LockClients, UnlockClients, LockClient, Written,
       WriteFailed, LockRecipient, BeginInvalid, Replied, ReadFailed, RemoveClient, Accept, Remote,
       Connect, Speak, Receive, Leave, Handshake, HandshakeFailed, Enlist, Snapshot, Greeted, wsVars
<1> QED
  BY <1>1, <1>2

\* A client that is connected after a step was so before it, or has nothing yet.
LEMMA OpenBefore ==
  ASSUME DataOK, LinkOK, [WsNext]_wsVars, NEW c \in Client, link'[c] = "open"
  PROVE  link[c] = "open" \/ (link[c] = "silent" /\ c = guest /\ Speak(c))
<1>1. \/ UNCHANGED link
      \/ \E d \in Client : Connect(d) \/ Speak(d) \/ Leave(d)
  BY NextCases DEF Begin, LockBook, UnlockBook, Notify, LockClients, UnlockClients, LockClient, Written,
       WriteFailed, LockRecipient, BeginInvalid, Replied, ReadFailed, RemoveClient, Accept, Remote,
       Receive, Handshake, HandshakeFailed, Enlist, Snapshot, Greeted, wsVars
<1>2. ASSUME NEW d \in Client, Connect(d) \/ Leave(d) PROVE link[c] = "open"
  BY <1>2 DEF Connect, Leave, DataOK
<1>3. ASSUME NEW d \in Client, Speak(d), link[c] # "open" PROVE link[c] = "silent" /\ c = guest /\ c = d
  BY <1>3 DEF Speak, DataOK
<1> QED
  BY <1>1, <1>2, <1>3

\* What has been sent once has been sent for as long as the client stays.
LEMMA SentStays ==
  ASSUME DataOK, PcOK, BroadcastOK, LetterOK, LinkOK, MutexOK, FeedOK, SockOK, [WsNext]_wsVars,
         NEW c \in Client, link'[c] = "open", NEW t \in {"book", "orders"}
  PROVE  /\ LastSent(c, t)' >= LastSent(c, t)
         /\ LastSent(c, t) > 0 => LastSent(c, t)' > 0
         /\ LastSent(c, t)' \in Nat
<1>1. LastSent(c, t) \in Nat /\ LastSent(c, t) <= version /\ version \in Nat \ {0}
  BY SentBound DEF MsgType, DataOK
<1>2. LastSent(c, t)' = LastSent(c, t) \/ LastSent(c, t)' = version
  BY SentStep
<1> QED
  BY <1>1, <1>2

\* The acceptor turns to the orders only when it has sent the book.
LEMMA OrdersNextStep ==
  ASSUME DataOK, PcOK, BroadcastOK, LetterOK, LinkOK, [WsNext]_wsVars, OrdersNext'
  PROVE  /\ guest' = guest
         /\ OrdersNext \/ (Greeted /\ Head(outbox[Acceptor]) = Msg("book", version))
<1> USE WsAssumption DEF Go, Load
<1>1. /\ pc \in [Actor -> Label] /\ Acceptor \in Actor /\ Acceptor \notin Client \cup Worker
      /\ Client \cup Worker \subseteq Actor /\ outbox \in [Actor -> Seq(Message)]
  BY DEF DataOK, PcOK, Actor
<1>2. ASSUME guest' = guest, pc'[Acceptor] = pc[Acceptor], outbox'[Acceptor] = outbox[Acceptor]
      PROVE  guest' = guest /\ OrdersNext
  BY <1>2 DEF OrdersNext
<1>3. ASSUME NEW a \in Worker \cup Client,
             Begin(a) \/ LockBook(a) \/ UnlockBook(a) \/ Notify(a) \/ LockClients(a) \/ UnlockClients(a)
      PROVE  guest' = guest /\ OrdersNext
  <2>1. a # Acceptor /\ a \in Actor
    BY <1>1
  <2> QED
    BY <1>1, <1>2, <1>3, <2>1 DEF Begin, LockBook, UnlockBook, Notify, LockClients, UnlockClients
<1>4. ASSUME NEW a \in Worker \cup Client, LockClient(a) \/ Written(a) \/ WriteFailed(a)
      PROVE  guest' = guest /\ OrdersNext
  BY <1>1, <1>2, <1>4 DEF LockClient, Written, WriteFailed
<1>5. ASSUME NEW a \in Actor, LockRecipient(a) PROVE guest' = guest /\ OrdersNext
  BY <1>1, <1>5 DEF LockRecipient, OrdersNext, Sending
<1>6. ASSUME NEW c \in Client, BeginInvalid(c) \/ Replied(c) \/ ReadFailed(c) \/ RemoveClient(c)
      PROVE  guest' = guest /\ OrdersNext
  <2>1. c # Acceptor /\ c \in Actor
    BY <1>1
  <2> QED
    BY <1>1, <1>2, <1>6, <2>1 DEF BeginInvalid, Replied, ReadFailed, RemoveClient
<1>7. ASSUME NEW c \in Client, Remote(c) PROVE guest' = guest /\ OrdersNext
  BY <1>2, <1>7 DEF Remote, Connect, Speak, Receive, Leave
<1>8. ASSUME NEW c \in Client, Accept(c) PROVE FALSE
  BY <1>1, <1>8 DEF Accept, OrdersNext, Sending
<1>9. ASSUME Handshake \/ HandshakeFailed PROVE FALSE
  BY <1>1, <1>9 DEF Handshake, HandshakeFailed, OrdersNext, Sending
<1>10. ASSUME Enlist PROVE FALSE
  <2>1. outbox'[Acceptor] = <<Msg("session", 1)>> /\ pc'[Acceptor] = "send"
    BY <1>1, <1>10 DEF Enlist
  <2>2. Head(outbox'[Acceptor]).type = "session"
    BY <2>1, Tuples DEF Msg
  <2> QED
    BY <2>1, <2>2 DEF OrdersNext, Sending
<1>11. ASSUME Snapshot("book snapshot", "book") PROVE FALSE
  <2>1. outbox'[Acceptor] = <<Msg("book", version)>> /\ pc'[Acceptor] = "send"
    BY <1>1, <1>11 DEF Snapshot
  <2>2. Head(outbox'[Acceptor]).type = "book"
    BY <2>1, Tuples DEF Msg
  <2> QED
    BY <2>1, <2>2 DEF OrdersNext, Sending
<1>12. ASSUME Snapshot("orders snapshot", "orders") PROVE guest' = guest /\ OrdersNext
  BY <1>12 DEF Snapshot, OrdersNext
<1>13. ASSUME Greeted PROVE guest' = guest /\ Head(outbox[Acceptor]) = Msg("book", version)
  <2>1. guest \in Client /\ guest # Acceptor
    BY <1>13 DEF Greeted, LinkOK, DataOK
  <2>2. \/ pc'[Acceptor] = "book snapshot"
        \/ /\ pc'[Acceptor] = "orders snapshot" /\ guest' = guest
           /\ Head(outbox[Acceptor]) = Msg("book", version)
        \/ pc'[Acceptor] = "idle"
    BY <1>1, <1>13, <2>1, GreetedCases
  <2> QED
    BY <2>2 DEF OrdersNext, Sending
<1>14. ASSUME UNCHANGED wsVars PROVE guest' = guest /\ OrdersNext
  BY <1>2, <1>14 DEF wsVars
<1> QED
  BY <1>3, <1>4, <1>5, <1>6, <1>7, <1>8, <1>9, <1>10, <1>11, <1>12, <1>13, <1>14, NextCases

\* A handler begins when the acceptor has sent the orders.
LEMMA HandlerBegins ==
  ASSUME DataOK, PcOK, BroadcastOK, LetterOK, LinkOK, [WsNext]_wsVars,
         NEW c \in Client, pc[c] = "absent", pc'[c] # "absent"
  PROVE  Greeted /\ c = guest /\ Head(outbox[Acceptor]) = Msg("orders", version)
<1> USE WsAssumption DEF Go
<1>1. pc \in [Actor -> Label] /\ c \in Actor /\ Acceptor \in Actor /\ Acceptor # c
  BY DEF PcOK, Actor
<1>2. ASSUME NEW a \in Worker \cup Client,
             Begin(a) \/ LockBook(a) \/ UnlockBook(a) \/ Notify(a) \/ LockClients(a) \/ UnlockClients(a)
      PROVE  FALSE
  BY <1>1, <1>2 DEF Begin, LockBook, UnlockBook, Notify, LockClients, UnlockClients
<1>3. ASSUME NEW a \in Worker \cup Client, LockClient(a) \/ Written(a) \/ WriteFailed(a)
      PROVE  FALSE
  BY <1>1, <1>3 DEF LockClient, Written, WriteFailed
<1>4. ASSUME NEW a \in Actor, LockRecipient(a) PROVE FALSE
  BY <1>1, <1>4 DEF LockRecipient
<1>5. ASSUME NEW d \in Client, BeginInvalid(d) \/ Replied(d) \/ ReadFailed(d) \/ RemoveClient(d)
      PROVE  FALSE
  BY <1>1, <1>5 DEF BeginInvalid, Replied, ReadFailed, RemoveClient
<1>6. ASSUME NEW d \in Client, Accept(d) \/ Remote(d) PROVE FALSE
  BY <1>1, <1>6 DEF Accept, Remote, Connect, Speak, Receive, Leave
<1>7. ASSUME \/ Handshake \/ HandshakeFailed \/ Enlist
             \/ Snapshot("book snapshot", "book") \/ Snapshot("orders snapshot", "orders")
      PROVE  FALSE
  BY <1>1, <1>7 DEF Handshake, HandshakeFailed, Enlist, Snapshot
<1>8. ASSUME Greeted PROVE c = guest /\ Head(outbox[Acceptor]) = Msg("orders", version)
  BY <1>1, <1>8, GreetedCases
<1>9. ASSUME UNCHANGED wsVars PROVE FALSE
  BY <1>9 DEF wsVars
<1> QED
  BY <1>2, <1>3, <1>4, <1>5, <1>6, <1>7, <1>8, <1>9, NextCases

\* What the acceptor's message does to its guest.
LEMMA GreetedSent ==
  ASSUME DataOK, LinkOK, LetterOK, PcOK, Greeted, NEW c \in Client, c = guest, link[c] = "open",
         NEW t \in {"book", "orders"}, Head(outbox[Acceptor]) = Msg(t, version)
  PROVE  LastSent(c, t)' = version
<1>1. t \in MsgType /\ version \in Nat
  BY DEF MsgType, DataOK
<1>2. /\ Msg(t, version) \in Message /\ Msg(t, version).type = t /\ Msg(t, version).v = version
  BY <1>1, MsgTyped
<1>3. Deliver(c, Head(outbox[Acceptor])) /\ UNCHANGED view
  BY DEF Greeted
<1> DEFINE m == Head(outbox[Acceptor])
<1>4. m \in Message /\ m.type = t /\ m.v = version
  BY <1>2
<1>5. LastSent(c, t)' = IF c = c /\ link[c] = "open" /\ m.type = t THEN m.v ELSE LastSent(c, t)
  BY <1>1, <1>3, <1>4, Sent
<1> QED
  BY <1>4, <1>5

\* Whoever has been sent a book gets every newer one.
LEMMA FeedStep ==
  ASSUME DataOK, PcOK, BroadcastOK, LetterOK, LinkOK, MutexOK, FeedOK, SockOK, [WsNext]_wsVars
  PROVE  FeedOK'
<1>1. version \in Nat \ {0}
  BY DEF DataOK
<1>2. ASSUME NEW c \in Client, link'[c] = "open", NEW t \in {"book", "orders"}, LastSent(c, t)' > 0
      PROVE  LastSent(c, t)' = version' \/ \E a \in Actor : OwedBy(a, c, t)'
  <2>1. CASE LastSent(c, t)' = version /\ version' = version
    BY <2>1
  <2>2. CASE LastSent(c, t)' = LastSent(c, t)
    <3>1. t \in MsgType /\ LastSent(c, t) > 0
      BY <1>2, <2>2 DEF MsgType
    <3>2. link[c] = "open" /\ c \in ToSet(clients)
      BY <3>1, NothingSent
    <3>3. LastSent(c, t) = version \/ \E a \in Actor : OwedBy(a, c, t)
      BY <3>1, <3>2 DEF FeedOK
    <3>4. CASE LastSent(c, t) = version
      BY <2>2, <3>4, VersionStep
    <3>5. ASSUME NEW a \in Actor, OwedBy(a, c, t)
          PROVE  OwedBy(a, c, t)' \/ LastSent(c, t)' = version'
      BY <3>2, <3>5, OwedStep
    <3> QED
      BY <3>3, <3>4, <3>5
  <2> QED
    BY <1>2, <2>1, <2>2, SentStep
<1>3. ASSUME NEW c \in Client, link'[c] = "open", pc'[c] # "absent"
      PROVE  LastSent(c, "book")' > 0 /\ LastSent(c, "orders")' > 0
  <2>1. CASE pc[c] # "absent"
    <3>1. link[c] = "open"
      BY <1>3, <2>1, OpenBefore DEF LinkOK, LinkOf
    <3>2. LastSent(c, "book") > 0 /\ LastSent(c, "orders") > 0
      BY <2>1, <3>1 DEF FeedOK
    <3> QED
      BY <1>3, <3>2, SentStays
  <2>2. CASE pc[c] = "absent"
    <3>1. Greeted /\ c = guest /\ Head(outbox[Acceptor]) = Msg("orders", version)
      BY <1>3, <2>2, HandlerBegins
    <3>2. link[c] = "open"
      BY <1>3, <3>1 DEF Greeted
    <3>3. LastSent(c, "orders")' = version
      BY <3>1, <3>2, GreetedSent
    <3>4. LastSent(c, "book") > 0
      <4>1. OrdersNext
        <5>1. Head(outbox[Acceptor]).type = "orders"
          BY <3>1 DEF Msg
        <5> QED
          BY <3>1, <5>1 DEF Greeted, OrdersNext, Sending
      <4> QED
        BY <3>1, <3>2, <4>1 DEF FeedOK
    <3>5. LastSent(c, "book")' > 0
      BY <1>3, <3>4, SentStays
    <3> QED
      BY <1>1, <3>3, <3>5
  <2> QED
    BY <2>1, <2>2
<1>4. ASSUME NEW c \in Client, link'[c] = "open", c = guest', OrdersNext'
      PROVE  LastSent(c, "book")' > 0
  <2>1. c = guest
    BY <1>4, OrdersNextStep
  <2>2. CASE OrdersNext
    <3>1. link[c] = "open"
      <4>1. pc[Acceptor] # "handshake"
        BY <2>2 DEF OrdersNext, Sending
      <4>2. link[c] # "silent"
        BY <2>1, <4>1 DEF LinkOK, LinkOf
      <4> QED
        BY <1>4, <4>2, OpenBefore
    <3>2. LastSent(c, "book") > 0
      BY <2>1, <2>2, <3>1 DEF FeedOK
    <3> QED
      BY <1>4, <3>2, SentStays
  <2>3. CASE Greeted /\ Head(outbox[Acceptor]) = Msg("book", version)
    <3>1. link[c] = "open"
      BY <1>4, <2>1, <2>3 DEF Greeted
    <3>2. LastSent(c, "book")' = version
      BY <2>1, <2>3, <3>1, GreetedSent
    <3> QED
      BY <1>1, <3>2
  <2> QED
    BY <1>4, <2>2, <2>3, OrdersNextStep
<1> QED
  BY <1>2, <1>3, <1>4 DEF FeedOK

\* The letters of the acceptor show the book as it is, and an answer is no newer
\* than the book its client was sent.
LEMMA LetterStep ==
  ASSUME DataOK, PcOK, BroadcastOK, LetterOK, LinkOK, MutexOK, FeedOK, SockOK, [WsNext]_wsVars
  PROVE  LetterOK'
<1> USE WsAssumption DEF Go, Load
<1>1. /\ pc \in [Actor -> Label] /\ Acceptor \in Actor /\ Acceptor \notin Client \cup Worker
      /\ Client \cup Worker \subseteq Actor /\ outbox \in [Actor -> Seq(Message)]
      /\ version \in Nat \ {0} /\ version' \in Nat
  BY OutboxTyped DEF DataOK, PcOK, Actor
<1>2. version' >= version
  BY <1>1, SockCases DEF Receive, Leave
<1> DEFINE Greeting == pc[Acceptor] \in Sending =>
             outbox[Acceptor] \in {<<Msg("session", 1)>>, <<Msg("book", version)>>, <<Msg("orders", version)>>}
           Answer(c) == pc[c] \in Sending =>
             \E v \in 0..version : /\ outbox[c] = <<Msg("reply", v)>>
                                   /\ link[c] = "open" => v <= LastSent(c, "book")
<1>3. Greeting /\ \A c \in Client : Answer(c)
  BY DEF LetterOK
<1>4. ASSUME UNCHANGED version, outbox'[Acceptor] = outbox[Acceptor],
             pc'[Acceptor] \in Sending => pc[Acceptor] \in Sending
      PROVE  Greeting'
  BY <1>3, <1>4
<1>5. ASSUME NEW c \in Client, outbox'[c] = outbox[c], pc'[c] \in Sending => pc[c] \in Sending
      PROVE  Answer(c)'
  <2>1. SUFFICES ASSUME pc'[c] \in Sending PROVE Answer(c)'
    OBVIOUS
  <2>2. PICK v \in 0..version : /\ outbox[c] = <<Msg("reply", v)>>
                                /\ link[c] = "open" => v <= LastSent(c, "book")
    BY <1>3, <1>5, <2>1
  <2>3. v \in 0..version'
    BY <1>1, <1>2
  <2>4. link'[c] = "open" => v <= LastSent(c, "book")'
    <3>1. SUFFICES ASSUME link'[c] = "open" PROVE v <= LastSent(c, "book")'
      OBVIOUS
    <3>2. pc[c] \in Sending
      BY <1>5, <2>1
    <3>3. pc[c] # "absent"
      BY <3>2 DEF Sending
    <3>4. link[c] = "open"
      BY <3>1, <3>3, OpenBefore DEF LinkOK, LinkOf
    <3>5. LastSent(c, "book")' >= LastSent(c, "book") /\ LastSent(c, "book")' \in Nat
      BY <3>1, SentStays
    <3>6. LastSent(c, "book") \in Nat /\ v \in Nat
      BY SentBound DEF MsgType
    <3> QED
      BY <2>2, <3>4, <3>5, <3>6
  <2> QED
    BY <1>5, <2>2, <2>3, <2>4
<1>6. ASSUME NEW c \in Client, pc'[c] \notin Sending PROVE Answer(c)'
  BY <1>6
<1>7. ASSUME pc'[Acceptor] \notin Sending PROVE Greeting'
  BY <1>7
<1> HIDE DEF Greeting, Answer
<1>8. ASSUME NEW a \in Worker \cup Client,
             Begin(a) \/ LockBook(a) \/ LockClients(a) \/ UnlockClients(a)
      PROVE  Greeting' /\ \A c \in Client : Answer(c)'
  <2>1. /\ UNCHANGED version /\ a # Acceptor /\ a \in Actor
        /\ outbox'[Acceptor] = outbox[Acceptor] /\ pc'[Acceptor] = pc[Acceptor]
        /\ pc'[a] \notin Sending
    BY <1>1, <1>8 DEF Begin, LockBook, LockClients, UnlockClients, Sending
  <2>2. \A c \in Client : c # a => outbox'[c] = outbox[c] /\ pc'[c] = pc[c]
    BY <1>1, <1>8 DEF Begin, LockBook, LockClients, UnlockClients
  <2> QED
    BY <1>4, <1>5, <1>6, <2>1, <2>2
<1>9. ASSUME NEW a \in Worker \cup Client, Notify(a)
      PROVE  Greeting' /\ \A c \in Client : Answer(c)'
  <2>1. /\ a # Acceptor /\ a \in Actor /\ HoldsBook(a)
        /\ outbox'[Acceptor] = outbox[Acceptor] /\ pc'[Acceptor] = pc[Acceptor]
        /\ pc'[a] \notin Sending
    BY <1>1, <1>9 DEF Notify, Sending, HoldsBook
  <2>2. \A c \in Client : c # a => outbox'[c] = outbox[c] /\ pc'[c] = pc[c]
    BY <1>1, <1>9 DEF Notify
  <2>3. Greeting'
    <3>1. ~HoldsBook(Acceptor)
      BY <1>1, <2>1, HoldersOfBook
    <3>2. ASSUME pc[Acceptor] \in Sending PROVE outbox[Acceptor] = <<Msg("session", 1)>>
      <4>1. Head(outbox[Acceptor]).type = "session"
        BY <3>1, <3>2 DEF HoldsBook, Sending
      <4>2. /\ Head(<<Msg("book", version)>>) = Msg("book", version)
            /\ Head(<<Msg("orders", version)>>) = Msg("orders", version)
        BY Tuples
      <4> QED
        BY <1>3, <3>2, <4>1, <4>2 DEF Greeting, Msg
    <3> QED
      BY <2>1, <3>2 DEF Greeting
  <2> QED
    BY <1>5, <1>6, <2>1, <2>2, <2>3
<1>10. ASSUME NEW a \in Worker \cup Client, UnlockBook(a)
       PROVE  Greeting' /\ \A c \in Client : Answer(c)'
  <2>1. /\ UNCHANGED <<version, link, sock, view>> /\ a # Acceptor /\ a \in Actor /\ pc[a] = "plan"
        /\ outbox'[Acceptor] = outbox[Acceptor] /\ pc'[Acceptor] = pc[Acceptor]
        /\ a \in Client => outbox'[a] = <<Msg("reply", version)>>
    BY <1>1, <1>10 DEF UnlockBook
  <2>2. \A c \in Client : c # a => outbox'[c] = outbox[c] /\ pc'[c] = pc[c]
    BY <1>1, <1>10 DEF UnlockBook
  <2>3. ASSUME a \in Client PROVE Answer(a)'
    <3>1. version \in 0..version'
      BY <1>1, <2>1
    <3>2. ASSUME link[a] = "open" PROVE LastSent(a, "book") = version
      <4>1. LastSent(a, "book") > 0
        BY <2>1, <2>3, <3>2 DEF FeedOK
      <4>2. HoldsBook(a) /\ pc[a] \notin Broadcasting
        BY <2>1 DEF HoldsBook, Broadcasting
      <4> QED
        BY <2>1, <2>3, <3>2, <4>1, <4>2, SentIsCurrent
    <3>3. LastSent(a, "book")' = LastSent(a, "book")
      BY <2>1 DEF LastSent
    <3>4. link'[a] = "open" => version <= LastSent(a, "book")'
      BY <1>1, <2>1, <3>2, <3>3
    <3> QED
      BY <2>1, <2>3, <3>1, <3>4 DEF Answer
  <2> QED
    BY <1>4, <1>5, <2>1, <2>2, <2>3
<1>11. ASSUME NEW a \in Worker \cup Client, LockClient(a) \/ Written(a) \/ WriteFailed(a)
       PROVE  Greeting' /\ \A c \in Client : Answer(c)'
  <2>1. /\ UNCHANGED <<version, outbox>> /\ pc'[Acceptor] = pc[Acceptor]
        /\ \A c \in Client : pc'[c] = pc[c] \/ pc'[c] \notin Sending
    BY <1>1, <1>11 DEF LockClient, Written, WriteFailed, Sending
  <2> QED
    BY <1>4, <1>5, <1>6, <2>1
<1>12. ASSUME NEW a \in Actor, LockRecipient(a)
       PROVE  Greeting' /\ \A c \in Client : Answer(c)'
  <2>1. /\ UNCHANGED <<version, outbox>>
        /\ \A b \in Actor : pc'[b] \in Sending => pc[b] \in Sending
    BY <1>1, <1>12 DEF LockRecipient, Sending
  <2> QED
    BY <1>1, <1>4, <1>5, <2>1
<1>13. ASSUME NEW d \in Client, BeginInvalid(d)
       PROVE  Greeting' /\ \A c \in Client : Answer(c)'
  <2>1. /\ UNCHANGED <<version, sock, view>> /\ outbox'[Acceptor] = outbox[Acceptor]
        /\ pc'[Acceptor] = pc[Acceptor] /\ outbox'[d] = <<Msg("reply", 0)>>
    BY <1>1, <1>13 DEF BeginInvalid
  <2>2. \A c \in Client : c # d => outbox'[c] = outbox[c] /\ pc'[c] = pc[c]
    BY <1>1, <1>13 DEF BeginInvalid
  <2>3. Answer(d)'
    <3>1. 0 \in 0..version'
      BY <1>1
    <3>2. LastSent(d, "book")' = LastSent(d, "book") /\ LastSent(d, "book") \in Nat
      BY <2>1, SentBound DEF LastSent, MsgType
    <3> QED
      BY <2>1, <3>1, <3>2 DEF Answer
  <2> QED
    BY <1>4, <1>5, <2>1, <2>2, <2>3
<1>14. ASSUME NEW d \in Client, Replied(d) \/ ReadFailed(d) \/ RemoveClient(d)
       PROVE  Greeting' /\ \A c \in Client : Answer(c)'
  <2>1. /\ UNCHANGED version /\ outbox'[Acceptor] = outbox[Acceptor]
        /\ pc'[Acceptor] = pc[Acceptor] /\ pc'[d] \notin Sending
    BY <1>1, <1>14 DEF Replied, ReadFailed, RemoveClient, Sending
  <2>2. \A c \in Client : c # d => outbox'[c] = outbox[c] /\ pc'[c] = pc[c]
    BY <1>1, <1>14 DEF Replied, ReadFailed, RemoveClient
  <2> QED
    BY <1>4, <1>5, <1>6, <2>1, <2>2
<1>15. ASSUME NEW d \in Client, Accept(d) \/ Remote(d)
       PROVE  Greeting' /\ \A c \in Client : Answer(c)'
  <2>1. /\ UNCHANGED <<version, outbox>> /\ \A c \in Client : pc'[c] = pc[c]
        /\ pc'[Acceptor] = pc[Acceptor] \/ pc'[Acceptor] \notin Sending
    BY <1>1, <1>15 DEF Accept, Remote, Connect, Speak, Receive, Leave, Sending
  <2> QED
    BY <1>4, <1>5, <1>7, <2>1
<1>16. ASSUME Handshake \/ HandshakeFailed
       PROVE  Greeting' /\ \A c \in Client : Answer(c)'
  <2>1. /\ UNCHANGED outbox /\ \A c \in Client : pc'[c] = pc[c]
        /\ pc'[Acceptor] \notin Sending
    BY <1>1, <1>16 DEF Handshake, HandshakeFailed, Sending
  <2> QED
    BY <1>5, <1>7, <2>1
<1>17. ASSUME \/ Enlist \/ Snapshot("book snapshot", "book") \/ Snapshot("orders snapshot", "orders")
       PROVE  Greeting' /\ \A c \in Client : Answer(c)'
  <2>1. \A c \in Client : pc'[c] = pc[c] /\ outbox'[c] = outbox[c]
    BY <1>1, <1>17 DEF Enlist, Snapshot
  <2>2. /\ version' = version
        /\ outbox'[Acceptor] \in {<<Msg("session", 1)>>, <<Msg("book", version)>>, <<Msg("orders", version)>>}
    BY <1>1, <1>17 DEF Enlist, Snapshot
  <2>3. Greeting'
    BY <2>2 DEF Greeting
  <2> QED
    BY <1>5, <2>1, <2>3
<1>18. ASSUME Greeted
       PROVE  Greeting' /\ \A c \in Client : Answer(c)'
  <2>1. guest \in Client /\ guest # Acceptor
    BY <1>18 DEF Greeted, LinkOK, DataOK
  <2>2. \A c \in Client : outbox'[c] = outbox[c]
    BY <1>1, <1>18 DEF Greeted
  <2>3. /\ pc'[Acceptor] \in {"book snapshot", "orders snapshot", "idle"}
        /\ \A c \in Client : pc'[c] = pc[c] \/ pc'[c] = "idle"
    BY <1>1, <1>18, <2>1, GreetedCases
  <2>4. pc'[Acceptor] \notin Sending /\ \A c \in Client : pc'[c] \in Sending => pc[c] \in Sending
    BY <2>3 DEF Sending
  <2> QED
    BY <1>5, <1>7, <2>2, <2>4
<1>19. ASSUME UNCHANGED wsVars
       PROVE  Greeting' /\ \A c \in Client : Answer(c)'
  BY <1>4, <1>5, <1>19 DEF wsVars
<1>20. Greeting' /\ \A c \in Client : Answer(c)'
  BY <1>8, <1>9, <1>10, <1>11, <1>12, <1>13, <1>14, <1>15, <1>16, <1>17, <1>18, <1>19, NextCases
<1> QED
  BY <1>20 DEF LetterOK, Greeting, Answer

-----------------------------------------------------------------------------
(* The invariant and what follows from it.                                 *)

LEMMA FeedInit == WsInit => FeedInv
<1> SUFFICES ASSUME WsInit PROVE FeedInv
  OBVIOUS
<1> USE WsAssumption DEF WsInit
<1>1. Acceptor \in Actor /\ Nobody \notin Actor /\ Client \subseteq Actor /\ Worker \subseteq Actor
  BY DEF Actor
<1>2. /\ \A a \in Actor : pc[a] = IF a \in Client THEN "absent" ELSE "idle"
      /\ \A a \in Actor : pc[a] \in {"absent", "idle"} /\ a # Nobody
      /\ pc[Acceptor] = "idle"
  BY <1>1
<1>3. <<>> \in Seq(Client) /\ Len(<<>>) = 0 /\ DOMAIN <<>> = {} /\ ToSet(<<>>) = {}
  BY DEF ToSet
<1>4. DataOK
  <2>1. IsInjective(clients)
    BY <1>3 DEF IsInjective
  <2>2. NothingSeen \in [MsgType -> Nat]
    BY DEF NothingSeen
  <2> QED
    BY <1>3, <2>1, <2>2 DEF DataOK
<1>5. MutexOK
  BY <1>1, <1>2 DEF MutexOK, HoldsBook
<1>6. PcOK
  BY <1>1, <1>2 DEF PcOK, Label
<1>7. BroadcastOK /\ LetterOK
  BY <1>1, <1>2 DEF BroadcastOK, LetterOK, Broadcasting, Sending
<1>8. LinkOK
  BY <1>1, <1>2, <1>3 DEF LinkOK, LinkOf
<1>9. ListedIsOwned
  BY <1>3 DEF ListedIsOwned
<1>10. SockOK
  <2>1. Ordered(<<>>, NothingSeen, 1)
    BY OrderedEmpty
  <2> HIDE DEF Ordered
  <2> QED
    BY <2>1 DEF SockOK
<1>11. FeedOK
  BY <1>2 DEF FeedOK
<1> QED
  BY <1>4, <1>5, <1>6, <1>7, <1>8, <1>9, <1>10, <1>11 DEF FeedInv, WsTypeOK

LEMMA FeedInvStep == FeedInv /\ [WsNext]_wsVars => FeedInv'
<1> SUFFICES ASSUME FeedInv, [WsNext]_wsVars PROVE FeedInv'
  OBVIOUS
<1>1. /\ DataOK /\ MutexOK /\ PcOK /\ BroadcastOK /\ LetterOK
      /\ LinkOK /\ ListedIsOwned /\ SockOK /\ FeedOK
  BY DEF FeedInv, WsTypeOK
<1>2. DataOK' /\ MutexOK' /\ PcOK'
  BY <1>1, DataStep, MutexStep, PcStep
<1>3. BroadcastOK' /\ LetterOK'
  BY <1>1, BroadcastStep, LetterStep
<1>4. LinkOK' /\ ListedIsOwned'
  BY <1>1, LinkStep, ListedStep
<1>5. SockOK' /\ FeedOK'
  BY <1>1, SockStep, FeedStep
<1> QED
  BY <1>2, <1>3, <1>4, <1>5 DEF FeedInv, WsTypeOK

\* All of it together is inductive: who holds which mutex, what every thread that
\* sends is about to send, and how what is on its way to a client is ordered.
THEOREM FeedInvariant == WsSpec => []FeedInv
BY FeedInit, FeedInvStep, PTL DEF WsSpec

\* Mutual exclusion: a mutex is owned by the thread that is where the code
\* holds it, so no two are on the book, in broadcast or in a write to a client.
THEOREM FeedTypes == WsSpec => []WsTypeOK
<1>1. FeedInv => WsTypeOK
  BY DEF FeedInv
<1> QED
  BY <1>1, FeedInvariant, PTL

\* remove_client and broadcast never leave a listed client without an owner.
THEOREM ListedOwned == WsSpec => []ListedIsOwned
<1>1. FeedInv => ListedIsOwned
  BY DEF FeedInv
<1> QED
  BY <1>1, FeedInvariant, PTL

\* Between operations every connected client has been sent the book and the
\* orders as they are.
THEOREM FeedCurrent == WsSpec => []ClientsCurrent
<1>1. FeedInv => ClientsCurrent
  <2> SUFFICES ASSUME FeedInv, book_mtx = Nobody,
                      NEW c \in Client, link[c] = "open", pc[c] # "absent"
               PROVE  LastSent(c, "book") = version /\ LastSent(c, "orders") = version
    BY DEF ClientsCurrent
  <2>1. ASSUME NEW a \in Actor, NEW t, OwedBy(a, c, t) PROVE FALSE
    <3>1. HoldsBook(a)
      BY <2>1 DEF OwedBy, HoldsBook, Broadcasting
    <3> QED
      BY <3>1, WsAssumption DEF FeedInv, WsTypeOK, MutexOK
  <2>2. LastSent(c, "book") > 0 /\ LastSent(c, "orders") > 0
    BY DEF FeedInv, FeedOK
  <2> QED
    BY <2>1, <2>2 DEF FeedInv, FeedOK
<1> QED
  BY <1>1, FeedInvariant, PTL

\* A client's book is never behind its orders, its trades or its answers.
THEOREM BookNewest == WsSpec => []BookIsNewest
<1>1. FeedInv => BookIsNewest
  BY DEF FeedInv, SockOK, Ordered, BookIsNewest, Others
<1> QED
  BY <1>1, FeedInvariant, PTL

\* What a client sees never goes back.
LEMMA ViewStep ==
  ASSUME FeedInv, [WsNext]_wsVars, NEW c \in Client, link'[c] = "open", NEW t \in {"book", "orders", "trade"}
  PROVE  view'[c][t] >= view[c][t]
<1>1. /\ DataOK /\ MutexOK /\ PcOK /\ BroadcastOK /\ LetterOK /\ LinkOK /\ SockOK /\ FeedOK
  BY DEF FeedInv, WsTypeOK
<1>2. /\ sock[c] \in Seq(Message) /\ view \in [Client -> [MsgType -> Nat]] /\ version \in Nat
      /\ Ordered(sock[c], view[c], version) /\ t \in MsgType /\ t \in Kinds
      /\ view[c] \in [MsgType -> Nat] /\ view[c][t] \in Nat
  BY <1>1 DEF DataOK, SockOK, MsgType, Kinds
<1>3. ASSUME UNCHANGED view PROVE view'[c][t] >= view[c][t]
  BY <1>2, <1>3
<1>4. ASSUME NEW d \in Client, Receive(d) PROVE view'[c][t] >= view[c][t]
  <2>1. CASE d # c
    <3>1. view'[c] = view[c]
      BY <1>2, <1>4, <2>1 DEF Receive
    <3> QED
      BY <1>2, <3>1
  <2>2. CASE d = c
    <3>1. sock[c] # <<>> /\ view'[c] = [view[c] EXCEPT ![Head(sock[c]).type] = Head(sock[c]).v]
      BY <1>2, <1>4, <2>2 DEF Receive
    <3>2. [view[c] EXCEPT ![Head(sock[c]).type] = Head(sock[c]).v][t] >= view[c][t]
      BY <1>2, <3>1, OrderedTail
    <3> QED
      BY <3>1, <3>2
  <2> QED
    BY <2>1, <2>2
<1>5. ASSUME NEW d \in Client, Leave(d) PROVE view'[c][t] >= view[c][t]
  <2>1. d # c
    BY <1>1, <1>5 DEF Leave, DataOK
  <2>2. view'[c] = view[c]
    BY <1>2, <1>5, <2>1 DEF Leave
  <2> QED
    BY <1>2, <2>2
<1> QED
  BY <1>1, <1>3, <1>4, <1>5, SockCases

\* A screen never goes back to an older book, order list or trade while its socket
\* is open: snapshots and broadcasts are sent in the order of what they show.
THEOREM ViewMonotone == WsSpec => ViewNeverGoesBack
<1>1. FeedInv /\ [WsNext]_wsVars =>
        [\A c \in Client : link'[c] = "open" =>
           \A t \in {"book", "orders", "trade"} : view'[c][t] >= view[c][t]]_wsVars
  BY ViewStep
<1> QED
  BY <1>1, FeedInvariant, PTL DEF WsSpec, ViewNeverGoesBack

=============================================================================
