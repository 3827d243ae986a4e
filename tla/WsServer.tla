------------------------------ MODULE WsServer ------------------------------
(***************************************************************************)
(* The WebSocket server (core/src/server/ws_server.cpp) and the threads    *)
(* around it: one acceptor, one handler per client, and the workers (HTTP  *)
(* workers, market maker, bots) that change the book. Three mutexes nest:  *)
(* book_mtx, then clients_mtx_, then the write_mtx of one client; below    *)
(* the last one is a blocking write to a socket.                           *)
(*                                                                         *)
(* The book is abstracted to its version, the number of changes it has     *)
(* seen; a book or orders message carries the version it shows, a trade    *)
(* the version after it, a reply the version its operation left. What an   *)
(* order does to the book is in MatchingEngine; here only the messages it  *)
(* causes matter (Operations). A client is one connection.                 *)
(***************************************************************************)
EXTENDS Naturals, Sequences, SequencesExt

CONSTANTS Client,       \* connections
          Worker,       \* threads that operate on the book and have no socket
          Acceptor,     \* the thread of accept_loop
          Nobody,       \* owner of a free mutex
          Capacity,     \* bound: messages a socket holds before write blocks
          MaxOps        \* bound: operations, valid or not, of one behaviour

Actor == Client \cup Worker \cup {Acceptor}

ASSUME WsAssumption == /\ Nobody \notin Actor
                       /\ Acceptor \notin Client \cup Worker
                       /\ Client \cap Worker = {}
                       /\ Capacity \in Nat \ {0}
                       /\ MaxOps \in Nat

VARIABLES version,      \* changes of the book so far, plus one for the seed
          ops,          \* operations begun
          book_mtx, clients_mtx,
          write_mtx,    \* of each client
          clients,      \* clients_
          link,         \* away, silent (connected, no handshake yet), open, gone
          sock,         \* messages on their way to each client
          view,         \* last message each client received, by type
          pc,           \* what each thread does next; a handler is named by its client
          plan,         \* what is left to notify of the operation under book_mtx
          outbox,       \* messages the thread is about to send
          at,           \* broadcast's iterator
          guest         \* the client in the body of accept_loop

mutexes == <<book_mtx, clients_mtx, write_mtx>>
wsVars == <<version, ops, mutexes, clients, link, sock, view, pc, plan, outbox, at, guest>>

MsgType == {"session", "book", "orders", "trade", "reply"}
Message == [type : MsgType, v : Nat]
Msg(type, v) == [type |-> type, v |-> v]

\* What process_order and cancel_order notify: nothing when refused; a change
\* by resting, cancelling or matching; the trades of a match after the changes.
Operations == {<<>>, <<"change">>, <<"change", "trade">>, <<"change", "change", "trade">>}

NothingSeen == [t \in MsgType |-> 0]

WsInit ==
  /\ version = 1
  /\ ops = 0
  /\ book_mtx = Nobody
  /\ clients_mtx = Nobody
  /\ write_mtx = [c \in Client |-> Nobody]
  /\ clients = <<>>
  /\ link = [c \in Client |-> "away"]
  /\ sock = [c \in Client |-> <<>>]
  /\ view = [c \in Client |-> NothingSeen]
  /\ pc = [a \in Actor |-> IF a \in Client THEN "absent" ELSE "idle"]
  /\ plan = [a \in Actor |-> <<>>]
  /\ outbox = [a \in Actor |-> <<>>]
  /\ at = [a \in Actor |-> 0]
  /\ guest = Nobody

Go(a, label) == pc' = [pc EXCEPT ![a] = label]

Load(a, msgs) == outbox' = [outbox EXCEPT ![a] = msgs]

\* A write succeeds when the socket has room; to a client that has left, the
\* bytes vanish as long as its reset has not arrived.
Deliver(c, m) ==
  \/ link[c] = "open" /\ Len(sock[c]) < Capacity /\ sock' = [sock EXCEPT ![c] = Append(@, m)]
  \/ link[c] = "gone" /\ UNCHANGED sock

-----------------------------------------------------------------------------
(* Operations on the book, by a worker or by the handler of a client.      *)

\* A worker starts, or a handler's read returns an order or a cancellation.
Begin(a) ==
  /\ pc[a] = "idle"
  /\ a \in Worker \/ (a \in Client /\ link[a] = "open")
  /\ ops < MaxOps
  /\ ops' = ops + 1
  /\ Go(a, "book")
  /\ UNCHANGED <<version, mutexes, clients, link, sock, view, plan, outbox, at, guest>>

\* process_message answers without touching the book: a message it cannot
\* parse, an unknown action, an order of somebody else.
BeginInvalid(c) ==
  /\ pc[c] = "idle"
  /\ link[c] = "open"
  /\ ops < MaxOps
  /\ ops' = ops + 1
  /\ Load(c, <<Msg("reply", 0)>>)
  /\ Go(c, "send")
  /\ UNCHANGED <<version, mutexes, clients, link, sock, view, plan, at, guest>>

LockBook(a) ==
  /\ pc[a] = "book"
  /\ book_mtx = Nobody
  /\ book_mtx' = a
  /\ \E p \in Operations : plan' = [plan EXCEPT ![a] = p]
  /\ Go(a, "plan")
  /\ UNCHANGED <<version, ops, clients_mtx, write_mtx, clients, link, sock, view, outbox, at, guest>>

\* Mutant: the orders are not broadcast with the book.
NotifyBookOnly(a) ==
  /\ pc[a] = "plan"
  /\ plan[a] # <<>>
  /\ version' = version + (IF Head(plan[a]) = "change" THEN 1 ELSE 0)
  /\ Load(a, <<Msg(IF Head(plan[a]) = "change" THEN "book" ELSE "trade", version')>>)
  /\ plan' = [plan EXCEPT ![a] = Tail(@)]
  /\ Go(a, "broadcast")
  /\ UNCHANGED <<ops, mutexes, clients, link, sock, view, at, guest>>

\* Mutant: the orders are broadcast before the book.
NotifyOrdersFirst(a) ==
  /\ pc[a] = "plan"
  /\ plan[a] # <<>>
  /\ version' = version + (IF Head(plan[a]) = "change" THEN 1 ELSE 0)
  /\ Load(a, IF Head(plan[a]) = "change" THEN <<Msg("orders", version'), Msg("book", version')>>
                                         ELSE <<Msg("trade", version')>>)
  /\ plan' = [plan EXCEPT ![a] = Tail(@)]
  /\ Go(a, "broadcast")
  /\ UNCHANGED <<ops, mutexes, clients, link, sock, view, at, guest>>

\* The book changes and on_change_ broadcasts it, then its orders; or on_trade
\* broadcasts a trade.
Notify(a) ==
  /\ pc[a] = "plan"
  /\ plan[a] # <<>>
  /\ version' = version + (IF Head(plan[a]) = "change" THEN 1 ELSE 0)
  /\ Load(a, IF Head(plan[a]) = "change" THEN <<Msg("book", version'), Msg("orders", version')>>
                                         ELSE <<Msg("trade", version')>>)
  /\ plan' = [plan EXCEPT ![a] = Tail(@)]
  /\ Go(a, "broadcast")
  /\ UNCHANGED <<ops, mutexes, clients, link, sock, view, at, guest>>

\* The operation returns; a handler answers its client.
UnlockBook(a) ==
  /\ pc[a] = "plan"
  /\ plan[a] = <<>>
  /\ book_mtx' = Nobody
  /\ IF a \in Client THEN Load(a, <<Msg("reply", version)>>) /\ Go(a, "send")
                     ELSE Go(a, "idle") /\ UNCHANGED outbox
  /\ UNCHANGED <<version, ops, clients_mtx, write_mtx, clients, link, sock, view, plan, at, guest>>

-----------------------------------------------------------------------------
(* broadcast.                                                              *)

LockClients(a) ==
  /\ pc[a] = "broadcast"
  /\ clients_mtx = Nobody
  /\ clients_mtx' = a
  /\ at' = [at EXCEPT ![a] = 1]
  /\ Go(a, "loop")
  /\ UNCHANGED <<version, ops, book_mtx, write_mtx, clients, link, sock, view, plan, outbox, guest>>

LockClient(a) ==
  /\ pc[a] = "loop"
  /\ at[a] <= Len(clients)
  /\ write_mtx[clients[at[a]]] = Nobody
  /\ write_mtx' = [write_mtx EXCEPT ![clients[at[a]]] = a]
  /\ Go(a, "writing")
  /\ UNCHANGED <<version, ops, book_mtx, clients_mtx, clients, link, sock, view, plan, outbox, at, guest>>

Written(a) ==
  LET c == clients[at[a]] IN
  /\ pc[a] = "writing"
  /\ Deliver(c, Head(outbox[a]))
  /\ write_mtx' = [write_mtx EXCEPT ![c] = Nobody]
  /\ at' = [at EXCEPT ![a] = @ + 1]
  /\ Go(a, "loop")
  /\ UNCHANGED <<version, ops, book_mtx, clients_mtx, clients, link, view, plan, outbox, guest>>

\* Mutant: the iterator is incremented after the erase, too.
WriteFailedSkipping(a) ==
  LET c == clients[at[a]] IN
  /\ pc[a] = "writing"
  /\ link[c] = "gone"
  /\ clients' = RemoveAt(clients, at[a])
  /\ at' = [at EXCEPT ![a] = @ + 1]
  /\ write_mtx' = [write_mtx EXCEPT ![c] = Nobody]
  /\ Go(a, "loop")
  /\ UNCHANGED <<version, ops, book_mtx, clients_mtx, link, sock, view, plan, outbox, guest>>

\* Mutant: an error neither erases the client nor moves on.
WriteFailedRetrying(a) ==
  LET c == clients[at[a]] IN
  /\ pc[a] = "writing"
  /\ link[c] = "gone"
  /\ write_mtx' = [write_mtx EXCEPT ![c] = Nobody]
  /\ Go(a, "loop")
  /\ UNCHANGED <<version, ops, book_mtx, clients_mtx, clients, link, sock, view, plan, outbox, at, guest>>

\* The client has left: broadcast drops it from the list.
WriteFailed(a) ==
  LET c == clients[at[a]] IN
  /\ pc[a] = "writing"
  /\ link[c] = "gone"
  /\ clients' = RemoveAt(clients, at[a])
  /\ write_mtx' = [write_mtx EXCEPT ![c] = Nobody]
  /\ Go(a, "loop")
  /\ UNCHANGED <<version, ops, book_mtx, clients_mtx, link, sock, view, plan, outbox, at, guest>>

UnlockClients(a) ==
  /\ pc[a] = "loop"
  /\ at[a] > Len(clients)
  /\ clients_mtx' = Nobody
  /\ Load(a, Tail(outbox[a]))
  /\ at' = [at EXCEPT ![a] = 0]
  /\ Go(a, IF Tail(outbox[a]) = <<>> THEN "plan" ELSE "broadcast")
  /\ UNCHANGED <<version, ops, book_mtx, write_mtx, clients, link, sock, view, plan, guest>>

-----------------------------------------------------------------------------
(* send_to_client, by the handler of the client or by the acceptor.        *)

Recipient(a) == IF a = Acceptor THEN guest ELSE a

LockRecipient(a) ==
  /\ pc[a] = "send"
  /\ write_mtx[Recipient(a)] = Nobody
  /\ write_mtx' = [write_mtx EXCEPT ![Recipient(a)] = a]
  /\ Go(a, "sending")
  /\ UNCHANGED <<version, ops, book_mtx, clients_mtx, clients, link, sock, view, plan, outbox, at, guest>>

\* An error is ignored, so it looks like bytes that vanish.
Replied(c) ==
  /\ pc[c] = "sending"
  /\ Deliver(c, Head(outbox[c]))
  /\ write_mtx' = [write_mtx EXCEPT ![c] = Nobody]
  /\ Load(c, <<>>)
  /\ Go(c, "idle")
  /\ UNCHANGED <<version, ops, book_mtx, clients_mtx, clients, link, view, plan, at, guest>>

\* The acceptor goes on from the session to the book, from the book to the
\* orders, each under a book_mtx of its own, and then starts the handler.
Greeted ==
  LET type == Head(outbox[Acceptor]).type IN
  /\ pc[Acceptor] = "sending"
  /\ Deliver(guest, Head(outbox[Acceptor]))
  /\ write_mtx' = [write_mtx EXCEPT ![guest] = Nobody]
  /\ book_mtx' = IF book_mtx = Acceptor THEN Nobody ELSE book_mtx
  /\ Load(Acceptor, <<>>)
  /\ CASE type = "session" -> Go(Acceptor, "book snapshot") /\ UNCHANGED guest
       [] type = "book"    -> Go(Acceptor, "orders snapshot") /\ UNCHANGED guest
       [] type = "orders"  -> /\ pc' = [pc EXCEPT ![Acceptor] = "idle", ![guest] = "idle"]
                              /\ guest' = Nobody
  /\ UNCHANGED <<version, ops, clients_mtx, clients, link, view, plan, at>>

-----------------------------------------------------------------------------
(* The rest of accept_loop.                                                *)

Accept(c) ==
  /\ pc[Acceptor] = "idle"
  /\ link[c] = "silent"
  /\ guest' = c
  /\ Go(Acceptor, "handshake")
  /\ UNCHANGED <<version, ops, mutexes, clients, link, sock, view, plan, outbox, at>>

\* http::read and ws->accept return; reconnect_user is in UserSessions.
Handshake ==
  /\ pc[Acceptor] = "handshake"
  /\ link[guest] = "open"
  /\ Go(Acceptor, "enlist")
  /\ UNCHANGED <<version, ops, mutexes, clients, link, sock, view, plan, outbox, at, guest>>

\* They throw: the client has left.
HandshakeFailed ==
  /\ pc[Acceptor] = "handshake"
  /\ link[guest] = "gone"
  /\ guest' = Nobody
  /\ Go(Acceptor, "idle")
  /\ UNCHANGED <<version, ops, mutexes, clients, link, sock, view, plan, outbox, at>>

Enlist ==
  /\ pc[Acceptor] = "enlist"
  /\ clients_mtx = Nobody
  /\ clients' = Append(clients, guest)
  /\ Load(Acceptor, <<Msg("session", 1)>>)
  /\ Go(Acceptor, "send")
  /\ UNCHANGED <<version, ops, mutexes, link, sock, view, plan, at, guest>>

\* Mutant: the snapshot is taken under book_mtx and sent after it is released.
SnapshotUnlocked(label, type) ==
  /\ pc[Acceptor] = label
  /\ book_mtx = Nobody
  /\ Load(Acceptor, <<Msg(type, version)>>)
  /\ Go(Acceptor, "send")
  /\ UNCHANGED <<version, ops, mutexes, clients, link, sock, view, plan, at, guest>>

Snapshot(label, type) ==
  /\ pc[Acceptor] = label
  /\ book_mtx = Nobody
  /\ book_mtx' = Acceptor
  /\ Load(Acceptor, <<Msg(type, version)>>)
  /\ Go(Acceptor, "send")
  /\ UNCHANGED <<version, ops, clients_mtx, write_mtx, clients, link, sock, view, plan, at, guest>>

-----------------------------------------------------------------------------
(* The end of a handler.                                                   *)

\* read throws.
ReadFailed(c) ==
  /\ pc[c] = "idle"
  /\ link[c] = "gone"
  /\ Go(c, "leaving")
  /\ UNCHANGED <<version, ops, mutexes, clients, link, sock, view, plan, outbox, at, guest>>

\* Mutant: std::remove without erase, on a list of one.
RemoveClientNoErase(c) ==
  /\ pc[c] = "leaving"
  /\ clients_mtx = Nobody
  /\ Go(c, "done")
  /\ UNCHANGED <<version, ops, mutexes, clients, link, sock, view, plan, outbox, at, guest>>

\* clients_ names no client twice; broadcast may have erased this one already.
RemoveClient(c) ==
  /\ pc[c] = "leaving"
  /\ clients_mtx = Nobody
  /\ \/ \E i \in DOMAIN clients : clients[i] = c /\ clients' = RemoveAt(clients, i)
     \/ c \notin ToSet(clients) /\ UNCHANGED clients
  /\ Go(c, "done")
  /\ UNCHANGED <<version, ops, mutexes, link, sock, view, plan, outbox, at, guest>>

-----------------------------------------------------------------------------
(* The other end of the sockets.                                           *)

Connect(c) ==
  /\ link[c] = "away"
  /\ link' = [link EXCEPT ![c] = "silent"]
  /\ UNCHANGED <<version, ops, mutexes, clients, sock, view, pc, plan, outbox, at, guest>>

\* The upgrade request is sent.
Speak(c) ==
  /\ link[c] = "silent"
  /\ guest = c
  /\ link' = [link EXCEPT ![c] = "open"]
  /\ UNCHANGED <<version, ops, mutexes, clients, sock, view, pc, plan, outbox, at, guest>>

Receive(c) ==
  /\ link[c] = "open"
  /\ sock[c] # <<>>
  /\ view' = [view EXCEPT ![c][Head(sock[c]).type] = Head(sock[c]).v]
  /\ sock' = [sock EXCEPT ![c] = Tail(@)]
  /\ UNCHANGED <<version, ops, mutexes, clients, link, pc, plan, outbox, at, guest>>

Leave(c) ==
  /\ link[c] \in {"silent", "open"}
  /\ link' = [link EXCEPT ![c] = "gone"]
  /\ sock' = [sock EXCEPT ![c] = <<>>]
  /\ view' = [view EXCEPT ![c] = NothingSeen]
  /\ UNCHANGED <<version, ops, mutexes, clients, pc, plan, outbox, at, guest>>

-----------------------------------------------------------------------------

\* What a thread does once it has begun; it may wait for a mutex or a socket.
Proceed(a) ==
  \/ LockBook(a) \/ Notify(a) \/ UnlockBook(a)
  \/ LockClients(a) \/ LockClient(a) \/ Written(a) \/ WriteFailed(a) \/ UnlockClients(a)
  \/ LockRecipient(a)

Serve(c) == Proceed(c) \/ Replied(c) \/ ReadFailed(c) \/ RemoveClient(c)

AcceptLoop ==
  \/ \E c \in Client : Accept(c)
  \/ Handshake \/ HandshakeFailed \/ Enlist
  \/ LockRecipient(Acceptor) \/ Greeted
  \/ Snapshot("book snapshot", "book") \/ Snapshot("orders snapshot", "orders")

Remote(c) == Connect(c) \/ Speak(c) \/ Receive(c) \/ Leave(c)

\* Nothing is left to do: every thread waits for work that does not come.
Quiet ==
  /\ ops = MaxOps
  /\ \A a \in Actor : pc[a] \in {"idle", "done", "absent"}
  /\ \A c \in Client : sock[c] = <<>> /\ (link[c] = "open" \/ pc[c] # "idle")
  /\ UNCHANGED wsVars

WsNext ==
  \/ \E a \in Worker \cup Client : Begin(a)
  \/ \E c \in Client : BeginInvalid(c) \/ Serve(c) \/ Remote(c)
  \/ \E w \in Worker : Proceed(w)
  \/ AcceptLoop
  \/ Quiet

WsSpec == WsInit /\ [][WsNext]_wsVars

\* Every thread of the server that can take a step takes one. The operations of
\* a behaviour are bounded, so a mutex is not taken from a waiting thread for
\* ever.
ServerFairness ==
  /\ \A w \in Worker : WF_wsVars(Proceed(w))
  /\ \A c \in Client : WF_wsVars(Serve(c))
  /\ WF_wsVars(AcceptLoop)

\* A client that is there reads what it is sent and, once accepted, sends its
\* upgrade request. A browser does; nothing makes it.
ClientFairness == \A c \in Client : WF_wsVars(Receive(c)) /\ WF_wsVars(Speak(c))

ServerSpec == WsSpec /\ ServerFairness
FairWsSpec == ServerSpec /\ ClientFairness

-----------------------------------------------------------------------------
(* Correctness.                                                            *)

HoldsBook(a) ==
  \/ pc[a] \in {"plan", "broadcast", "loop", "writing"}
  \/ a = Acceptor /\ pc[a] \in {"send", "sending"} /\ Head(outbox[a]).type # "session"

\* Each mutex belongs to the thread that is where the code holds it, so no two
\* threads are in broadcast, on the book, or in a write to one client.
MutexOK ==
  /\ \A a \in Actor : (book_mtx = a) <=> HoldsBook(a)
  /\ \A a \in Actor : (clients_mtx = a) <=> pc[a] \in {"loop", "writing"}
  /\ \A a \in Actor, c \in Client :
       (write_mtx[c] = a) <=> \/ pc[a] = "writing" /\ clients[at[a]] = c
                              \/ pc[a] = "sending" /\ Recipient(a) = c

DataOK ==
  /\ version \in Nat \ {0}
  /\ ops \in 0..MaxOps
  /\ clients \in Seq(Client) /\ IsInjective(clients)
  /\ link \in [Client -> {"away", "silent", "open", "gone"}]
  /\ sock \in [Client -> Seq(Message)]
  /\ \A c \in Client : Len(sock[c]) <= Capacity
  /\ view \in [Client -> [MsgType -> Nat]]
  /\ plan \in [Actor -> Seq({"change", "trade"})]
  /\ outbox \in [Actor -> Seq(Message)]
  /\ at \in [Actor -> Nat]
  /\ guest \in Client \cup {Nobody}

WsTypeOK == DataOK /\ MutexOK

\* A listed client has another owner than the list, its handler or the
\* acceptor: when broadcast erases it while it holds its write_mtx, the mutex
\* survives the erase.
ListedIsOwned ==
  \A c \in ToSet(clients) : c = guest \/ pc[c] \notin {"absent", "done"}

\* What a client sees of the book, its orders and the trades never goes back:
\* snapshots and broadcasts leave under book_mtx, in the order of what they show.
ViewNeverGoesBack ==
  [][\A c \in Client : link'[c] = "open" =>
       \A t \in {"book", "orders", "trade"} : view'[c][t] >= view[c][t]]_wsVars

\* What the last message of a type in s carries; old when there is none.
LastOf(s, type, old) ==
  LET ofType == {i \in DOMAIN s : s[i].type = type}
  IN  IF ofType = {} THEN old ELSE s[Max(ofType)].v

\* The newest message of a type that a client has been sent.
LastSent(c, type) == LastOf(sock[c], type, view[c][type])

\* When nobody operates on the book, every connected client has been sent the
\* book and the orders as they are: a change between its entry into clients_
\* and its snapshots, or while another client is dropped, is not missed.
ClientsCurrent ==
  book_mtx = Nobody =>
    \A c \in Client : link[c] = "open" /\ pc[c] # "absent" =>
      LastSent(c, "book") = version /\ LastSent(c, "orders") = version

\* A client that has a book has none older than its orders, its trades or the
\* answers it got: an order that is answered is already on the screen.
BookIsNewest ==
  \A c \in Client : link[c] = "open" /\ view[c].book > 0 =>
    \A t \in {"orders", "trade", "reply"} : view[c][t] <= view[c].book

\* Every operation gets the book and returns. It needs the mutexes to be taken
\* in one order and every broadcast to end.
OperationsFinish == \A a \in Worker \cup Client : pc[a] = "book" ~> pc[a] # "book" /\ ~HoldsBook(a)

\* Whoever connects and stays ends with the book and the orders as they are.
FeedConverges ==
  \A c \in Client : link[c] = "silent" ~>
    [](link[c] = "gone") \/ [](view[c].book = version /\ view[c].orders = version)

=============================================================================
