---------------------------- MODULE HttpHandlers ----------------------------
(***************************************************************************)
(* The threads in front of the engine: POST /order and POST /cancel of     *)
(* core/src/server/http_handlers.cpp, and the two actions of               *)
(* WsServer::process_message, which differ only in where the user id comes *)
(* from. Each handler works in two steps that other threads can come       *)
(* between: what it does before book_mtx (parse, draw an id; look up an    *)
(* owner) and what it does with the lock. book_mtx is held between two     *)
(* steps of an operation, that is, unless pc = "idle".                     *)
(*                                                                         *)
(* A request that is answered 400 or 403 changes nothing and is no step.   *)
(***************************************************************************)
EXTENDS MatchingEngine

CONSTANTS Worker,       \* httplib's pool and one thread per WebSocket client
          Body,         \* order requests, price still a long long
          CancelBody,   \* cancel requests: whom by, and which id
          IntMax        \* the largest int

\* static_cast<int> of a long long.
ToInt(n) == Wrapped(n, IntMax)

\* What reaches the engine of a body is among the requests it is modelled for.
ASSUME HandlerAssumption ==
  /\ NewId \subseteq Nat /\ NewId # {}
  /\ IntMax \in Nat
  /\ Body \subseteq [side : Side, type : ReqType, price : Nat, qty : ReqQty, user_id : User]
  /\ \A b \in Body : b.type = "Limit" => ToInt(b.price) \in ReqPrice
  /\ CancelBody \subseteq [id : OrderId, user_id : User]

VARIABLES next_id_,     \* MatchingEngine::next_id_
          job           \* what each thread has in its hands

handlerVars == <<vars, next_id_, job>>

Free == [phase |-> "free"]

-----------------------------------------------------------------------------
(* POST /order.                                                            *)

\* parse_order_json
WellFormedBody(b) == b.qty > 0 /\ (b.type = "Limit" => b.price > 0)

\* Mutant: ids are counted in a table that is filled under the lock.
DrawIdFromTable == Min(NewId) + Cardinality(DOMAIN order_to_user)

\* next_order_id, a fetch_add.
DrawId == next_id_

OrderOf(b) == [id |-> DrawId, user_id |-> b.user_id, side |-> b.side, qty |-> b.qty, type |-> b.type,
               price |-> IF b.type = "Limit" THEN ToInt(b.price) ELSE 0]

\* Bound: until the ids of NewId are used up.
PostOrder(w, b) ==
  /\ job[w] = Free
  /\ WellFormedBody(b)
  /\ next_id_ \in NewId
  /\ job' = [job EXCEPT ![w] = [phase |-> "drawn", order |-> OrderOf(b)]]
  /\ next_id_' = next_id_ + 1
  /\ UNCHANGED vars

\* book_mtx is free: process_order, up to its early return or its loop.
Enter(w) ==
  /\ job[w].phase = "drawn"
  /\ \/ Refuse(job[w].order) /\ job' = [job EXCEPT ![w] = Free]
     \/ Accept(job[w].order) /\ job' = [job EXCEPT ![w].phase = "inside"]
  /\ UNCHANGED next_id_

\* The thread inside goes on.
Sweep == (Fill \/ Rest) /\ UNCHANGED <<next_id_, job>>

Leave(w) ==
  /\ job[w].phase = "inside"
  /\ Settle \/ Complete
  /\ job' = [job EXCEPT ![w] = Free]
  /\ UNCHANGED next_id_

-----------------------------------------------------------------------------
(* POST /cancel.                                                           *)

\* Mutant: an order nobody owns, or not yet, is anybody's.
MayCancelUnowned(id, uid) == uid > 0 => UserOf(id) \in {0, uid}

\* No check for a request without a user id, which a WebSocket client always has.
MayCancel(id, uid) == uid > 0 => UserOf(id) = uid

\* get_user_for_order takes UserManager::mtx_ only, so it may see the order of
\* another thread before, while and after it is processed.
PostCancel(w, b) ==
  /\ job[w] = Free
  /\ MayCancel(b.id, b.user_id)
  /\ job' = [job EXCEPT ![w] = [phase |-> "checked", id |-> b.id, user_id |-> b.user_id]]
  /\ UNCHANGED <<vars, next_id_>>

Cancel(w) ==
  /\ job[w].phase = "checked"
  /\ LET id == job[w].id
     IN  \/ /\ CancelUnknown(id) \/ CancelDangling(id)
            /\ job' = [job EXCEPT ![w] = Free]
         \/ CancelOpen(id) /\ job' = [job EXCEPT ![w].phase = "releasing"]
  /\ UNCHANGED next_id_

Released(w) ==
  /\ job[w].phase = "releasing"
  /\ CancelDone
  /\ job' = [job EXCEPT ![w] = Free]
  /\ UNCHANGED next_id_

-----------------------------------------------------------------------------

HandlersInit == Init /\ next_id_ = Min(NewId) /\ job = [w \in Worker |-> Free]

HandlersNext ==
  \/ \E w \in Worker : \/ \E b \in Body : PostOrder(w, b)
                       \/ \E b \in CancelBody : PostCancel(w, b)
                       \/ Enter(w) \/ Leave(w) \/ Cancel(w) \/ Released(w)
  \/ Sweep
  \/ \E u \in User : Connect(u) /\ UNCHANGED <<next_id_, job>>
  \/ Corrupted /\ UNCHANGED <<next_id_, job>>

HandlersSpec == HandlersInit /\ [][HandlersNext]_handlerVars

\* Threads keep running, and one that waits for book_mtx gets it in the end.
\* Clients need not send anything.
FairHandlersSpec == /\ HandlersSpec
                    /\ WF_handlerVars(Sweep)
                    /\ \A w \in Worker : WF_handlerVars(Enter(w) \/ Leave(w) \/ Cancel(w) \/ Released(w))

-----------------------------------------------------------------------------
(* Correctness.                                                            *)

HasOrder(w) == job[w].phase \in {"drawn", "inside"}

\* The id a thread has drawn is its own until it gets book_mtx, however long it
\* waits and whoever overtakes it: no other thread holds it and the engine has
\* never seen it (next_order_id before the lock, register_order under it).
IdsUnused ==
  \A w \in Worker : job[w].phase = "drawn" =>
    /\ job[w].order.id \notin DOMAIN order_to_user \cup DOMAIN index
    /\ \A v \in Worker \ {w} : HasOrder(v) => job[v].order.id # job[w].order.id

\* A request that names its user never takes another user's order off the book,
\* although the owner was looked up before the lock was taken, when the order
\* may not have been there yet.
CancelledByOwner ==
  [][\A w \in Worker : job[w].phase = "checked" /\ job'[w] # job[w] /\ ~ub' =>
       \A o \in RestingOrders :
         o.id = job[w].id /\ ~Resting(o.id)' => job[w].user_id \in {0, o.user_id}]_handlerVars

\* Every request that is waiting for the book is answered: the matching loops
\* end and nobody keeps book_mtx.
RequestsAnswered == \A w \in Worker : job[w] # Free ~> job[w] = Free \/ ub

=============================================================================
