---------------------------- MODULE UserSessions ----------------------------
(***************************************************************************)
(* How users get their ids: next_user_id and reconnect_user of             *)
(* core/src/user/user_manager.cpp, called by the WebSocket acceptor and by *)
(* the HTTP workers that serve POST /user/connect, while users trade.      *)
(*                                                                         *)
(* next_id_ is an atomic and is outside mtx_, so drawing or claiming an id *)
(* and entering it into positions_ and users_ are separate steps. A client *)
(* keeps the id of its session and may present it again, also to a server  *)
(* that was restarted and does not know it (StoredId). And POST /order     *)
(* takes any user id, drawn or not.                                        *)
(*                                                                         *)
(* A position is abstracted to the number of trades it shows: 0 is         *)
(* Position{}.                                                             *)
(***************************************************************************)
EXTENDS Integers, Sequences, SequencesExt

CONSTANTS Thread,       \* threads that connect users
          StoredId,     \* ids that clients kept from an earlier server
          MaxId,        \* bound: no fresh id beyond this one
          MaxTrades     \* bound: trades of one user

ASSUME SessionAssumption == /\ StoredId \subseteq Int
                            /\ MaxId \in Nat
                            /\ MaxTrades \in Nat

VARIABLES next_id,      \* next_id_
          positions,    \* positions_: user id -> trades shown
          users,        \* users_
          log,          \* users.jsonl
          sessions,     \* ids that clients have been told
          pc,           \* what each connecting thread does next
          uid,          \* its id: drawn, or presented by the client
          expected      \* reconnect_user's local of this name

sessionVars == <<next_id, positions, users, log, sessions, pc, uid, expected>>

SessionInit ==
  /\ next_id = 1
  /\ positions = [u \in {} |-> 0]
  /\ users = <<>>
  /\ log = <<>>
  /\ sessions = {}
  /\ pc = [t \in Thread |-> "idle"]
  /\ uid = [t \in Thread |-> 0]
  /\ expected = [t \in Thread |-> 0]

Goto(t, label) == pc' = [pc EXCEPT ![t] = label]

\* The call ends, and its locals with it.
Return(t) == /\ Goto(t, "idle")
             /\ uid' = [uid EXCEPT ![t] = 0]
             /\ expected' = [expected EXCEPT ![t] = 0]

-----------------------------------------------------------------------------
(* next_user_id.                                                           *)

\* fetch_add. POST /user/connect and a handshake without an id start here.
Draw(t) ==
  /\ pc[t] = "idle"
  /\ next_id <= MaxId
  /\ uid' = [uid EXCEPT ![t] = next_id]
  /\ next_id' = next_id + 1
  /\ Goto(t, "create")
  /\ UNCHANGED <<positions, users, log, sessions, expected>>

\* positions_[id] = Position{} and users_.push_back, under mtx_.
Create(t) ==
  /\ pc[t] = "create"
  /\ positions' = [u \in DOMAIN positions \cup {uid[t]} |->
                     IF u = uid[t] THEN 0 ELSE positions[u]]
  /\ users' = Append(users, uid[t])
  /\ Goto(t, "log")
  /\ UNCHANGED <<next_id, log, sessions, uid, expected>>

\* The line of users.jsonl, under journal_mtx_, and the answer to the client.
Log(t) ==
  /\ pc[t] = "log"
  /\ log' = Append(log, uid[t])
  /\ sessions' = sessions \cup {uid[t]}
  /\ Return(t)
  /\ UNCHANGED <<next_id, positions, users>>

-----------------------------------------------------------------------------
(* reconnect_user with an id of the client; one below 1 goes to Draw.      *)

\* The first load of next_id_.
Load(t) ==
  /\ pc[t] = "idle"
  /\ \E u \in sessions \cup StoredId :
       /\ u > 0
       /\ uid' = [uid EXCEPT ![t] = u]
       /\ expected' = [expected EXCEPT ![t] = next_id]
       /\ Goto(t, IF next_id <= u THEN "claim" ELSE "adopt")
  /\ UNCHANGED <<next_id, positions, users, log, sessions>>

\* Mutant: a plain store, whatever next_id_ has become.
ClaimBlindly(t) ==
  /\ pc[t] = "claim"
  /\ next_id' = uid[t] + 1
  /\ Goto(t, "adopt")
  /\ UNCHANGED <<positions, users, log, sessions, uid, expected>>

\* compare_exchange_weak succeeds.
Claim(t) ==
  /\ pc[t] = "claim"
  /\ next_id = expected[t]
  /\ next_id' = uid[t] + 1
  /\ Goto(t, "adopt")
  /\ UNCHANGED <<positions, users, log, sessions, uid, expected>>

\* It fails, because next_id_ has moved or spuriously, and reloads expected.
Retry(t) ==
  /\ pc[t] = "claim"
  /\ expected' = [expected EXCEPT ![t] = next_id]
  /\ Goto(t, IF next_id <= uid[t] THEN "claim" ELSE "adopt")
  /\ UNCHANGED <<next_id, positions, users, log, sessions, uid>>

\* Mutant: the position is assigned, not emplaced.
KeptAssigning(u) == [v \in DOMAIN positions \cup {u} |-> IF v = u THEN 0 ELSE positions[v]]

\* emplace: an existing position stays.
Kept(u) == [v \in DOMAIN positions \cup {u} |-> IF v \in DOMAIN positions THEN positions[v] ELSE 0]

Listed(u) == IF u \in ToSet(users) THEN users ELSE Append(users, u)

\* The block under mtx_, and the answer.
Adopt(t) ==
  /\ pc[t] = "adopt"
  /\ positions' = Kept(uid[t])
  /\ users' = Listed(uid[t])
  /\ sessions' = sessions \cup {uid[t]}
  /\ Return(t)
  /\ UNCHANGED <<next_id, log>>

-----------------------------------------------------------------------------

Shown(u) == IF u \in DOMAIN positions THEN positions[u] ELSE 0

\* An order that names user u trades (on_fill: positions_[u] += ...).
Trade(u) ==
  /\ Shown(u) < MaxTrades
  /\ positions' = [v \in DOMAIN positions \cup {u} |-> IF v = u THEN Shown(u) + 1 ELSE positions[v]]
  /\ UNCHANGED <<next_id, users, log, sessions, pc, uid, expected>>

ThreadStep(t) == Draw(t) \/ Create(t) \/ Log(t) \/ Load(t) \/ Claim(t) \/ Retry(t) \/ Adopt(t)

\* Bound: of the ids nobody has, those up to MaxId trade.
SessionNext == \/ \E t \in Thread : ThreadStep(t)
               \/ \E u \in sessions \cup (1..MaxId) : Trade(u)

SessionSpec == SessionInit /\ [][SessionNext]_sessionVars

-----------------------------------------------------------------------------
(* Correctness.                                                            *)

\* A user id is positive: no client becomes user 0, whose orders are not checked.
UserId == Nat \ {0}

\* Every id that is told, listed, logged or being connected is a user id, and
\* the compare-exchange loop is left with an id that next_id_ has passed.
SessionTypeOK ==
  /\ next_id \in UserId
  /\ positions \in [DOMAIN positions -> Nat]
  /\ DOMAIN positions \subseteq UserId
  /\ users \in Seq(UserId)
  /\ log \in Seq(UserId)
  /\ sessions \subseteq UserId
  /\ pc \in [Thread -> {"idle", "create", "log", "claim", "adopt"}]
  /\ uid \in [Thread -> Nat]
  /\ expected \in [Thread -> Nat]
  /\ \A t \in Thread : pc[t] # "idle" => uid[t] \in UserId
  /\ \A t \in Thread : pc[t] = "claim" => expected[t] <= uid[t]

\* Every id a client has been told, or is about to be, is behind next_id_: what
\* is drawn later is nobody's id, whatever ids were reclaimed in the meantime
\* and however the compare-exchange of reconnect_user was interleaved.
NextIdIsFree ==
  /\ \A u \in sessions \cup ToSet(users) \cup ToSet(log) : u < next_id
  /\ \A t \in Thread : pc[t] \in {"create", "log", "adopt"} => uid[t] < next_id

\* next_user_id never gives one id to two clients: the ids in users.jsonl and
\* those drawn and not logged yet are all different.
FreshIdsDistinct ==
  /\ IsInjective(log)
  /\ \A t \in Thread : pc[t] \in {"create", "log"} =>
       /\ uid[t] \notin ToSet(log)
       /\ \A s \in Thread \ {t} : pc[s] \in {"create", "log"} => uid[s] # uid[t]

\* next_id_ never goes back, or ids would be given out again.
NextIdMonotone == [][next_id' >= next_id]_sessionVars

\* What a user has traded stays on his position, however his reconnections
\* interleave with those of others, as soon as his id is in users.jsonl, or he has
\* been told it. Before, drawing the id resets the position: an order named it
\* before anybody had it, or a client brought it from an earlier server and it was
\* drawn at the same time.
PositionKept ==
  [][\A u \in DOMAIN positions :
       /\ u \in DOMAIN positions'
       /\ positions'[u] < positions[u] => u \notin ToSet(log) \cup (sessions \ StoredId)]_sessionVars

=============================================================================
