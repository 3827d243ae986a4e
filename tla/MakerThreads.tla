---------------------------- MODULE MakerThreads ----------------------------
(***************************************************************************)
(* Starting and stopping the market maker: start, stop and toggle of       *)
(* core/src/market_maker/market_maker.cpp, called by the HTTP workers that *)
(* serve POST /market_maker/toggle, and the loops of its two threads.      *)
(*                                                                         *)
(* running_ is atomic; the two std::thread members are not guarded. A      *)
(* std::thread is joinable from its creation until it is joined, also when *)
(* its function has returned, and assigning to a joinable one ends the     *)
(* process (std::terminate). What a tick does is in MarketMaker.           *)
(***************************************************************************)
EXTENDS Naturals

CONSTANTS Caller,       \* HTTP workers that toggle
          Nobody,       \* owner of a free book_mtx
          Others        \* owner of book_mtx that is none of these threads

Loops == {"maker", "taker"}

ASSUME CallerAssumption == Nobody # Others /\ {Nobody, Others} \cap Loops = {}

VARIABLES running,      \* running_
          joinable,     \* maker_thread_ and taker_thread_
          loop,         \* where each thread's function is
          book_mtx,
          pc,           \* where each caller is
          answer,       \* what its toggle returned last
          terminated    \* std::terminate was called

threadVars == <<running, joinable, loop, book_mtx, pc, answer, terminated>>

ThreadInit ==
  /\ running = FALSE
  /\ joinable = [w \in Loops |-> FALSE]
  /\ loop = [w \in Loops |-> "none"]
  /\ book_mtx = Nobody
  /\ pc = [c \in Caller |-> "idle"]
  /\ answer = [c \in Caller |-> FALSE]
  /\ terminated = FALSE

\* A terminated process takes no more steps.
Go(c, label) == ~terminated /\ pc' = [pc EXCEPT ![c] = label]
Move(w, label) == ~terminated /\ loop' = [loop EXCEPT ![w] = label]

\* toggle returns with its last step.
Answer(c, next, state) ==
  answer' = [answer EXCEPT ![c] = IF next = "idle" THEN state ELSE @]

-----------------------------------------------------------------------------
(* toggle, start and stop.                                                 *)

\* The load of running_ decides.
Toggle(c) ==
  /\ pc[c] = "idle"
  /\ Go(c, IF running THEN "stop" ELSE "start")
  /\ UNCHANGED <<running, joinable, loop, book_mtx, answer, terminated>>

StartFlag(c) ==
  /\ pc[c] = "start"
  /\ running' = TRUE
  /\ Go(c, "spawn maker")
  /\ UNCHANGED <<joinable, loop, book_mtx, answer, terminated>>

\* maker_thread_ = std::thread(...), then taker_thread_.
Spawn(c, here, w, next) ==
  /\ pc[c] = here
  /\ terminated' = joinable[w]
  /\ joinable' = [joinable EXCEPT ![w] = TRUE]
  /\ Move(w, "test")
  /\ Go(c, next)
  /\ Answer(c, next, TRUE)
  /\ UNCHANGED <<running, book_mtx>>

\* Mutant: the flag is cleared after the joins.
StopFlagLate(c) ==
  /\ pc[c] = "stop"
  /\ Go(c, "join maker")
  /\ UNCHANGED <<running, joinable, loop, book_mtx, answer, terminated>>

StopFlag(c) ==
  /\ pc[c] = "stop"
  /\ running' = FALSE
  /\ Go(c, "join maker")
  /\ UNCHANGED <<joinable, loop, book_mtx, answer, terminated>>

\* Mutant: the threads are not waited for.
JoinDetach(c, here, w, next) ==
  /\ pc[c] = here
  /\ joinable' = [joinable EXCEPT ![w] = FALSE]
  /\ Go(c, next)
  /\ Answer(c, next, FALSE)
  /\ UNCHANGED <<running, loop, book_mtx, terminated>>

\* Mutant: stop does not join.
JoinSkipped(c, here, w, next) ==
  /\ pc[c] = here
  /\ Answer(c, next, FALSE)
  /\ Go(c, next)
  /\ UNCHANGED <<running, joinable, loop, book_mtx, terminated>>

\* join waits for the end of the function; an unjoinable thread is skipped.
Join(c, here, w, next) ==
  /\ pc[c] = here
  /\ joinable[w] => loop[w] = "ended"
  /\ joinable' = [joinable EXCEPT ![w] = FALSE]
  /\ loop' = [loop EXCEPT ![w] = IF joinable[w] THEN "none" ELSE @]
  /\ Go(c, next)
  /\ Answer(c, next, FALSE)
  /\ UNCHANGED <<running, book_mtx, terminated>>

-----------------------------------------------------------------------------
(* run_maker and run_taker.                                                *)

TestRunning(w) ==
  /\ loop[w] = "test"
  /\ Move(w, IF running THEN "lock" ELSE "ended")
  /\ UNCHANGED <<running, joinable, book_mtx, pc, answer, terminated>>

LockBook(w) ==
  /\ loop[w] = "lock"
  /\ book_mtx = Nobody
  /\ book_mtx' = w
  /\ Move(w, "tick")
  /\ UNCHANGED <<running, joinable, pc, answer, terminated>>

UnlockBook(w) ==
  /\ loop[w] = "tick"
  /\ book_mtx' = Nobody
  /\ Move(w, "sleep")
  /\ UNCHANGED <<running, joinable, pc, answer, terminated>>

Wake(w) ==
  /\ loop[w] = "sleep"
  /\ Move(w, "test")
  /\ UNCHANGED <<running, joinable, book_mtx, pc, answer, terminated>>

\* Anybody else who operates on the book.
OthersLock ==
  /\ ~terminated
  /\ book_mtx = Nobody
  /\ book_mtx' = Others
  /\ UNCHANGED <<running, joinable, loop, pc, answer, terminated>>

OthersUnlock ==
  /\ ~terminated
  /\ book_mtx = Others
  /\ book_mtx' = Nobody
  /\ UNCHANGED <<running, joinable, loop, pc, answer, terminated>>

-----------------------------------------------------------------------------

CallerStep(c) ==
  \/ StartFlag(c)
  \/ Spawn(c, "spawn maker", "maker", "spawn taker") \/ Spawn(c, "spawn taker", "taker", "idle")
  \/ StopFlag(c)
  \/ Join(c, "join maker", "maker", "join taker") \/ Join(c, "join taker", "taker", "idle")

LoopStep(w) == TestRunning(w) \/ LockBook(w) \/ UnlockBook(w) \/ Wake(w)

ThreadNext == \/ \E c \in Caller : Toggle(c) \/ CallerStep(c)
              \/ \E w \in Loops : LoopStep(w)
              \/ OthersLock
              \/ OthersUnlock

ThreadSpec == ThreadInit /\ [][ThreadNext]_threadVars

\* Every thread of the process is scheduled, whoever holds book_mtx lets it go,
\* and a loop that waits for it is not overtaken for ever. Nobody has to toggle.
ThreadFairness ==
  /\ \A c \in Caller : WF_threadVars(CallerStep(c))
  /\ \A w \in Loops : SF_threadVars(LoopStep(w))
  /\ WF_threadVars(OthersUnlock)

FairThreadSpec == ThreadSpec /\ ThreadFairness

-----------------------------------------------------------------------------
(* Correctness.                                                            *)

\* Toggling at runtime never ends the process: start finds both threads joined.
NeverTerminates == ~terminated

\* When no toggle is under way, what the last one answered is true: running
\* means both loops run, stopped means both have ended and no tick comes after
\* the answer.
AnswerIsTrue ==
  (\A c \in Caller : pc[c] = "idle") =>
    /\ \E c \in Caller : answer[c] = running
    /\ \A w \in Loops : IF running THEN joinable[w] /\ loop[w] \notin {"none", "ended"}
                                  ELSE ~joinable[w] /\ loop[w] = "none"

\* A toggle returns: its joins wait for loops that see running_ cleared, also
\* when they are waiting for book_mtx or asleep at that moment.
TogglesReturn == \A c \in Caller : pc[c] # "idle" ~> pc[c] = "idle"

=============================================================================
