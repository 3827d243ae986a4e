------------------------------ MODULE WebClient ------------------------------
(***************************************************************************)
(* A page of the web client: WebSocketProvider of                          *)
(* ui/src/context/WebSocketContext.tsx, its connection to the server of    *)
(* Journals, and the tape of trades it shows. The two effects of the       *)
(* provider run together when it is mounted: one fetches the last trades,  *)
(* the other connects.                                                     *)
(*                                                                         *)
(* The book and the orders the page shows are in WsServer (view), its user *)
(* id in UserSessions. Messages here are trades and answers. A connection  *)
(* is a Sock, free again once it is closed.                                *)
(***************************************************************************)
EXTENDS Journals

CONSTANTS Sock, Request,
          NoSock,       \* no socket yet
          MAX_TRADES,   \* 200
          MaxMounts     \* bound; the last mount stays. StrictMode mounts twice

ASSUME ClientAssumption == MAX_TRADES \in Nat \ {0}

VARIABLES mounts, mounted,
          readyState,   \* of each socket: connecting, open, closing, closed
          attached,     \* sockets whose onclose is set
          wsRef,
          timers,       \* reconnects set and neither fired nor cleared
          pending, unsent,
          seed,         \* the fetch: its phase, and the answer when there is one
          tape,         \* the state named trades
          clients,      \* sockets in the server's clients_
          asked,        \* requests the server has not answered
          wire          \* messages on their way to the page

mountVars == <<mounts, mounted>>
socketVars == <<readyState, attached, wsRef, timers>>
requestVars == <<pending, unsent>>
tapeVars == <<seed, tape>>
pageVars == <<mountVars, socketVars, requestVars, tapeVars>>
linkVars == <<clients, asked, wire>>
clientVars == <<journalVars, pageVars, linkVars>>

NoSeed == [phase |-> "none", trades |-> <<>>]

ClientInit ==
  /\ JournalsInit
  /\ mounts = 0 /\ mounted = FALSE
  /\ readyState = [s \in Sock |-> "closed"]
  /\ attached = {} /\ wsRef = NoSock /\ timers = 0
  /\ pending = {} /\ unsent = Request
  /\ seed = NoSeed /\ tape = <<>>
  /\ clients = {} /\ asked = {} /\ wire = [s \in Sock |-> <<>>]

-----------------------------------------------------------------------------
(* Connections.                                                            *)

\* connect(): a new WebSocket with its handlers.
Connect ==
  LET free == {s \in Sock : readyState[s] = "closed"}
      s    == CHOOSE s \in free : TRUE
  IN  /\ free # {}
      /\ readyState' = [readyState EXCEPT ![s] = "connecting"]
      /\ attached' = attached \cup {s}
      /\ wsRef' = s

Mount ==
  /\ ~mounted /\ mounts < MaxMounts
  /\ mounted' = TRUE /\ mounts' = mounts + 1
  /\ seed' = [phase |-> "asked", trades |-> <<>>]
  /\ Connect
  /\ UNCHANGED <<journalVars, linkVars, timers, requestVars, tape>>

\* What is on its way over a socket is lost with it.
Cut(s) ==
  /\ clients' = clients \ {s}
  /\ asked' = {a \in asked : a[2] # s}
  /\ wire' = [wire EXCEPT ![s] = <<>>]

\* Mutant: onclose stays, and the close the page asked for sets a timer.
UnmountAttached ==
  /\ mounted /\ mounts < MaxMounts
  /\ mounted' = FALSE
  /\ seed' = NoSeed
  /\ timers' = IF timers > 0 THEN timers - 1 ELSE 0
  /\ readyState' = [readyState EXCEPT ![wsRef] = IF @ = "closed" THEN @ ELSE "closing"]
  /\ Cut(wsRef)
  /\ UNCHANGED <<journalVars, mounts, attached, wsRef, requestVars, tape>>

\* The effects are cleaned up: clearTimeout, onclose = null, close().
Unmount ==
  /\ mounted /\ mounts < MaxMounts
  /\ mounted' = FALSE
  /\ seed' = NoSeed
  /\ timers' = IF timers > 0 THEN timers - 1 ELSE 0
  /\ attached' = attached \ {wsRef}
  /\ readyState' = [readyState EXCEPT ![wsRef] = IF @ = "closed" THEN @ ELSE "closing"]
  /\ Cut(wsRef)
  /\ UNCHANGED <<journalVars, mounts, wsRef, requestVars, tape>>

\* Mutant: accept_loop has ended.
OpenInFirstRun(s) ==
  /\ stage # "down" /\ run = 1
  /\ readyState[s] = "connecting"
  /\ readyState' = [readyState EXCEPT ![s] = "open"]
  /\ clients' = clients \cup {s}
  /\ UNCHANGED <<journalVars, mountVars, attached, wsRef, timers, requestVars, tapeVars, asked, wire>>

\* accept_loop: the handshake, and the client is listed (onopen).
Open(s) ==
  /\ stage # "down"
  /\ readyState[s] = "connecting"
  /\ readyState' = [readyState EXCEPT ![s] = "open"]
  /\ clients' = clients \cup {s}
  /\ UNCHANGED <<journalVars, mountVars, attached, wsRef, timers, requestVars, tapeVars, asked, wire>>

\* The handshake fails or the connection is lost; onerror closes the socket.
Lose(s) ==
  /\ readyState[s] \in {"connecting", "open"}
  /\ readyState' = [readyState EXCEPT ![s] = "closing"]
  /\ Cut(s)
  /\ UNCHANGED <<journalVars, mountVars, attached, wsRef, timers, requestVars, tapeVars>>

\* onclose: try again in 2000 ms.
OnClose(s) ==
  /\ readyState[s] = "closing"
  /\ readyState' = [readyState EXCEPT ![s] = "closed"]
  /\ attached' = attached \ {s}
  /\ timers' = timers + (IF s \in attached THEN 1 ELSE 0)
  /\ UNCHANGED <<journalVars, linkVars, mountVars, wsRef, requestVars, tapeVars>>

Reconnect ==
  /\ timers > 0
  /\ timers' = timers - 1
  /\ Connect
  /\ UNCHANGED <<journalVars, linkVars, mountVars, requestVars, tapeVars>>

-----------------------------------------------------------------------------
(* Trades and answers.                                                     *)

\* setTrades(prev => ...).
Shown(list) == SubSeq(list, 1, Min({Len(list), MAX_TRADES}))

SendTo(socks, m) == wire' = [s \in Sock |-> IF s \in socks THEN Append(wire[s], m) ELSE wire[s]]

\* Tell, and what it broadcasts.
Broadcast ==
  /\ Tell
  /\ SendTo(clients, Last(trades_file))
  /\ UNCHANGED <<pageVars, clients, asked>>

\* The server's connections end with it; the page still has to notice.
ServerDies ==
  /\ Crash
  /\ clients' = {} /\ asked' = {}
  /\ UNCHANGED <<pageVars, wire>>

\* send: refused unless the socket is open.
Send(r) ==
  /\ r \in unsent
  /\ wsRef # NoSock /\ readyState[wsRef] = "open"
  /\ pending' = pending \cup {r} /\ unsent' = unsent \ {r}
  /\ asked' = asked \cup {<<r, s>> : s \in clients \cap {wsRef}}
  /\ UNCHANGED <<journalVars, mountVars, socketVars, tapeVars, clients, wire>>

\* Mutant: the handler goes on to the next message without an answer.
ReplyNothing(r, s) ==
  /\ <<r, s>> \in asked
  /\ asked' = asked \ {<<r, s>>}
  /\ UNCHANGED <<journalVars, pageVars, clients, wire>>

\* process_message, and its answer with the requestId.
Reply(r, s) ==
  /\ <<r, s>> \in asked
  /\ asked' = asked \ {<<r, s>>}
  /\ SendTo({s}, [requestId |-> r])
  /\ UNCHANGED <<journalVars, pageVars, clients>>

\* onmessage: an answer settles its request, a trade goes in front.
Receive(s) ==
  /\ wire[s] # <<>>
  /\ wire' = [wire EXCEPT ![s] = Tail(@)]
  /\ LET m == Head(wire[s])
     IN  IF "requestId" \in DOMAIN m
         THEN pending' = pending \ {m.requestId} /\ UNCHANGED tape
         ELSE tape' = Shown(<<m>> \o tape) /\ UNCHANGED pending
  /\ UNCHANGED <<journalVars, mountVars, socketVars, unsent, seed, clients, asked>>

-----------------------------------------------------------------------------
(* The last trades, fetched once.                                          *)

\* GET /trades?limit=MAX_TRADES is served.
ServeSeed ==
  /\ seed.phase = "asked" /\ stage # "down"
  /\ seed' = [phase |-> "answered", trades |-> Latest(trades_file, MAX_TRADES)]
  /\ UNCHANGED <<journalVars, linkVars, mountVars, socketVars, requestVars, tape>>

\* The server cannot be reached: catch.
SeedFails ==
  /\ seed.phase = "asked" /\ stage = "down"
  /\ seed' = NoSeed
  /\ UNCHANGED <<journalVars, linkVars, mountVars, socketVars, requestVars, tape>>

\* Mutant: the answer replaces what arrived live.
MergedOverLive(live, older) == Shown(older)

\* Behind what is there, the trades that are not: by trade_id and ts, which tell
\* trades apart.
Merged(live, older) ==
  LET seen == {<<t.trade_id, t.ts>> : t \in ToSet(live)}
  IN  Shown(FoldLeft(LAMBDA list, t : IF <<t.trade_id, t.ts>> \in seen THEN list
                                      ELSE Append(list, t), live, older))

MergeSeed ==
  /\ seed.phase = "answered"
  /\ tape' = Merged(tape, seed.trades)
  /\ seed' = NoSeed
  /\ UNCHANGED <<journalVars, linkVars, mountVars, socketVars, requestVars>>

-----------------------------------------------------------------------------

ServerAlone == (Answer \/ Accept \/ Fill \/ Journal \/ Complete \/ Start)
                 /\ UNCHANGED <<pageVars, linkVars>>

ClientNext ==
  \/ Mount \/ Unmount \/ Reconnect
  \/ \E s \in Sock : Open(s) \/ Lose(s) \/ OnClose(s) \/ Receive(s)
  \/ \E r \in Request : Send(r) \/ \E s \in Sock : Reply(r, s)
  \/ ServeSeed \/ SeedFails \/ MergeSeed
  \/ ServerAlone \/ Broadcast \/ ServerDies

ClientSpec == ClientInit /\ [][ClientNext]_clientVars

\* Timers fire, the browser runs its handlers and notices a dead connection, the
\* server is started again and goes on, and of the attempts to connect to a
\* running server not all fail.
FairClientSpec ==
  /\ ClientSpec
  /\ WF_clientVars(Start /\ UNCHANGED <<pageVars, linkVars>>)
  /\ WF_clientVars(Reconnect)
  /\ \A s \in Sock : /\ WF_clientVars(s \notin clients /\ Lose(s))
                     /\ WF_clientVars(OnClose(s))
                     /\ WF_clientVars(Receive(s))
                     /\ SF_clientVars(Open(s))
                     /\ \A r \in Request : WF_clientVars(Reply(r, s))

-----------------------------------------------------------------------------
(* Correctness.                                                            *)

\* A mounted page has exactly one connection, or is about to get one: a live
\* socket, one whose onclose is still to come, or a timer. An unmounted one has
\* none, whatever was under way when it was unmounted.
OneConnection ==
  Cardinality({s \in Sock : \/ readyState[s] \in {"connecting", "open"}
                            \/ readyState[s] = "closing" /\ s \in attached}) + timers
    = (IF mounted THEN 1 ELSE 0)

Held(t) == \/ t \in ToSet(tape) \cup ToSet(seed.trades)
           \/ \E s \in Sock : t \in ToSet(wire[s])

\* A trade that has reached the page, by either way, or is on its way over a
\* connection that lasts, ends up on its tape and stays there until MAX_TRADES
\* others are, duplicates counted, however the fetch and the feed overtake each
\* other.
TradesStay ==
  [][\A t \in ToSet(trades_file) : Held(t) /\ ~Held(t)' =>
       \/ Len(tape') = MAX_TRADES
       \/ ~mounted'
       \/ \E s \in Sock : readyState[s] # readyState'[s]]_clientVars

Connected == wsRef \in clients /\ readyState[wsRef] = "open"

InHand(r) == \E s \in Sock : \/ <<r, s>> \in asked
                             \/ [requestId |-> r] \in ToSet(wire[s])

\* A request is settled, unless the connection is lost before its answer: then it
\* stays in pending for ever.
RequestsSettle ==
  \A r \in Request : r \in pending /\ InHand(r) ~> r \notin pending \/ ~Connected

\* A mounted page gets its feed back, whatever failed and however often.
FeedRecovers == []<>(mounted => Connected)

=============================================================================
