# A TLA+ model of the order book simulator

The program is a small exchange: a limit order book with price-time priority, a
matching engine with per-user cash and share accounts, two append-only journals,
an HTTP and a WebSocket front end, a market maker and four trading bots, and a web
client. This directory holds TLA+ modules that model it, TLC configurations that
check them, and eight modules of proofs checked by TLAPS.

## Inventory

| Part | State | Operations | Talks to |
| --- | --- | --- | --- |
| Order book (`core/src/book`) | `bids_`, `asks_` (price → FIFO list), `index_` (id → side, price, list iterator), `on_change_` | `add_resting_order`, `cancel_order`, `find_order`, best prices and queues, level cleanup, depths | calls `on_change_` |
| Matching engine (`core/src/engine`) | `next_id_`, `event_seq_`, `batch_seq_`, global trade counters; per call: `taker`, `trades` | `process_order` (preflight, match, rest, emit), `cancel_order`, `next_order_id` | book, user manager, trade and order sinks |
| User manager (`core/src/user`) | `order_to_user_`, `positions_`, `users_`, `next_id_` | `register_order`, `on_fill`, `on_order_resting`, `on_cancel`, `get_position`, `next_user_id`, `reconnect_user` | called by the engine and by both servers, own mutex |
| Journals (`core/src/logging`) | `trades.jsonl`, `orders.jsonl` | `on_trade`, `on_order_event`; read back by HTTP | called by the engine |
| Seeding (`core/src/sim`) | – | `seed_book` | book only, before anything else runs |
| HTTP handlers (`core/src/server/http_handlers.cpp`) | – | `POST /order`, `/cancel`, `/user/connect`, `/market_maker/toggle`; readers of book, journals, positions | engine under `book_mtx`; user manager without it |
| WebSocket server | `clients_`, per-client socket and write mutex | accept (session, snapshots), order and cancel messages, `broadcast`, `on_trade` | engine under `book_mtx`; called back by the book and the sinks, still under `book_mtx` |
| Market maker, trading bots | `running_`, threads, EMA / price window | start, stop, toggle, one quote or trade per tick | engine under `book_mtx`, user 0 |
| Server start-up (`core/src/server/tcp_server.cpp`) | – | opens both journals for appending, seeds the book, wires the sinks and the callback, starts the two servers | all of them |
| Web client (`ui/src/context`) | socket, reconnect timer, pending requests, book, tape, orders, user id | connect, send, receive, reconnect, seed the tape | both servers |

One mutex, `book_mtx`, serialises everything that touches the book. Positions are
outside it: `UserManager::mtx_` is taken per call, so a reader of a position sees
the middle of a sweep, and a book that was broadcast before the reservation that goes
with it. Everything the engine writes to (journals, broadcasts) is
called with `book_mtx` held.

What makes each part correct: the book's index and its levels agree and no level
is empty; it is never crossed; trades respect price, then time; what is reserved
in a position is what rests in the book; cash and shares are conserved and not
overspent; the two journals tell the same story, and tell it to the end; a client
that listens has the current book; ids of users and orders are unique; no request
waits for ever.

What is hard: the readers between two fills, an iterator kept in the index after its
node is gone, a check made on one price and spent on several, reservations
made and released by different calls, three places that must remember to notify,
journals written at different points of one operation, the lock order of three
mutexes with a blocking socket underneath, restarts over journals that survive.
`PROJECT.json` lists each at its line.

## Modules

`A <- B`: B extends A. A module with `MC` in its name only gives constants their values.

```
OrderBook <- UserManager <- MatchingEngine <- HttpHandlers <- MCHttpHandlers
          <- SeedBook       (MCMatchingEngine)
MatchingEngine <- DepthOfBook                  its book as DepthBook sees it
DepthBook <- MarketMaker <- TradingBots        what orders do to prices and depths
DepthBook <- - implemented by MatchingEngine and HttpHandlers (DepthOfBook, INSTANCE ... WITH)
MakerThreads                                   start, stop and toggle
UserSessions                                   ids of users
WsServer  (MCWsServer)                         connections and broadcasts
Journals  <- WebClient                         files over restarts; a page
(MCJournals) (MCWebClient)

proofs:  FoldProofs <- OrderBookProofs <- ExchangeProofs        (MatchingEngine, HttpHandlers)
         FoldProofs <- MarketMakerProofs                        (TradingBots, MakerThreads)
         FoldProofs <- WebClientProofs                          (Journals, WebClient)
         SeedBookProofs, UserSessionsProofs, WsServerProofs
```

### The exchange

**OrderBook** models `order_book.{hpp,cpp}`. `levels[side]` is a function from the
prices present to non-empty sequences of orders; the sort order of the C++ maps is
`Better`, `begin()` is `Best`. `index` keeps side and price of a `Locator`; its list
iterator is *valid* exactly while the order of that id is linked in that level.
`AddRestingOrder`, `Unlink` and `UnlinkDangling` are `add_resting_order` and the two
cases of `cancel_order`.

**UserManager** models `user_manager.{hpp,cpp}` as the engine calls it: registration,
`OnFill` (the taker's half, then the maker's, in place), `OnOrderResting`,
`OnCancel`. Each runs under `mtx_` and is one update. A user without an entry in
`positions_` cannot be told from one with a default `Position`, so `positions` is total.
Any id may trade, drawn or not, as `POST /order` takes the user from its body;
`NextUserId` is the critical section of `next_user_id`, which enters a new `Position` over
whatever is there. Amounts are `long long`s: sums, differences and products commute with
their wrapping around, so they are kept exact and `Wrapped` (at `LongMax`) where the code
compares one. (Signed overflow is undefined in C++. The builds wrap, and `Wrapped`
says so.)

**MatchingEngine** models `matching_engine.cpp` on top of both. A submitted order is
an action that refuses it (`Refuse`: registration, preflight, the one journal line)
or `Accept` (registration, preflight, `NEW`), then one `Fill` per turn of the inner
loop of `match_buy`/`match_sell` (one definition for both, which differ in the side
only). When the loop has ended, an order that has something left to rest is linked and
broadcast (`Rest`), then reserved for, and its trades and its last event written
(`Settle`); any other order does the last two in `Complete`. `cancel_order` is
`CancelUnknown`, `CancelDangling`, or `CancelOpen` (unlink, broadcast, event) and then
`CancelDone` (release the reservation). `Connect` is `next_user_id`, which waits for
no lock of the book's.

| Variable | Code |
| --- | --- |
| `levels`, `index` | `OrderBook::bids_`, `asks_`, `index_` |
| `order_to_user`, `positions` | `UserManager` members of these names |
| `pc` | where the thread that has `book_mtx` is: in a matching loop, between linking an order and reserving for it, or between unlinking one and releasing |
| `incoming`, `taker`, `trades` | `process_order`'s parameter and locals |
| `journal`, `tape` | `orders.jsonl` (per order), `trades.jsonl` |
| `feed` | the book of the last `notify_change` |
| `withdrawn` | `cancel_order`'s copy of the order |
| `wiped` | users whose id had been in use before it was drawn (no variable of the code) |
| `ub` | a dangling iterator has been dereferenced |

*Grain of the steps.* Another thread can run between two steps only by taking a
mutex the first one does not hold. Inside `process_order` that is
`UserManager::mtx_`. Positions change in `on_fill`, `on_order_resting` and
`on_cancel`, and what they have to agree with, the book and its broadcasts, changes
before or after; so each `Fill` is a step, and linking and reserving, unlinking and
releasing are two. Within a `Fill` both positions change under one lock, and then the
maker's event and the quantities in the book follow. They are merged, as no broadcast falls
between them: only who reads a position and `orders.jsonl` (`GET /activity` takes no lock)
could tell them apart, and no property is about that. Order ids
are arbitrary: they are drawn before `book_mtx` is taken and so reach the engine in
any order (HttpHandlers draws them). Users with ids below 1 are not checked by the preflight; id 0 stands for
all of them.

*The dangling iterator.* `pop_front` leaves the maker's locator in `index_`. A later
`cancel_order` of that id first copies `*it` (freed memory: what the order was, or an
order that reuses the node) and then, if the level still exists, calls
`list::erase`. This is undefined behaviour; `CancelDangling` chooses among
outcomes the pool allocator can produce, sets `ub`, and nothing is modelled after
it. Properties that cannot survive it say `ub \/ ...`; those that do not mention
`ub` hold in the corrupted state too.

*Left out:* sequence numbers, batch ids, timestamps, answers (their quantities are those
of the last event), user and side in the events. `notify_change` between the match and the resting of the same
call is covered by the last one of that call.

**HttpHandlers** puts threads in front of the engine: `POST /order`, `POST /cancel`,
and the two actions of `WsServer::process_message`, which do the same with the
session's user. A handler works in two steps that others can come between. `PostOrder`
parses and draws an id (`next_order_id`, before `book_mtx`); `Enter` has the lock and
runs `process_order` up to its early return or its loop; `Sweep` is a `Fill` or `Rest`,
`Leave` is `Settle` or `Complete`. `PostCancel` looks up the owner of the order (under
`UserManager::mtx_` only, so possibly while that order is being processed), `Cancel`
takes the lock and cancels, in two steps (`Released`) if the order is there. Unless
`pc = "idle"` a thread holds the lock, and `Accept`, `Refuse` and the cancellations need
it. `job` is what
a thread has in its hands. Prices arrive as a `long long` and are stored in an `int`:
`ToInt`, which wraps at `IntMax`, so that a price of 2 `IntMax` + 3 is 1 to the engine. A `-`
sign is not read by the parser, so prices and quantities are naturals. Requests
answered 400 or 403 change nothing and are no steps.

**DepthBook** is what the exchange promises a trader: a quantity per side and price,
and orders that take effect at once, best eligible prices first, as much as they ask
for and find. **DepthOfBook** substitutes `depth` by the quantities of the levels,
plus what the order in the matching loop has taken so far, and `broken` by `ub`; the run
Exchange checks `ImplementsDepthBook` with threads, and it is proved: draws, owner lookups,
fills, refusals and changes of positions are stutters, `Rest` or `Complete` is `Submit`,
`CancelOpen` is `Withdraw`, `CancelDangling` is `Break`. So the
four loops over levels and queues never skip a level, take too much or leave something
behind, and no thread ever acts on a book in between. The market maker and the bots see
the book through prices and depths only, and are modelled on DepthBook, which this
justifies.

**SeedBook** is `seed_book`, level by level and order by order: random numbers are
choices, the weights of the levels are abstracted to what they share out (quantities
that are together within `target_depth_per_side`). No run uses it. MatchingEngine
assumes of its first book that it is well formed, not crossed and the system's
(`Seeded`, in `SeedAssumption`), and `SeedingIsGood` proves that this is what
`seed_book` leaves, for arguments as good as `main`'s (`GoodArguments`).

### Files and restarts

**Journals** models when a line of `trades.jsonl` or `orders.jsonl` is written
(`process_order`, `cancel_order`, `emit_trades` with its two sinks), a crash between
any two lines, a restart that appends to both files with counters, ids and book that
start over, and the readers: `GET /trades`, `/activity`, `/user/trades`
(`read_last_trades_jsonl` with its limit, the filter that compares text) and
`groupBatches`, with which the page gathers the events of one order. Which orders
match is left to MatchingEngine. `ts` comes from the steady clock, which goes on over
a restart of the process; it is as coarse here as it can be, one value per run.

### Users

**UserSessions** models `next_user_id` and `reconnect_user` as the acceptor and the
HTTP workers call them. `next_id_` is an atomic outside `mtx_`, so there is a step
for the `fetch_add` (`Draw`), one for the first critical section (`Create`), one for
the line of `users.jsonl` (`Log`); and for a reconnection the load (`Load`), the
compare-exchange that succeeds or fails, also spuriously (`Claim`, `Retry`), and the
critical section (`Adopt`). `Trade` is `on_fill` of any user, with a session or not, at any
moment. A client may present any id it was told (`sessions`) or one of an earlier
server (`StoredId`, which includes ids below 1).

### The WebSocket server

**WsServer** models `ws_server.cpp`: the acceptor, one handler per client and workers
(HTTP, market maker, bots) that change the book. The grain is one step per lock,
unlock, write and iteration; a lock that is taken and released with nothing that
waits in between is one step.

| Variable | Code |
| --- | --- |
| `book_mtx`, `clients_mtx`, `write_mtx` | the mutexes, by owner |
| `clients`, `at` | `clients_` and `broadcast`'s iterator |
| `link`, `sock`, `view` | a connection, what is on its way, what its client has seen |
| `pc`, `plan`, `outbox`, `guest` | where each thread is and what it is about to send |
| `version` | how often the book has changed |

`sock` holds at most `Capacity` messages, then `write` waits for the client to read.
A client may leave at any step; until its reset arrives, writes to it seem to
succeed. What an order does is abstracted to the notifications it causes
(`Operations`: none, changes of the book, then trades). *Left out:* `stop()`, which
runs when the process ends; that a Beast stream is read and written by two threads.

### Market maker and bots

**MarketMaker** and **TradingBots**, which extends it: each tick of a loop runs under
`book_mtx` from the first look at the book to the last order, and is one step
(`MakerTick`, `TakerTick`; `MomentumTick`, `ReversionTick`, `NoiseTick`, `SniperTick`)
with the arithmetic of the source (integer division, clamps). Between ticks users submit
and cancel anything. All six threads and the users work on one book. The EMA is
abstracted to any half tick between its old value and the mid price, the momentum bot's
window to what it can conclude. `main` never starts the bots (the call is commented
out).

**MakerThreads** models `toggle`, `start` and `stop`, each access to `running_` and to
a `std::thread` a step, and the loops they start. Assigning to a joinable
`std::thread` sets `terminated`.

### The page

**WebClient** extends Journals by a page: the two effects of `WebSocketProvider`, run
together when it is mounted and cleaned up together (twice in StrictMode), the sockets
with their four states, the reconnect timer, `pending`, the fetch of the last trades and
the merge of its answer behind what has arrived live. The server of Journals crashes,
restarts, broadcasts each trade to the clients it has listed and answers requests. A
connection can fail at any moment, in the handshake too; what is on its way is then
lost. What the page makes of book and orders is `view` of WsServer.

## Runs

| Run | Question | Result |
| --- | --- | --- |
| EngineSeeded | Three orders of any kind (also quantity 0) and any cancellations over a book with a seeded bid and ask: do the book, index, feed, journals, tape, positions and reservations agree at every step, are queues fair, and who can end up in debt? | pass, 539 196 states |
| Exchange | Two threads post and cancel orders: are drawn ids nobody else's, can a stale owner lookup cancel a stranger's order, is every request answered, and does the whole still do what DepthBook says? | pass, 47 813 states |
| Sessions | Three threads draw and reclaim ids while orders trade for ids that are drawn or not: is an id ever given twice, a position lost? | pass, 859 288 states |
| WsFeed | Two clients that come and go, a worker and the acceptor: is everybody connected sent the current book, in order, whenever nobody operates on it? | pass, 845 411 states |
| WsLiveness | Do operations end, is every client served, does its view converge? | pass, 63 742 states |
| Makers | Market maker, bots and users on one book: are quotes passive, both sides fed alike, and does liquidity return? | pass, 9 296 states |
| OneToggler | One caller at a time: does toggle join what it stops, answer the truth and return? | pass, 110 states |
| Restarts | Three runs of the server: what does a crash lose, and what do the readers make of files in which all numbers begin again? | pass, 62 882 states |
| Page | A page that is mounted twice, on a server that crashes: one connection, no lost trade, answers, the feed back? | pass, 128 250 states |
| CancelAfterFill | `TerminalIsFinal`: is Filled the last line of an order? | violated |
| SlowClient | `OperationsFinish` without the assumption that clients read | violated |
| TwoTogglers | `NeverTerminates` with two callers at once | violated |

*EngineSeeded.* Users 0 (unchecked) and 1, prices 1 and 2, a new user
with 3 of cash and 2 shares: enough for a limit order to be affordable at one price
and not at the other, and for the reserved part to matter. Two prices are what a
crossing, a better price and a sweep over levels need; three orders on a seeded book
make two makers and a taker on each side; quantities 1 and 2 give partial fills of
either party. `LongMax` is 3, so that 2 for 2 overflows and
1 for 2 does not. The id of user 1 may be drawn after it has traded.
Order ids are symmetric (compared for equality only). Ids are used
once, which bounds the run; `journal`, `tape` and `trades` are bounded by that.

*Exchange.* Two workers and two ids, 3 and 4, so that each overtakes the other between
drawing and executing; three prices, so that a level can lie between two others;
quantities 1 to 3. The largest int is 3: the prices 9 and 6 become 1, which trades, and
-2, which is refused. The largest long long is 7, which 3 for 3 exceeds. Cancellations name a seeded order, or one that exists at
the lookup, at the lock, at both or at neither, by its owner, by another user and
anonymously. No symmetry, as liveness is checked.

*Sessions.* Three threads are needed for a draw, a claim that fails and a claim that
passes it; ids 2 and 3 of an earlier server for two claims that race with different
targets; at most three ids are drawn, each user trades once, and any of those ids before it
is drawn, too.

*WsServer.* Two clients, so that one can be dropped while the other is written to;
one worker besides their handlers; two operations (one in WsLiveness), so that a
change falls between any two steps of a handshake; sockets that hold two messages (one), fewer
than a broadcast and a snapshot send.

*Makers.* Five prices are room for a spread of 3 and a move of it. The parameters are
scaled down (target 4, `min_depth_` 3, quantities 2, spread 2): the target is two ticks
away, and the taker's quantity is below `min_depth_` as in the code. Offsets of 1 instead
of 5. `MaxDepth` bounds what users and bots leave on a side; the maker ticks while its
ask is within the prices, which `InBounds` keeps true.

*Restarts.* Three runs of the server, so that a file has lines of two earlier ones;
two operations in each, so that batch ids of different runs coincide and differ;
two trades, of users 1, 2 and 10, whose number begins like user 1's, so that every limit
of 1 or more cuts something off or nothing; the proofs hold for any number.

*Page.* Two mounts (StrictMode), two sockets, so that one can be closing while another
connects; one request; two trades and a tape of two (`MAX_TRADES` is 200), so that the
fetched and the live tape overlap in every way; two runs of the server.

No run turns deadlock checking off. When the work of a behaviour has run out, something
can still happen (a cancellation of an unknown id, a reconnection, another tick, a
request that only reads) or `Quiet` says that every thread waits for work. `Corrupted`
stutters where the model says nothing more. In MakerThreads a terminated process takes
no step; no passing run reaches it.

What the three violations are:

* **CancelAfterFill.** The README's algorithm says a filled maker is popped *and
  removed from the index*. The code only pops it (`matching_engine.cpp:224`, `280`).
  A cancellation of that id then answers ok and appends `CANCELLED` after `FILL`.
* **SlowClient.** `broadcast` writes to every socket with `book_mtx` held, where the
  README says no I/O is performed. A client that stays and stops reading fills its
  socket, and no operation on the book ends any more. WsLiveness shows that this
  assumption about clients is all that is missing: no order of the three mutexes and no
  client that leaves can stop the exchange.
* **TwoTogglers.** `toggle` tests `running_` and then acts. Two HTTP workers that both
  find it unset both assign `maker_thread_`; the second assignment is to a joinable
  thread and ends the process. OneToggler shows that callers that take turns are safe.

Other places where code and documents differ, or where a reader would expect more than
the code does, met while modelling. The properties state what does hold:

* The preflight charges a market buy `qty` times the *best* ask; a sweep can overspend
  (`CashSolvent` excepts market buys).
* The preflight computes `price * qty` in a `long long`, and nobody bounds the quantity
  (`matching_engine.cpp:59`, `http_handlers.cpp:113`). The product of a large one overflows
  to a small or negative amount, and a limit buy is accepted that the README's preflight
  (`>= price * qty`) would refuse. `CashSolvent` excepts exactly these moments.
* A position read in the middle of an operation can be behind the book its client was
  sent: the order that is being linked is not reserved for yet, the one that is being
  cancelled still is (`ReservationsExact` counts them so, by `Secured`).
* The rest of a market order is dropped with `PARTIAL_FILL` as its last journal line
  (`OpenRests` excepts market orders).
* Fills of seeded orders release reservations never made, so user 0's go below zero
  (`ReservationsExact` is about registered users).
* `POST /order` takes any `user_id`. One that has not been drawn yet gets a position by
  trading, and `next_user_id` later assigns `Position{}` to it (`user_manager.cpp:15`): the
  README's lifetime totals start over, cash and shares come or go, and reservations vanish
  while their orders rest. The same happens to a client that reclaims an id of an earlier
  server while that id is being drawn, and trades. `PositionKept` speaks of ids that are
  logged, or told by this server; the engine's properties except `wiped`.
* A client is listed before its session is sent: a broadcast can arrive first.
* A price beyond an `int` is not refused but wraps, and may trade (Exchange has both).
* `GET /user/trades` looks for `"maker_user":<uid>` in the text of a line: user 1 also
  gets the trades of users 10 to 19 (`UserTradesComplete` says nothing is missing and
  what else can come).
* Order ids and `batch_id`s are used again after a restart, in files that are appended
  to. `BatchesOfOneRun` holds because the page groups neighbours only, with one exception
  it names; an order id alone names two orders.
* `TickerTape.tsx` takes the tape to be newest first. `setTrades` puts fetched trades behind
  live ones, which need not be older. A trade that is fetched and then broadcast is shown twice, and trades
  between a lost connection and the next mount are missing. `TradesStay` says what is not
  lost.
* A request whose connection is lost before the answer stays in `pending` and its promise
  is never settled (`RequestsSettle` excepts it).
* Both sides "always receive the same addition" (comment in `run_maker`) unless the
  bid would be at 0 (`EqualAdditionAbovePriceOne`); from then on the maker adds asks at
  every tick, as the bid side stays below the target. And liquidity is added on both
  sides when the *smaller* one is below the target, so the other one grows past it.
* The sniper quotes `best_bid + 1` and `best_ask - 1`, the README says the opposite; the
  mean reversion bot buys at the average, not one below it.
* `seed_book` with a spread below 2 starts both sides at one price, and its jitter then
  crosses the book. `main` passes 2.

Each property of a passing run has a mutant of a mapped definition that breaks it
(`Mutant:` in the modules, `mutants` in `PROJECT.json`).

### Fairness

* `FairHandlersSpec` (HttpHandlers): weak fairness of `Sweep`, whose thread holds
  `book_mtx` and waits for nobody but short critical sections of `UserManager` (and for
  its sinks and broadcasts, see WsServer), and of each worker's next step with the lock: who waits for
  `book_mtx` gets it in the end. Weak is enough because only an order that was accepted, or a cancellation that found its
  order, keeps the lock from one step to the next, and a behaviour has as many as it has
  ids. Nobody has
  to send a request.
* `ServerFairness` (WsServer): every thread of the server that can take a step takes
  one. Weak fairness is enough, though mutexes are contended, because the operations
  of a behaviour are bounded. `ClientFairness`, a separate conjunct, says that clients read and send
  their upgrade request. A browser does; nothing in the code makes it, and SlowClient
  is the run without it. A client that connects and stays silent would
  keep the acceptor from all others in the same way.
* `FairBotSpec` (TradingBots): the maker's loop ticks, as it does every 350 ms while it
  runs. No bot, taker or user has to do anything.
* `ThreadFairness` (MakerThreads): every thread is scheduled and whoever has
  `book_mtx` lets it go; strong for the loops, which are not overtaken at `book_mtx`
  for ever. Nobody has to toggle.
* `FairClientSpec` (WebClient): timers fire, the browser runs its handlers and notices a
  dead connection, the server is started again and answers. `Open` is strongly fair: of
  the attempts to connect to a running server not all fail. Connections may still be lost
  for ever again.

## Proofs

`ExchangeProofs` proves of MatchingEngine, for any sets of ids and users, any largest price, any
quantities, any initial cash and shares and any seeded book:

| Theorem | Says |
| --- | --- |
| `TypeInvariant`, `TypeCorrect` | `[](TypeOK /\ InFlightOK)`, `[]TypeOK` |
| `BookInvariant`, `BookAlwaysConsistent`, `NeverCrossed` | `[](BookConsistent /\ NotCrossed)` and its parts |
| `NeverOversold` | `[]SharesSolvent` |
| `OwnersAlwaysAgree` | a resting order's `user_id` is what `order_to_user` has, in a sweep and while it is cancelled too |
| `FeedAlwaysCurrent` | `[]FeedCurrent` |
| `TradesHavePriority`, `QueuesAreFair` | `PriceTimePriority`, `NoOvertaking` |
| `OnlyMarketBuysAndOverflowsOverspend` | `CashSolvent`: only his own market buy, or amounts that overflow in the preflight, put a user (deeper) into debt |
| `OpenOrdersRest` | `OpenRests`: an order left open in `orders.jsonl` rests, unless it is a market order that found too little |
| `ReservedIsWhatRests` | `[]ReservationsExact`: what is reserved is what rests, but for the one order being linked or cancelled |
| `AccountsAlwaysMatchTape` | `[]AccountsMatchTape`: nothing is made or lost, and totals are the tape's turnover, unless an id that traded is drawn |
| `JournalsAlwaysReconcile` | `[]JournalsReconcile`: the two journals and the book tell one story |
| `EngineImplementsDepthBook` | `ImplementsDepthBook`: the engine implements its abstract specification |

and of HttpHandlers, for any number of threads and any requests:

| Theorem | Says |
| --- | --- |
| `ThreadsImplementEngine` | `HandlersSpec => Spec`: every step of the threads is a step of MatchingEngine or a stutter |
| `SafeWithThreads` | so types, book, shares, reservations and journals are right with threads |
| `ThreadsImplementDepthBook` | and they implement DepthBook |
| `IdsInvariant`, `DrawnIdsUnused` | ids in use are below `next_id_`, drawn ones differ; `[]IdsUnused` |
| `ClaimsInvariant`, `CancelsAreOwn` | what a lookup found stays true until the lock is held; `CancelledByOwner` |

`WsServerProofs` proves, for any number of clients and workers, any capacity of a socket
and any number of operations:

| Theorem | Says |
| --- | --- |
| `FeedInvariant` | the inductive invariant `FeedInv` |
| `FeedTypes` | `[]WsTypeOK`: types, and who holds each of the three mutexes |
| `ListedOwned` | `[]ListedIsOwned`: erasing a client whose mutex is held does not free it |
| `FeedCurrent` | `[]ClientsCurrent`: whoever is connected has been sent the book as it is |
| `BookNewest`, `ViewMonotone` | `[]BookIsNewest`, `ViewNeverGoesBack` |

`UserSessionsProofs` proves, for any number of threads and any ids clients kept:

| Theorem | Says |
| --- | --- |
| `IdInvariant` | types, and `next_id_` ahead of every id in use, inductively |
| `SessionTypes`, `DrawnIdsAreNew`, `NoIdTwice` | `[]SessionTypeOK`, `[]NextIdIsFree`, `[]FreshIdsDistinct` |
| `NextIdGrows` | `NextIdMonotone`: `next_id_` never goes back |
| `PositionsKept` | `PositionKept`: no position is lost of an id that is logged, or was told by this server |

`MarketMakerProofs` proves, of any number of users, any prices, spread, target, quantities
and offsets, and of any number of toggling workers:

| Theorem | Says |
| --- | --- |
| `BidsBelowAsks` | the inductive invariant `BotInv`: bids stay below asks, whoever ticks |
| `ProvidersProvide` | `[]ProvidersOnlyAdd`: maker, mean reversion bot and sniper take nothing |
| `EqualAdditions` | `EqualAdditionAbovePriceOne`: one addition for both sides, and not past the target |
| `TakerBalances` | `TakerRebalances`: the taker finds what it asks for and balances the sides |
| `ToggleInvariant`, `TogglesInTurn` | while toggles do not overlap (`Serial`), `NeverTerminates` and `AnswerIsTrue`, for any number of workers |

`WebClientProofs` proves, of any number of runs, operations, trades, sockets, requests and
mounts, any limit and any size of the tape:

| Theorem | Says |
| --- | --- |
| `LossInvariant`, `LossIsBounded` | `[]LossIsOneOrder` |
| `UserTradesAreComplete` | `[]UserTradesComplete`: a user's trades are missing only from a full answer, behind newer ones |
| `GroupsAreBatches` | `[]BatchesOfOneRun`: what the page groups is one order |
| `AlwaysOneConnection` | `[]OneConnection` |
| `NoTradeIsLost` | `TradesStay`: what has reached the page stays on its tape while there is room |
| `PageImplementsJournals` | `ClientSpec => JournalsSpec`: the page leaves the journals alone, and what holds of them holds with it |

`SeedBookProofs` proves `SeedingIsGood` (`GoodArguments` gives `[]SeedIsGood`), for any
spread of 2 or more, number of levels, depth and outcome of the random numbers.

`OrderBookProofs` and `FoldProofs` hold what several of these share: what `AddRestingOrder`,
`Unlink` and the removal of a maker do to a well-formed book and that the best level is the
best; and folds, over sets (sums) and over sequences.

Assumptions: `BookAssumption` (prices positive and bounded, user 0 exists),
`UserAssumption` (nobody starts in debt; the largest long long is a natural), `EngineAssumption` (new and seeded ids
differ: new ids start at 1000, and seeding uses ids up to 240 for `main`'s arguments,
`LastId`; prices bounded; quantities are `long long`s that are not negative), `SeedAssumption` (the seeded book is well formed, not crossed
and belongs to user 0, which `SeedingIsGood` shows of `seed_book`), `HandlerAssumption`
(ids and the largest int are naturals; what reaches the engine of a request is among the requests it is
modelled for), `SessionAssumption` (ids are integers, the bounds naturals), `WsAssumption`
(threads are distinct, a socket holds a message), `CallerAssumption` (lock owners have
names of their own), `DepthAssumption`, `MakerAssumption` and `BotAssumption` (prices,
quantities and the constants of the maker's and the bots' arithmetic are what the code's
are: a spread of 2 or more, the taker's quantity below the depth it waits for, a sniper
that needs a gap), `JournalsAssumption` (ids of users are
naturals) and `ClientAssumption` (the tape has room for a trade).
`AccountsAlwaysMatchTape` has a hypothesis of its own, that users are finitely many: their
ids are ints, and a sum over all of them means nothing otherwise.

*The engine.* `TypeOK` is not inductive: that the order which rests has
a price of the book, and is registered and charged to one user, is known only from the
preflight it passed, so `InFlightOK` carries that through the loop. `BookConsistent`
adds that the index covers the levels, once per order; a fill needs it because
`AfterFill` must leave a positive quantity or no order. `NotCrossed` needs
`BookConsistent`: the loop stops when the best level is empty *or* does not cross, and
only a book without empty levels turns that into "nothing crosses"
(`RestBookInv`), which is when the order may rest. `SharesSolvent` is inductive
once the free shares (`Sellable`: `shares - reserved_shares`) are compared with what the
order in the loop can still sell: a fill takes as much from the one as from the other,
resting turns the second into a reservation (in `Settle`: until then an order that is
linked counts as one in the loop), and a maker's fill releases exactly what it
sells (`FillShares`, with the self-trade as a case of its own). `PriceTimePriority` then
follows from `BestIsBest` for the only step that appends a trade. `FeedCurrent` needs to
know that while `trades` is empty, or the order is linked, the feed shows the book
(`FeedInv`), for a call that neither traded nor rests anything does not notify. `NoOvertaking` is
a property of each step, from what unlinking and appending do to one level; that an id
which joins was not there before comes from `InFlightOK`.

*Cash and open orders.* `CashSolvent` and `OpenRests` speak of steps, and so need
no invariant of their own beyond those above (and `Submitted`, that an order in the loop
asked for something). For the first, each action leaves a user's spendable cash at least 0
or no smaller (`NotDeeper`): a fill within a limit costs at most what was promised for
that quantity (`WithinLimit`), what a maker pays was reserved, an order is promised
no more than it has unless one of the two amounts of the preflight does not fit
(`PreflightWrapped`), resting turns a promise into
a reservation of the same amount, and a cancellation only frees cash. For the second, an
order that loses its place in the book does so in a step that writes `Filled` or
`Canceled` for it, every other order of that level stays linked (`StillLinked`), and an
order whose loop ended is filled, rests, or is a market order.

*Sums.* What is left speaks of sums over orders, trades, journal lines, users and prices.
The model sums with the community modules' folds, recursive functions of which the
provers know only the defining equation; that a sum exists, does not depend on the order
of its terms (`SumUnique`, `SumUnfolds`) and changes by what is added, removed or replaced
(`SumInsert`, `SumTakeOut`, `SumUpdate`, `SumAppend`) is proved in `FoldProofs`. The
induction principles of the library take an operator as a parameter, which none of the
provers can instantiate, so these proofs take a smallest set, or number, for which the
claim fails (`SmallestSet`, `LeastNat`).

*Reservations.* A book is seen as its set of orders (`RestingOrders`). Every step takes one
order out of it, puts one in, or both (`FillOrders`, `RestOrders`, `CancelOpenOrders`),
and the reservation of that order's owner changes by exactly its amount, in the same step
or in the next one of that operation. `Secured` is the set of orders for which it has not
changed yet or has already: the resting ones without the one just linked, and with the one
just unlinked. That the user the code charges (`UserOf`) is the user the order carries is
`OwnersAgree` (and `WithdrawnAgrees`); that no other order has the same id is `BookConsistent`.

*Accounts and journals.* Between two operations totals match the tape; during one they
match `tape \o trades`, the tape with the batch that is not emitted yet, and this is
inductive (`AccountsInv`), for all users outside `wiped`; the sums over all users hold
as long as `wiped` is empty. The same holds of the lines of `orders.jsonl`, except that the
taker's own line is written after its loop: `JournalInv` adds what the loop has traded and
not journaled (`Unjournaled`), that the journal of the order in the loop is its `NEW` line
alone, and that of every order the first line is what its later ones add up to.

*DepthBook.* An order is one step of DepthBook and many of the engine. `SweepInv` says in
the middle of the loop what it has done so far: the quantities it has taken at each price,
and what it still asks for, add up to what it asked for; and where it has taken
something, it accepts the price and no better level is left. When the loop ends, nothing is
left at any price it accepts or nothing is left of it. So what it took at a price is what
DepthBook lets it take there (`TakenIs`: everything there was, or what the better prices
have left of the order), and what it did not find is what it has left (`RestIs`). `Fill`
moves a quantity from the book to what was taken and is a stutter; `Rest` and `Complete` are
`Submit` (`EndDepth`), `Settle` and `CancelDone` leave the book alone,
`CancelOpen` is `Withdraw` (`StandingRemove`: its price loses that order's quantity and
nothing else), `CancelDangling` is `Break`.

*The threads.* Each handler step is an engine step or leaves the engine alone, so the
refinement is direct and carries every theorem about the engine over. That a
drawn id is unused needs more than that it is below `next_id_`: those already given to the
engine and those in other threads' hands have to differ from it (`IdsInvariant`). That a
stale owner lookup is harmless rests on two facts that no single function shows: an id,
once registered, never changes its owner (an id is registered once, because drawn ids are unused),
and the owner carried by the resting order agrees with the table (`OwnersAlwaysAgree`).

*The WebSocket server.* That a client is current when nobody operates on the book needs to
be said for the moments when somebody does: a client that has been sent a book has been
sent the newest, or a broadcast still owes it one (`FeedOK`, `OwedBy`: the iterator has not
passed it, or a second message is to follow). This needs that a broadcast sends the book
of its own version (`BroadcastOK`), which holds because it has `book_mtx`, which needs
`MutexOK`; that a client cannot leave the list, by its handler or by another thread's
failed write, and stay connected (`LinkOK`); and that its handler cannot send before the
acceptor has sent both snapshots, which is where `pc` of one thread restricts another's.
`SockOK` orders what is on its way to one client: no kind goes back, and whatever follows a
book is no newer than some book before it, so an answer (`LetterOK`) cannot overtake the
book it speaks of. `ListedIsOwned` has to be part of it: only an owner, the handler or the
acceptor, moves a client's `pc`.

*Seeding.* Bids lie in `best_bid - i + {0, 1}` and so never above
`mid - spread / 2 + 1`, asks never below `mid + spread / 2`; with a spread of 2 or more
these do not meet. The invariant also keeps ids below `next_id`, quantities of what is
left for a level, and a counter that shows the last id.

*User ids.* That two draws differ needs that everything drawn, told or
listed is below `next_id_` (`NextIdIsFree`), and this needs that a thread past the
compare-exchange loop has `next_id_` behind its id: `SessionTypeOK` keeps
`expected <= uid` while a thread is in the loop, so a claim only ever raises `next_id_`,
which is also `NextIdMonotone`. A position is reset by `Create` only; the id of a thread on its way
there is not in `users.jsonl` yet, and so is no session's, unless it is one of an earlier
server (`KeptInv`: ids of sessions, and those being claimed, are logged or stored).

*Toggles.* `ToggleInv` says what `running_` and both threads are at each point of the one
toggle under way (`Progress`) and when there is none (`Settled`). `Serial` is an assumption
on behaviours and not a fact about the code, as the run TwoTogglers shows.

*Quotes.* Everything said of a tick rests on bids below asks (`Apart`, in `BotInv`), which
each order keeps: what is left of it rests only where it found nothing (`ExecutedApart`).
Given that, a price is passive because it is computed from the best ones of the same
critical section (`QuotesPassive`, `ReversionQuote`, `SniperQuote`), so the order takes
nothing (`PassiveAdds`), and of two orders of one tick the second still finds the book
apart. The arithmetic (halves of a spread, floors and clamps) is done in these lemmas, once per
bot. That a market order finds what it asks for (`TakesWhatItFinds`) is a sum over prices.

*Files.* `LossInv` counts: in the run that is up, every maker's line in `orders.jsonl` has
its trade in `trades.jsonl` or still in `trades` (`Balanced`), and only the batch in
progress has any waiting. So when the server dies only that batch can lack trades, its
taker's line is not written yet, and its number is the largest of that run (`LeftBy`), which
no later run changes as its lines carry another `ts` (`EndedRuns`).

*Readers.* A reader of a file is a fold over its lines. The provers know of a fold that it
is *some* function with a recursive equation, if there is one; `FoldExists` shows there is,
and then what a reader has after k lines is what it makes of line k and of what it had
before (`ReadLastUnfolds`, `MergedUnfolds`, `GroupsUnfold`), about which `UpTo` allows an
induction over k. `LastOf` says what the bounded buffer holds: the wanted lines, in the
order of the file, without a gap at the end. `UserTradesComplete` follows as lines are in
the order in which trades happened (`TapeOrdered`). `IsCut` says what the groups are:
stretches of one batch each, and where one ends another batch begins. That such a
stretch is one order needs an invariant of the file (`LinesInOrder`): a line follows on the
one before it, or opens a batch whose number is another one, unless both are the first of
their runs. The page sorts a group by `seq`, which puts the newest-first answer right
(`BySeqReverses`).

*The page.* `OneConnection` counts; what is inductive (`PageInv`) says which one it is: a
timer and no live socket, or no timer and one live socket, the one `wsRef` names; and that a
socket which is connecting or open still has its handlers. `HeldInv` says that all trades
the page has, or is being sent, are in `trades.jsonl`, where a `trade_id` and a `ts` together
name one trade (`TradesDistinct` of `LossInv`, which `PageImplementsJournals` makes
available). So the merge leaves out nothing but what is already there (`MergeTape`), and
`TradesStay` holds of every step.

What is only model-checked is liveness, out of the prover's reach (`RequestsAnswered`,
`OperationsFinish`, `FeedConverges`, `LiquidityReturns`, `TogglesReturn`, `RequestsSettle`,
`FeedRecovers`), and that no run deadlocks, which needs ENABLED. Every safety property
the passing runs check is stated by a theorem.

## Not modelled

* Benchmarks, the TCP client and the two echo servers: measurement and demonstration, no
  state of the exchange.
* `GET /book`, `/orders`, `/user/orders`, `/user/position`, `/users`: they copy state and
  change nothing. `/benchmark` runs another program. Routing, JSON, `book_serializer.cpp`:
  text.
* `WsServer::stop()`, which runs when the process ends; the bots' `start` and `stop`, which
  `main` never calls.
* `ws_trade_sink.cpp` and the page's `UserProvider`, which nothing uses; hooks that poll and
  replace what they show, views and styling.
* The pool allocator, except that a node may be reused; latency, throughput and the
  clock's granularity below one run.
* In WsServer: that `std::thread` fails after a client was listed (the `catch` in
  `accept_loop`), that a handler ends by an exception of the parser, and operations before
  `set_on_change` at start-up, when nobody is connected. WsLiveness has one operation, so that
  two contend for `book_mtx` in WsFeed only, whose deadlock check and invariants see that.
* That a Beast stream is read and written by two threads at once: its outcome is not
  described by anything in this code.

## Plan

Done: the engine and its threads with their theorems, DepthBook and the proof that they
implement it, the seeded book, user ids, the WebSocket server, the maker and the bots, the
journals over restarts and what their readers make of them, the page and its tape; every
safety property that is checked is also proved.

What would add most next, in this order:

1. Integers of a fixed width in UserSessions (`uid + 1`) and in the bots' mid price.
2. WsServer over HttpHandlers instead of over a count of changes, with instances small enough.
3. That a request of the page is settled by its own answer and once, as an invariant of
   `asked` and `wire`; so far only that it is settled (`RequestsSettle`).
