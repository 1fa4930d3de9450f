# A TLA+ model of exchange-cpp-client

The repository is the client side of a trading exchange: a C++ library of a
websocket client, books and accounts, and programs built on it (market makers,
trading strategies, a stress tester, displayers). The exchange is not in it.
This directory holds TLA+ modules that model the library and the stateful
parts of the programs, TLC configurations that check them on small instances,
and proofs, checked by TLAPS, of what holds for every value of the constants.

Source paths below are relative to the root of the repository.

## 1. Inventory

### Library

| Component | State | Operations | What is hard about it | What makes it correct |
|---|---|---|---|---|
| **Shared market data**, `include/SharedMarketData.hpp` | `sequence`, `curr_price`, `last_price` in POSIX shared memory | `update_price` (one writer, the timer of `mm-native`), `read_price` (threads of `stra-insider`) | two processes without a lock; the writer may be killed between any two stores | a read is one update's pair, never an older one than the last, and the spin ends |
| **Websocket client**, `src/SimpleWSClient.cpp` | `write_queue_`, `writing_`, the `io_context` and its thread, the read in progress | `connect`, `run_async`, `send`, `send_text`, `stop`, the posted handler and the completion handlers | any thread sends, one thread runs handlers; errors and pings in between | one write at a time, in the order of the calls, no stall, the thread ends |
| **Client account**, `include/ClientAccount.hpp` | `positions_`, `open_orders_` | `handle_order_response`, `handle_position_response`, `clear`, getters; each locks `mtx_` | responses for orders it does or does not know; an absolute position after fills | equal to the exchange's account but for what is on its way |
| **Trading client**, `src/AlgoTradingClient.cpp` | `ready_`, `next_id_`, three websocket clients, the timer | `run`, `new_order`, `replace_order`, `cancel_order`, `send_order_request`, `query_position`, `wait_until_ready` | handlers on io threads, strategy on several threads, restarts, HTTP errors | ids name one request; ready means the replay is applied; no lost wake-up |
| **L3 book**, `include/L3Book.hpp` | `orders_` (id to order and iterator), two maps from price to list | `update`, `remove_from_queues`, `clear`, `display` | two structures that refer to each other through iterators; over-long fills, replacements that move an order | every order in exactly one queue, at its side and price, and no empty level |
| **L2 book**, `include/L2Book.hpp` | total per side and price | `update`, `display` | none alone; with the feed, snapshots and restarts | the depth of the L3 book |
| **Schema**, `fbs/order.fbs`, `include/define.hpp` | none | generated encoding | | |
| **Display, logging, CSV**, `include/DisplayUtil.hpp`, `include/LogUtil.hpp`, `src/csv_util.cpp` | none | formatting, parsing | | |

### Programs

| Component | State beyond the library's | What is hard about it | What makes it correct |
|---|---|---|---|
| **mm-native** | random walk, the shared segment | keeps 12 orders a side by an account that lags; segment replaced at a restart | the orders that pile up are bounded; readers see the current segment |
| **mm-advanced** | best bid and ask, micro price, flow averages, markouts, `state_mtx_` | cancels and quotes by a lagging account, each 50 ms, from two feeds that lag each other | at most a bounded number of quotes; all sends under the mutex; a micro price inside the spread |
| **stra-insider** | the mapped price | sends from two threads without a mutex; position limit on a lagging account | unique ids; the limit is passed by a bounded amount |
| **stra-noise** | `closing_`, take-profit and stop-loss around its position | acts on a take-profit that is not listed yet or is filled | exits close the position and do not reverse it |
| **stress-trader** | `request_send_times_`, accumulators, step counters, clocks; four threads | two mutexes and some unlocked counters; late responses; a dead server | every sample in one row, the test ends, the interval adapts |
| **L3Displayer, L2Displayer** | a book | join late, restart | the book shown is the exchange's |
| **AccountMonitor** | `needs_display_` | a response between the display and the reset of the flag, or between the change of the account and the raise of the flag | the last state is shown |
| **CSVSender, http_sender, StdoutClient** | position in a file, or none | mapping of ids of the file to ids sent | |
| **run_agents, kill_agents, Makefile** | | restarts `mm-advanced`, `mm-native` and `stra-noise` when they end (the insider and the stress tester are not restarted) | |

### How they interact

Each agent derives from `AlgoTradingClient`, which owns three `SimpleWSClient`s,
one for management and one each for the L2 and the L3 feed. A `SimpleWSClient` calls back on
its io thread: a response goes to `ClientAccount` and then to the agent's
`on_order_response`; a market data message goes to `on_l2_update` or
`on_l3_update`. The main thread calls `on_timer`. Both kinds of thread may
send, by websocket or by HTTP. `mm-native` and `stra-insider` share a price
through shared memory. Everything else passes through the exchange.

What the agents share is the lag: a request travels to the exchange, its answer
travels back, and every decision in between is made on an account that does not
have it yet. No agent waits for the answer to what it sent.

## 2. Modules

| Module | Models | Uses |
|---|---|---|
| `SharedMarketData` | the sequence lock, one action per access to a shared word | |
| `L3Book` | `update()` of the L3 book as an operator `Apply` on a book, and the book under any stream of updates | |
| `L2Book` | `update()` of the L2 book, an operator | |
| `MarketFeed` | an exchange with an L3 and an L2 subscriber, streams, lag, restarts, snapshots | `L3Book`, `L2Book` |
| `Microstructure` | the advanced market maker's signals from the L2 feed of an exchange whose book never crosses | `MarketFeed` |
| `OrderedChannel` | abstract: what a user of the websocket client relies on | |
| `SimpleWSClient` | the websocket client, its io thread, ping answers, errors | implements `OrderedChannel` |
| `OpenOrders` | the vector `open_orders_`: `find_if`, update or `push_back`, `erase` | |
| `ClientAccount` | the account and each public operation, and the account under any responses (`AccountSpec`) | `OpenOrders` |
| `TradingSession` | login, replay, responses, `ready_`, break and restart of an agent, with the exchange's account | `ClientAccount` |
| `AlgoTradingClient` | request ids, mutex, threads, websocket and HTTP sending, restarts | |
| `OrderFlow` | what the agents have in common: requests and responses in two queues, the exchange between them, the account behind them | `ClientAccount` |
| `MMNative`, `MMAdvanced`, `Insider`, `NoiseTrader`, `AccountMonitor` | each agent's handlers and timer: what it reads, when, and what it sends | `OrderFlow` |
| `Agents` | one of these agents with the exchange, and what it may do to its client's orders and position | the six above |
| `StressTrader` | the stress, reader and timer threads of the stress tester | |
| `FoldFacts` | no code: what the folds of the community modules compute, with proofs | `OpenOrders` |
| `SharedMarketDataProofs`, `SimpleWSClientProofs`, `AlgoTradingClientProofs`, `StressTraderProofs`, `AgentsProofs` | theorems of the modules so named | `AgentsProofs`: `FoldFacts` |
| `MarketDataProofs` | theorems of `L3Book`, `MarketFeed` with `L2Book`, and `Microstructure` | `FoldFacts` |
| `TradingSessionProofs` | theorems of `ClientAccount` and `TradingSession` | `FoldFacts` |
| `MC...` | the instances for TLC; each says why its bounds are enough | |

Definitions keep the names of the code in the model's style (`OnL3Update` for
`on_l3_update`, `writing` for `writing_`). Operators whose name says what is
wrong with them and whose comment begins with "Mutant:" are plausible bugs,
kept next to what they spoil; no specification uses them. They serve to show
that the properties notice the bug.

### How state and actions correspond to the code

* **SharedMarketData.** The three shared words are variables of the same
  names; `wpc`/`rpc` say which access each thread makes next. `LoadSequence`
  to `StoreEven` are the five accesses of `update_price`, `LoadSeq1` to `Test`
  those of `read_price`. `seq2` and the outputs start with any value
  (`Seq2Values`, `Garbage`), as the C++ locals are uninitialised. `published`
  is a history variable. Steps are in program order, which g++ on x86-64 keeps
  for these accesses (the comment at the head of the module).
* **L3Book.** `book.orders` is `orders_` without the iterators, `book.queues`
  the two `std::map`s of lists. That an iterator points at the order's node is
  not assumed: the code erases through the iterator, and `Consistent` is what
  makes this well defined.
* **MarketFeed.** A subscriber's stream is a sequence of messages;
  `OnL3Update` and `OnL2Update` are the displayers' handlers. `Publish` is the
  external exchange.
* **SimpleWSClient.** `posted` are handlers in the `io_context`, `queue` is
  `write_queue_`, `writes` are `async_write`s in progress. `DoWrite` is
  `do_write`, `RunPosted` the lambda of `send_internal`, `WriteDone` and
  `WriteFailed` the completion handler, `ReadFailed` the error branch of
  `read_loop`. A frame can be `Damaged`: `do_write` passes a buffer over a
  local string, Beast normally copies it into its frame at once, but not if the
  read is just answering a ping.
* **ClientAccount, TradingSession.** Each public operation of the account
  holds `mtx_` throughout and is one step. `PositionsOnce` and `OpenOrdersOnce`
  are what a message makes of the positions and of the open orders. `wire` is what is on its way to the
  agent. `OnComplete` and `NotifyAll` are separate, since `notify_all` runs
  after the lock is released. `WaitUntilReady` tests and sleeps in one step, as
  a `condition_variable` does.
* **AlgoTradingClient.** `next_id_++` is `Load` and `Store`. `Guarded` are the
  clients whose strategy holds one mutex while it sends.
* **Microstructure.** `signals` are `best_bid_p_` to `best_ask_q_`;
  `SignalsAfter` is `update_microstructure_signals` with its early return,
  `WouldTake` and `WouldPull` are what `opportunistic_take` and
  `fast_cancel_protection` ask of the micro price, multiplied out, without the
  imbalance and the toxicity they ask for too: what these conditions never
  allow, the code never does.
* **OrderFlow.** `Send` is the calls of `new_limit_order`,
  `new_market_order`, `replace_order` and `cancel_order` that a pass makes; `Apply`
  is the response handler. Comparisons of prices become a choice (`fate`: keep, replace
  or cancel), so that the model has every outcome they can have. `read` says
  where a thread is in a pass of several steps, and what it has read.
  `legacy` is what the process before left: any open orders and any positions.
  They are at the exchange from the start, and the login replay puts them on the
  wire. `next_id` starts at 1 whatever was left, as `next_id_` does at 1000001, so
  new orders take the ids of open ones, which the exchange refuses, and changes
  may name an order whose id is by then another's.
  `stale` counts how often something was sent on an account out of date (by the
  insider, each order; by the others, each pass), and `slipped` notes an order
  filled while its cancellation was on its way.
* **The agents.** `ManageOrders` is a tick of `mm-native`; `ManageQuotes` one of
  `mm-advanced`, `FastCancelProtection` its answer to an L2 update. Both read the open
  orders once, and send under a mutex or in the only thread that sends: a pass is one step. The insider's two
  threads hold none, and each read and each send of `execute_strategy` is a
  step of its own for each of them: `ReadFirst` the position, then `Snipe` a market order on it,
  or `CopyOrders`, `MoveOrder` for each of them, and for either side `CheckQuote`
  and, when it asks for one, `SendQuote`. `ReadPosition` and `Tick` are a
  tick of `stra-noise`, between which responses are applied, at most one of
  them a fill, as the next has to wait for `strategy_mtx_`. `DisplayCash` to
  `LowerFlag` are the timer of the account monitor; its io thread changes the
  account (`Handle`) and then, in another step of `OnMonitorResponse`, raises `needs_display_`.
* **StressTrader.** Each critical section is an action; the counters read
  outside a lock are read where the code reads them. Times are ages in ticks.

### What is external

Modelled from how this code uses it: the exchange (`TradingSession`,
`MarketFeed`, `OrderFlow`, the answers in `StressTrader`, the snapshots at a subscription),
Boost.Beast and the connection (`WriteDone`, pings, `LoseConnection`). In
particular: a fill message carries the quantity of that fill
(so says `fbs/order.fbs:96` of the L3 feed, and the account books responses this way), a subscription is answered with a snapshot or a replay
that ends with `Complete`, and a stream is delivered in order. If the exchange
does otherwise, `L3InStep`, `FeedsAgree`, `AccountInStep` and
`ReadyMeansReplayed` say nothing. `Agents` relies on requests being taken in
the order sent, on a market order that fills what it can and is gone, and on
the orders of a client outliving its process; `Microstructure` on bids below
asks, and on a replaced order leaving its old level before it joins the new.
The exchange of `Agents` refuses a change of an order that is gone and a new
order under the id of an open one of the same client: `fbs/order.fbs:6` has the
reject code `DuplicateOrderID`. The ids of orders that are gone may be used again.

## 3. What the runs show

| Run | Properties | States | Bounds |
|---|---|---|---|
| `shm_price` | `TypeOK`, `EvenReadIsSnapshot`, `ReadersMoveForward`, `ReadReturns` | 53,000 | one reader, two prices, three updates |
| `market_feed` | `TypeOK`, `Consistent`, `L3InStep`, `FeedsAgree`, `MicroPriceInSpread`, `AnyStreamUndisturbed`, `MessagesDisturbNobody` | 1,215,000 | displayers: two orders, two prices, two messages behind; market maker: three orders, three prices; any stream: three orders, three prices; quantities 1 and 2 |
| `ws_client` | `TypeOK`, `OneWriteAtATime`, `QueueIsServed`, `FramesInOrder`, `IsOrderedChannel`, `ThreadEnds` | 2,000 | four messages |
| `session` | `AccountTypeOK`, `UniqueOpenOrders`, `AccountInStep`, `ReadyMeansReplayed`, `NoLostWakeup`, `WaiterReturns` | 114,000 | two orders, three events, two responses beyond the replay |
| `request_ids` | `TypeOK`, `IdsAscend` | 221,000 | a guarded client of two threads, three ids, one restart |
| `agents` | `TypeOK`, `AccountFollows`, `PileUpBounded`, `InventoryBound`, `ExitsWithinPosition`, `ScreenIsCurrent` | 1,287,000 | one send on an account out of date; up to four new orders, four requests and three responses on their way, the replay apart; nothing left by an earlier process, or one or two orders and a position |
| `stress_trader` | `TypeOK`, `EverySampleInOneRow`, `DeadServerEndsTest` | 460,000 | two requests, one response on the wire, step of two ticks |

Why the bounds are enough:

* `shm_price`: readers write nothing shared, so one shows what any number
  does. With three updates the writer can overtake the reader by one or two at
  each access, and prices can repeat. `Seq2Values` has every value the sequence
  takes and one it never does. The theorems lift the bounds.
* `market_feed`: the variable `readers`, which never changes, says which of
  three systems a behaviour is of. *Any stream*: a level can hold an order
  before, at and after the one an update names; a fill can be smaller than,
  equal to or larger than what is left; all updates are allowed at any time,
  those no exchange would send included. *Displayers*: orders alone at a level,
  together, and moved; a subscriber behind on an order that has come, changed
  and gone. *Market maker*: two levels on one side with one or none on the
  other, at prices further apart than the two ticks of the code's conditions.
  Its book takes the same values however far it is behind, so its lag is 1.
* `ws_client`: one message being written, two queued, one posted.
* `session`: an order can be accepted, partly filled, and filled, replaced or
  cancelled around a login that replays it.
* `request_ids`: two threads contend for the mutex, requests of both kinds are
  made, fail by HTTP and follow a restart in any phase.
* `agents`: a pass on an account that is out of date, and then another that is
  not, for each agent. The constants of the code are scaled down (`Target` 2
  for 12, `PassiveQty` 2 and `SnipeQty` 1 for 20 and 10, `MaxPos` 1 for 500).
  The process before left nothing, or orders under the ids that the new process takes
  first, with or without a position; the noise trader's were an exit from its position or
  an entry on top of it. `mm-native` may ask for two orders twice, so that it reaches its
  bound; the insider has room for a quote and a market order of either thread.
  The exchange answers when the replay has shrunk to the same bound; the
  theorems have no such bounds.
  Sides are alike, so the native maker's orders and the insider's quotes are
  kept to purchases; its market orders, the noise trader, the advanced market
  maker and the monitor have both. The code draws a quantity for each order; the
  model may choose another for each (`NativeQtys`), and the run has one, since no
  property of `mm-native` depends on it. Ids run out, so deadlock is not checked.
* `stress_trader`: a response can be handled before its send time is noted,
  while a row is taken, after a step without samples, or never. The step and
  the silence are both two ticks, as both are 10 s in the code.

What the properties of the books say:

* `AnyStreamUndisturbed`: an update, in whatever book it finds, changes no order but
  the one with *its own* id, and no priority among the others, in its queue or in
  any other. Only the message that starts a snapshot, the one of side `None`, is
  excepted. `MessagesDisturbNobody` says the same of the steps of a subscriber.

What the properties of `agents` say, and what they leave open:

* `AccountFollows`: with the messages on their way applied, the account lists the
  client's orders at the exchange, each once and on its side. An agent errs by
  acting early, and in no other way. So it is also after a restart, when the new
  orders take the ids of the old ones: the refusal of the second order of an id
  changes nothing on either side, and an id that was free again names one order at a time.
  It does not say that such an order is the one the agent means: with a refused
  order the agent keeps the old one, and may move or cancel it. Quantities are not
  part of it: after a partial fill the account lists the quantity of the fill
  (`session_open_orders`).
* `PileUpBounded`: the orders of a side exceed what the agent means to have, or what
  the process before left if that is more, by at most one set for each pass made
  too early. For `mm-native` a set is 12 orders, and its first ticks, which do not
  ask `is_ready()`, can be such passes: they run before the replay has told of the orders
  left. The run reaches the bound with each of the three agents.
* `InventoryBound`: the insider's limit is soft. One market order and one quote
  pass it on their own; each order sent on an account out of date, by
  either thread, adds a quote; and each replacement of a partly filled quote, which
  brings it back to 20 without a look at the position, adds what had been filled. An
  account is out of date if the position has changed since the thread read it,
  or will by what is on its way: the two threads share no mutex, so that all that the
  other sends, and its fills, can come between a thread's read and its send. If the
  process starts beyond the limit, or with more than a quote on a side, it is bounded by
  these. Each of the terms is needed: without any of them TLC finds a behaviour that
  passes the bound.
* `ExitsWithinPosition`: the noise trader's exits do not reverse its position,
  provided that what the process before left did not, but for the three cases the property
  names: a tick on an account out of date, an order filled before its cancellation
  arrives, and a tick that sends both exits. Each of these does happen.
  `closing_` is reset only when the position is flat, so a stop-loss that the
  market does not fill leaves a position that no later tick closes: the model has this,
  and no property forbids it.
* `ScreenIsCurrent`: only a response during a display can leave the screen
  behind for longer than the io thread takes from the account to the flag; the next
  response repairs it. In between those two steps the flag is down and the screen behind,
  which the property excepts. It depends on their order: raised first, the
  flag could be lowered by a display of the old account, and TLC finds that.
* `MicroPriceInSpread`: `opportunistic_take` asks for a micro price half a tick
  above the best ask or below the best bid, and the micro price is a mean of
  the two. The branch can never be taken. `fast_cancel_protection` cannot pull a
  quote at a price its own L2 book shows while both sides are shown: it acts on
  quotes that have left the book and are still listed, or on signals that are
  old because a side was empty.

Deadlock is checked except in `ws_client`, where the client stops, in `agents`,
where ids run out, and in the two runs of `StressTrader`, where the process
exits.

Five runs show a property violated that a comment or the schema states:

| Run | Property | What happens |
|---|---|---|
| `shm_atomic_reads` | `ReadsAreAtomic` | `continue` in `read_price` jumps to the loop condition without having loaded `seq2`; if the uninitialised value equals an odd `seq1`, the call returns uninitialised or torn prices, where the comment says "atomic reads" |
| `session_open_orders` | `OpenOrdersAreCurrent` | after a partial fill, the "current open orders" list the order with the quantity of the fill, not what is open |
| `request_ids_race` | `ExecIdsUnique` | two threads of a strategy without a mutex (`stra-insider`) take the same `next_id_`; the schema calls `exec_id` unique on a client |
| `order_ids` | `OrderIdsUnique` | every process counts from 1000001, so a client that is started again uses the `order_id`s of its own earlier orders, some of them open (and two clients use the same ones); "Unique universely" in the schema. `AccountFollows` shows what still holds then |
| `stress_silent_step` | `SilentStepBacksOff` | the test for "no responses were received but we sent orders" compares `sent_count_` with a copy made a moment before, so a silent step shortens the next interval |

`EvenReadIsSnapshot` is the part of `ReadsAreAtomic` that does hold: a read
that returns by the intended path is a snapshot.

Disagreements of `README.stress` with the stress tester that need no run, as each
is a constant or a formula in one place:

* Line 17 promises a rate that climbs to "full throttle (0 us delay)". The
  code keeps the interval at 1 us or more (`stress-trader.cpp:412`).
* Line 15 says that the test starts with a delay of 100 ms; it starts with 1 ms
  (`stress-trader.cpp:430`).
* Line 16 says that each step is 10 % shorter. The code shortens it by at most
  20 %, in proportion to how far the latency is below its target, and makes it longer if
  it is above (`NextInterval`). No part of it looks at the occupancy of the rings,
  as lines 32 to 36 say it does every 10 ms.

### Fairness

* `SharedMarketData`: weak fairness of the writer's steps inside an update and
  of each reader's steps inside a read: a runnable thread gets to run. That the
  timer ticks again, or that a reader calls again, is not assumed. `ReadReturns` excepts a writer
  killed in the middle of an update: the spin has no other way out. Without a
  death the writer makes finitely many updates under the TLC bound, so the run
  does not cover a reader overtaken for ever.
* `SimpleWSClient`: weak fairness of `RunAsync` (`run()` goes there without
  waiting) and of each kind of handler: the `io_context` serves its queue in
  order. That a write and a pong complete (`WriteDone`, `PongDone`) assumes a peer
  that reads what it is sent while the connection is open. Nothing else is assumed of the
  server, and nothing of `Send` or of `Stop`; `ThreadEnds` is about a client whose
  connection has ended and that has made all its sends.
* `TradingSession`: the exchange answers a subscription, and the io thread runs
  its handlers. The connection may break at any time, and `WaiterReturns` says so.
* `StressTrader`: time passes and the three threads run; the server need not
  do anything.

## 4. What is proved

All theorems hold for every value of the constants under the named assumptions
of the modules. The bounds on updates, sends, restarts and orders are constants
too, so they can be taken as large as one likes. Besides assumptions that only
say what kind of thing a constant is, these carry weight:

| Assumption | Why the code justifies it |
|---|---|
| `WidthAssumption` (`MarketFeed`), `SymbolsAssumption` (`TradingSession`): ids, prices and symbols are finitely many | they are 64-bit and 32-bit integers; sums over the levels of a book and over the assets need it |
| `FeedAssumption`: the ids and prices of the feed are among those of the book | a reading aid: the exchange may use fewer than the runs give the book |
| `QtyAssumption`, `QtysAssumption`: quantities are naturals | they are unsigned in the schema |
| `PriceAssumption`: prices are integers | the micro price does arithmetic with them |
| `IdsAreNumbers` (`OrderFlow`): as many ids as orders | ids are counted up from a first one |
| `LegacyAssumption` (`OrderFlow`): an earlier process may have left any finite number of orders, under any ids, and any positions | an order has one of two sides, and the exchange rejects an order for nothing |
| `ClientAssumption`: a client has a symbol and a thread, its symbols are finitely many, and cash is none of them | "Symbol 0 is cash" (`ClientAccount.hpp:98`) |
| `NativeAssumption`, `AdvancedAssumption`, `InsiderAssumption`, `NoiseAssumption`: the quantities sent, and the orders `mm-native` keeps a side, are at least 1 | they are such constants in the code, and the random quantities start at 1 |
| `InsiderAssumption`: a market order asks for no more than a quote | 10 and 20 (`stra-insider.cpp`). `InventoryBound` counts in quotes, and larger ones would break it |
| `0 \notin Qtys`, a hypothesis of `SubscribersAgree` | an order of quantity 0 is a level of the L3 book, and to the L2 book it is the message that the level is gone; whether the exchange would list one is not in this repository |

**SharedMarketDataProofs**: `TypeCorrect`, `SnapshotCorrect`, `MoveForward`.
`EvenReadIsSnapshot` speaks of a reader that has returned, so the inductive
invariant `IInv` must say what it holds on the way: `WriterInv` relates the
writer's position and locals to the sequence, `SegmentInv` says what the two words
hold for the pairs published so far, and `ReaderInv` that a word copied under
an even `seq1` belongs to that version unless the sequence has moved on since.
The proof has two halves: what the writer's steps grant (`History`: the sequence
does not go back, published pairs stay), and that readers rely on no more.

**FoldFacts** is what the next proofs need of folds. `FoldLeft` and
`MapThenSumSet` are defined by recursion inside a community module; here they are
unfolded once into a recursive function, and from it follow the two facts that
matter: an element added at the end of a sequence is applied last, one taken from
its front first; and a sum over a finite set is one element's value and the sum of
the rest. Induction goes through a *set* of naturals (`NatSetInduction`), as the
provers cannot instantiate an operator. The module has an operator as its
CONSTANT, and each proof takes it with `O == INSTANCE FoldFacts WITH Op <- ...`.

**MarketDataProofs**, in four parts.

* The book: `TypeCorrect`, `BookConsistent`, `UpdatesDisturbNobody`. The
  invariant is `Good`: the book is well typed, each queue lists ids of its side
  and price without repetition, each order is in its queue, and no level is
  empty. Each helper of the code (removing from the queues, pushing back,
  erasing, changing a quantity) has a lemma that it keeps `Good` and leaves
  other orders alone; `ApplyKeeps` combines them by exec type.
* An L3 subscriber: `SubscriberInStep`, `SubscriberBook`, `SubscriberUndisturbed`. The
  invariant `FeedInv` says that the stream, applied to the book, gives one that
  `Mirrors` the exchange: the same orders, and in each queue the order of
  arrival. A message published extends the fold at the end, a message applied
  takes it from the front, and a snapshot starts it over from an empty book.
* Two subscribers: `SubscribersAgree`. `L2Inv` says that the L2 stream takes the
  book to the exchange's totals (`Exact`), and which books it passes through on the
  way (`Along`): typed ones, and for the market maker none that crosses, since
  a snapshot lists one side after the other and a moved order leaves before it
  joins. `DepthOfQueue` makes the depth the L3 book shows the exchange's total.
* The signals: `NeverTakes` and `NeverPullsShown` are the arithmetic, for any best
  bid and ask that do not cross. `SignalInv` says that the signals are such a
  pair, also when the book behind them has moved on, and `MicroPriceStays` combines the three.

**SimpleWSClientProofs**: `TypeCorrect`, `OneWrite`, `Served`, `InOrder`,
`RefinesOrderedChannel`. The inductive invariant adds `Line` to the properties: while the
connection is open, the frames written, the write in progress, the queue and
the posted handlers, in that order, are the messages 1 to `sent`. From `Line`
the completion of a write is `Leave` of `OrderedChannel`, and every other step
is `Send`, `End` or a stutter.

**TradingSessionProofs**. `AccountTypeCorrect` and `OrdersListedOnce` are
theorems of `AccountSpec`, the account under *any* sequence of responses. They
rest on what `Find`, `Upsert` and `Erase` do to a list without repetitions. Of the
session's `Spec`:

* `WakeupNotLost`, and `ReadyAfterReplay`: its invariant `SessionInv` adds that
  no part of a replay follows its `Complete` on the wire (`ReplayInOrder`).
* `SessionImplementsAccount`: every step of a session is an operation of
  `ClientAccount` or leaves the account alone, so `SessionAccountCorrect` carries
  the theorems of the account over.
* `AccountNeverDrifts`: while subscribed, the responses on their way take the positions to
  the exchange's balances and the open orders to its live orders (`StepInv`).
  The hard step is the subscription, which puts a status for each asset and each
  live order on the wire at once: applied to an empty account they give exactly these.

**StressTraderProofs**: `StressTypeCorrect`, `SamplesInOneRow`. `TypeOK` alone is
not inductive: that a row has no negative number of sends needs `CountInv`,
which ties `sent_count` to the requests posted, also between a send and its
count. `SamplesInOneRow` follows by looking at each critical section: the response handler is
between its two locks with exactly one sample in hand (`BeingMeasured`).

**AgentsProofs**, about all five agents. A pass of a strategy is a batch of requests decided
on from the account at hand; five kinds of step cover everything (`FlowStep`):
nothing that matters here, the exchange takes a request, a response is applied,
a thread reads, and a pass sends its batch. What the proofs need of a strategy
is that its batch is `Proper` (new orders ask for something; changes name an order
that the agent was told of, on its side) and that it `Fits` (a maker adds no more
than what is missing on the account it reads). Each pass of each agent has a lemma that
it is and does.

* `AgentsTypeCorrect` and `AgentAccountFollows` rest on `FlowInv`: the types
  (`FlowTyped`), and that the wire takes the open orders to the client's orders
  (`StepInv`). It needs nothing about ids. At the start the wire is the replay of any
  legacy, which lists each order once (`ReplayLists`); afterwards the exchange
  opens an order only under an id that it does not list (`Refuse`), and the
  messages it sends change the list as it changes its orders (`Becomes`).
* `PileUp`: `Loaded` bounds the orders of a side, at the exchange and on their way, by
  `Base + Intended * stale`, where `Base` is the larger of `Intended` and what was left.
  The exchange adds nothing, since a limit order moves from the one place to the
  other. A pass that sends on an account out of date adds at most one
  set, and is counted. A pass on an account in step sees, by `StepInv`,
  exactly the orders there are, and fills up what is missing: then the bound is
  `Intended` itself. Before the replay has arrived the account is out of date.
* `InsiderInventory`: a bound on what is held and offered is not inductive by
  itself, as a modification on its way offers nothing yet. `Reach` counts for each of them
  what its order may have traded by then, all but one of the quantity, and `Quoted` the limit
  orders alone. `InsiderInv` bounds both, and says that no replacement asks for more
  than a quote (`Small`) and that a thread about to quote has read a position within
  the limit (`ReadsWithin`). A trade moves its quantity from the offers to the
  balance. A modification sent is counted in `refills`; taken, it leaves `Moving` for at
  most its share of the offers. A send on an account out of date adds at most a
  quote and is counted in `stale`. On an account in step the position a thread has read
  is the balance (`InStep`), however long ago it read it, and nothing new is on its way
  on that side: a quote finds its side empty, and a market order finds at most the
  orders that `Quoted` allows. At the start, `Room` and `Quotes` take in what was left.
* `NoiseExits`: while none of the three exceptions has occurred, and if what was left
  closes the position (`LeftCloses`), *some* side `Closes`: its offers are no more than
  what is held against it (`NoiseInv`). The property follows since the side that
  closes is the one opposite the position, unless the balance is 0. An entry
  starts from a position of 0 with nothing offered on either side, an exit asks
  for the position it read, and a cancellation takes its order out of the offers at once.
* Both follow quantities through the same kinds of step (`Offer`, `Trade`,
  `Moved`), once for every agent: what the exchange does to the balance, with the
  responses on the wire applied, it does to the offers with the opposite sign.
* `ScreenCurrent`: the inductive invariant adds `ShownSoFar`: in each phase of
  a display that no response has overtaken, what has been shown so far is the
  account. Every step of another agent or of the exchange is `Elsewhere`,
  which keeps it. A response that changes the account leaves `raising` set, until the
  flag is up.

**AlgoTradingClientProofs**: `TypeCorrect` (no id below the first one, whatever
races and restarts) and `IdsInOrder`. `IdsAscend` is about requests sent; the
inductive invariant adds: `Exclusive` (in a guarded client a thread that is
in the strategy holds the mutex), `SentBelow` (what the present process has sent is
below `next_id_`), `MakingIsNewest` (a request being made is newer than all of them),
and the types of the request being made.

### Only model-checked

* Liveness: `ReadReturns`, `ThreadEnds`, `WaiterReturns`, `DeadServerEndsTest`,
  and the liveness part of `IsOrderedChannel`. The provers do not handle
  fairness and ENABLED.

## 5. What is not modelled

* Encoding (FlatBuffers), formatting, logging, terminal output, parsing of
  files and of command lines, the failure of `connect` (the program ends).
* The stress tester's monitoring thread (it peeks at rings of another
  repository) and its percentiles.
* Integer widths: positions are `int64_t` and ids `uint64_t` in the code, and
  unbounded here; prices and quantities a client sends are far from the limit.
* A memory model weaker than x86-64, and the data races on `time_point`s
  of the stress tester, whose accesses are taken as atomic.
* Two threads of one insider that take the same id (`request_ids_race`) are
  not part of `Agents`, where a send and the count of ids are one step: its properties
  are about what is sent and when, and `AlgoTradingClient` is about its name.
* The strategies' prices and the numbers they come from (random walks, fair
  values, skews): the agents' models allow every outcome of comparing them.
* `on_l3_update` of `mm-advanced`. It compares a trade with the bid and ask of
  the L2 feed, which has a connection and a thread of its own, so a trade can
  count for the wrong side when either feed is behind, and every trade counts as
  a purchase before the first bid and ask. The sums it enters are decaying
  averages of doubles, which nothing here could tell apart. Its markouts and
  its dashboard feed only the display.
* `CSVSender`: one thread sends the rows of a file through
  `send_order_request` and ignores the responses. A new order gets its id from
  `next_id_`, and a modification or cancellation keeps the id of the file; whether
  these agree depends on the file. `http_sender` and `StdoutClient` keep no state.
* Which segment a reader has mapped: the insider maps once and is never told of
  a new one.

## 6. Plan

The modules planned so far are written, and every safety property that a passing
run checks is a theorem. What is left:

1. That `OrderFlow`'s exchange, restricted to what a session sees, refines the
   events of `TradingSession`.
2. Liveness of the market makers: that the orders converge to the target once
   the responses arrive and the agent ticks on an account that is in step.
