# Verification of the matching system

TLA+ models of the matching engine of this repository and of the parts around
it, the TLC runs that check them on small instances, and proofs checked by
TLAPS.  Paths are relative to `src/`.

## The system

An exchange core in C++.  Clients send fixed-size `order` structs over TCP or
ZMQ; a service puts each complete struct through the instrument's matching
engine; the engine answers by calling back with every order it changed; the
callback goes to the clients, to the market-data books and to the order query
service.

| Component | State | Operations | Talks to |
|---|---|---|---|
| matching engine `matching/inc/matching/engine.hpp`, `matching/order/inc/matching/order.hpp` | `_odr_map`, the bid and ask books, the two stop books, `_id`, `_is_auction`, `_cb_records`, `_mutex` | `handle` (NEW, CANCEL, AMEND, DUMP, INSERT_NEW, INSERT_AMEND), `recovery`, `set_implier` | callback to the service; the impliers' leg engines |
| impliers `matching/inc/matching/implied_*.hpp`, `implier/inc`, `inc/math.hpp` | the leg iterators and the price of the synthetic order | `reset`, `move`, `top_price`, `top_quantity`, `maker_match` | the books of two or three other engines, under their mutexes |
| spin mutex `core/inc/core/spin_mutex.hpp` | one atomic flag | `lock`, `unlock` | the engines of one implied group |
| order stream `matching/order/inc/matching/order_handler.hpp` | a partial struct `buff_`, `rest_` | `handle_stream` | the TCP and ZMQ services |
| TCP service and client `net/tcp_service`, `net/tcp_client`, `matching_tcp_service`, `matching_tcp_client` | sockets, epoll set, send queues | accept, receive, send, close, reconnect | the engine, the market-data service, the order query service |
| ZMQ services `net/zmq_*`, `matching_zmq_service`, `zmq_proxy`, `xpubxsub` | sockets | receive, publish | the engine, the proxies |
| market data `md/src/basic_book.cpp`, `md_book.cpp`, `md_implied_book.cpp`, `md_tcp_service` | the aggregated levels of each side, the previous orders | `handle_odr`, `insert`, `reduce`, snapshots | fed by the engine's callback |
| lock-free queues `rapid_ring/inc/rapid_ring` | a ring of slots and, for each side, `reserve_`, `ready_`, `ready_cache_`, `barrier_[]` | `enqueue`, `try_enqueue`, `dequeue`, `try_dequeue` | the threads of the order query service |
| order query service `odr_query_service/src` | a request buffer per client, a request queue per market, one response queue | cut requests, look up, answer | its own TCP service, the engines' orders |
| Pulsar proxy `pulsar_proxy/src` | `receiveAsyncCalled`, `bPause`, messages under way | receive, acknowledge, send, pause | two Pulsar topics, a TCP client of the engine |

The parts left aside are in the last section.

### What is hard here

A call of `handle` is a chain of loops over stores that hold raw pointers into
one another: `_odr_map` owns the orders, the books and the stop books point
into it, and the order being matched may itself be an element of it.  What goes
wrong goes wrong after several calls: an order is erased while another book
still points to it, a stop that was taken out is left in the second stop book,
an early return skips the unlock.  The tests (`matching_test/src`) send short
scripts and compare the output by eye.  The list of hazards, each at its line,
is in `PROJECT.json`.

### What makes each component correct

- engine: the book is never crossed; fills follow price and then age; the
  books, the stop books and `_odr_map` agree; fill-or-kill is all or nothing;
  a reached stop fires and a waiting one is not lost; each call ends and
  unlocks; the callbacks describe the state of the books.
- impliers: no trade that several books together allow is left open; a fill is
  at the best price there is and covers what the legs are paid; what was
  planned can be traded.
- order stream: whole structs reach the engine, in order, none mixed from the
  bytes of two clients.
- transport: no byte is skipped or repeated within a connection; what is pushed
  leaves the process; a client that is gone is reported and not used again.
- market data: the levels are the sums of the resting orders and of what the
  legs imply, and subscribers have them.
- order query service: an answer goes to the client that asked; none is stuck.
- Pulsar proxy: orders and answers arrive in their order; what a kill or a
  failed send can lose or repeat is known.
- lock-free queues: no element lost, duplicated or reordered, no slot read
  before it is written.

## Modules

| Module | Models |
|---|---|
| `Engine` | `engine.hpp` and `order.hpp` for one instrument without impliers |
| `EngineRecovery` | `Engine` with DUMP, INSERT, kills and restarts |
| `MdFeed` | `Engine` composed with the market-data book behind it: `matching_tcp_service`, `matching_tcp_client`, `md/src/basic_book.cpp` |
| `PriceMath` | `inc/math.hpp` and the impliers of `implier/inc`, as operators |
| `ImpliedMatching` | the matchers of `engine.hpp` over the books of a group of engines with the impliers `implied_*.hpp`; uses `PriceMath` |
| `MdImplied` | `md_book.cpp`, `md_implied_book.cpp`, the feeds and subscribers of `md_tcp_service`; uses `PriceMath` |
| `OrderStream` | `order_handler.hpp` over the connections of a service |
| `TcpClient` | `tcp_client.cpp` and the queue of `matching_tcp_client.cpp` |
| `TcpService` | `tcp_service.cpp` with any owner |
| `OdrQuery` | `odr_query_service.cpp` composed with `TcpService` |
| `RingQueue` | `barrier.hpp`, `ring_buffer.hpp`, `ring_buffer_queue.hpp` |
| `Fifo` | the abstract specification of a queue: a bounded FIFO channel |
| `PulsarProxy` | `pulsar_proxy.cpp` |
| `MCEngine`, `MCRecovery`, `MCMdFeed`, `MCImplied`, `MCMdImplied`, `MCRingQueue`, `MCOdrQuery` | constants, flows of requests and bounds of the TLC runs |
| `Sums` | the sum of a level's quantities, which `MdFeed` and `MdImplied` share |
| `EngineProofs` | theorems about `Engine`, `EngineRecovery` and `MdFeed` and their proofs |
| `ImpliedProofs` | the same for `PriceMath` and `ImpliedMatching` |
| `TransportProofs` | the same for `OrderStream` and `TcpClient` |
| `MdImpliedProofs`, `RingQueueProofs`, `PulsarProxyProofs` | the same for the module in the name |
| `SumProofs` | lemmas on sums over finite sets, and induction, which other proofs cite |
| `OdrQueryProofs` | the same for `TcpService` and `OdrQuery` |

### `Engine`

`handle` runs under `_mutex` from the lock to the unlock, so calls of several
threads do not interleave; the states between its steps are still of interest,
since the loops inside depend on each other's effects.  One action is one
iteration of a loop or one straight piece of a handler; `pc` says where the
call is.

| State | Code |
|---|---|
| `odrMap` | `_odr_map`, a partial function from ids to orders |
| `book`, `stopBook` | the `bid_book_type`, `ask_book_type` and stop books: a map of price levels to maps of ids is the set of its `<<price, id>>` pairs, iteration order is `Ahead` |
| `nextId`, `isAuction`, `cbRecords`, `mutex` | `_id`, `_is_auction`, `_cb_records`, `_mutex` |
| `emitted` | the orders given to `_callback` by the last step |
| `o` | the `order&` argument, which the handlers change in place |
| `taker`, `mside` | which order a matcher works for, and on which side |
| `sweep`, `due` | the running `trigger_*_stop` and its `odr_list` |
| `left`, `plan` | `remain_quantity` and `records` of `fok_match` |
| `corrupt` | the code has dereferenced `end()` or freed an order something still points to; the model stops there |

| Actions | Code |
|---|---|
| `Handle`, `HandleAuctionStop`, `FlushAuction`, `Unlock` | `engine::handle` |
| `RejectNew`, `NewBuySell`, `NewBuyStop`, `NewSellStop`, `NewBuySellStop`, `MatchReturn` | `handle_new` |
| `MatchTop`, `MatchDone`, `CancelMakerOnly`, `CancelRemainder`, `CancelMarket`, `RestRemainder`, `RestRepriced` | `matcher::normal_match` |
| `FokCollect`, `FokKill`, `FokFill`, `FokDone` | `matcher::fok_match` and `matcher::match` |
| `SweepStops`, `FireStop`, `FireReturn`, `SweepReturn` | `trigger_buy_stop`, `trigger_sell_stop` |
| `CancelUnknown`, `CancelParked`, `CancelResting`, `EraseCanceled` | `handle_cancel` |
| `RejectAmend`, `AmendInPlace`, `AmendReplace` | `handle_amend` |

Abstractions: account, market and timestamp fields, which the engine only
copies, are left out; prices are integers whose two sentinels are constants,
one above and one below every price; quantities do not overflow.  A
call starts with any request of `NewRequests`, with any of `AmendRequests` for an
order in `_odr_map`, one that has left it or one that was never there, or with a
cancel of such an id.  `_id` numbers orders and fills alike, as in the code; the requests are
not limited in `Engine`, so the proofs hold for any number of calls.  A side
outside the enumeration (`REJECT_UNKNOW_ORDER_ACTION`) is not sent.

### `EngineRecovery`

`EXTENDS Engine`.  `Dump` and `Insert` are the DUMP and INSERT branches of
`handle`; a client keeps what DUMP reports (`saved`) and gives it to the next
process in any order (`pending`), while other clients already send requests.
`Restart` is a kill at any step, also inside a call and after undefined
behaviour.  `_id` starts from the clock (`matching/src/engine.cpp`), so that ids
go on rising.  `snap`, `restored`, `early` and `fresh` are history variables for
the properties.

### `MdFeed`

`EXTENDS Engine`: a step of the engine appends what it passes to `_callback` to
`wire`, the TCP connection to the market-data service.  `Connect` is
`on_connect` of `matching_tcp_service`, which sends `engine::recovery`: all of
`_odr_map` in the order of an unordered map; it runs in the thread of the
engine, so between calls.  `Cut` breaks the connection and loses the wire; the
market-data book keeps its content, as the code sets no handler for that.
`Receive` is `basic_book::handle_odr`: `mdOrders` is `orders`, of which only
`remain_quantity` is ever read, `mdBook` is `bid` and `ask`, quantities wrap at
`QuantityModulus` (2^64 in the code), and `mdCorrupt` stands for the
dereference of a level that `find` did not find.  `misled` is history: a reject
has ended an order that the book counted.

### `PriceMath`, `ImpliedMatching`

`PriceMath` has `round_down`, `round_up`, the commission and the prices of the
impliers with the remainder and the quotient of C++, which go toward zero.  The
doubles of the repo impliers are taken as exact.  In `ImpliedMatching` all
engines of a group share one set of resting orders; a call picks the better of
the best local order and the implied one (`Top`), moves an implied price behind
the best order of the taker's own side, and trades the two legs together
(`MatchTop`, the step of `normal_match`), or plans first (`fok_match`, whose
iterators remember what is planned: `Open`) and then trades its records.  One
iteration of a loop is a step.  A group runs in one thread and a side has at
most one implier, as in every program of the repository and every configuration
beside it, so the mutex set of `set_implier` is not state of the model.

### `MdImplied`

An order of the instrument or of a leg opens, changes and ends (`Open`,
`Change`); each such step is one message of one feed with all the handler does:
the book of the leg or `outright` changes, implied levels are computed anew
where the code does so, and every level that changed goes to the subscriber.
The feeds are independent connections, so that any interleaving happens.  The
loop of `handle_implied`, which consumes two legs side by side, is the set of
pairs of levels whose places in their legs overlap (`Pairs`, `From`, `Until`);
of pairs with one price the last one is kept (`LastPair`).  Quantities wrap at
`QuantityModulus`.

### `TcpClient`, `TcpService`

`TcpClient` has the states of `_sta`, the nodes of `_buffer` and the queue
before it.  A byte is its number.  The socket calls may do what sockets do: a
connect is refused at once, pending or done; a `::send` takes any part of what
it is given and then blocks or fails.  `TcpService` models the heap, since what
matters is which address is in `_clients`, in a loop over it or in a request
when an object is deleted; `owner` is what its owner may call between two
`run()`s.

### `OdrQuery`

The service thread takes the bytes of a client (`batch` is the running message
callback), puts requests into the queue of their market or answers with an
error, and sends one response after each `run()`; a thread for each market
answers.  Both queues are the channels that `RingQueue` is shown to implement.

### `RingQueue`, `Fifo`

A call is a chain of steps, one for each access of a shared field: reserve,
look at `ready_cache_`, load `ready_`, walk the entries of `barrier_[]`,
compare-exchange, copy, set.  `use` fixes which barriers the two sides have.
`ready_cache_` is not atomic: a thread that reads it again sees the field or its
own last value, as the build may compile it.  Atomics are sequentially
consistent, as x86 makes them for this code, and a compare-exchange does not
fail spuriously.  `QueueIsFifo` is `Fifo`'s specification under the mapping that
takes what was copied and not yet taken, in the order of positions, as the
channel.

### `PulsarProxy`

The main loop, `cb_recv` in two steps (acknowledge; send and reset the flag),
`cb_send` with its retry, the pause signal, and a kill at any step after which
the broker delivers again what it has no acknowledgement of.  The broker is
external.

### `OrderStream`

A byte is a client and a place in its stream, so a delivered struct shows what
it was made of.  `Recv` is one `recv` of any length, `FillBuff`, `DeliverWhole`
and `SaveRest` are the three parts of `order_handler::handle`.  All clients
share one handler (`matching_tcp_service.cpp:21`).  A connection breaks with
`close` (`Break`: the next one starts with a whole struct) or inside `send`
(`BreakInSend`: the tail that was not sent goes out first on the next one).
`arrived` and `interrupted` are history variables for the properties.

## Runs

Several flows of requests, uses or instruments of one module are one run: a
variable that never changes (`flow`, `use`, `alone`, `group`, `instrument`)
chooses among them in the initial state.

| Run | Instance | Checks |
|---|---|---|
| `engine` | flow *limit*: every time condition but AUCTION, limit and market, 2 prices, 2 quantities, amends, 3 orders; flow *stop*: resting orders, one-sided stops that end in four ways, bad requests, amends of stops, 3 orders; flow *auction*: repo prices of both signs, stops, auction orders, an auction stop, 4 orders | `TypeOK`, `LInv`, `BooksPointToLiveOrders`, `NeverCrossed`, `FokAllOrNothing`, `StopsLeftBehind`, `HeldOnlyInCall`, `FillsFollowPriority`, `CorruptOnlyByEndedStop`, `AuctionPaysMakers` |
| `auction_band` | flow *auction* | `AuctionWithinBand`, which is violated |
| `recovery` | flows *restart* (one-sided stops) and *restart_both* (a two-sided stop), 3 orders, 1 restart; flow *restarts*: limit orders and a buy stop, 2 restarts; flow *both*: two-sided stops, 4 orders, no restart | `RestoredAsSaved`, `CrossedOnlyByRestore`, `OnlySellStopsStray`, `CorruptOnlyByStop`, `CallTerminates` |
| `md_feed` | flow *feed*: limit, immediate-or-cancel, repriced orders, stops, amends, an amend that is turned down; flow *market*: limit and market orders; 3 orders, 1 break | `MdFollowsEngine` |
| `order_stream` | 2 clients, 2 structs each of 3 bytes, chunks of every length | `ChopsArrivals`, `StructsIntact` |
| `ring_queue` | 2 slots; one producer and consumer with 5 items in blocks of 1 and 2; two producers, or two consumers, with 3 items each | `NeverAhead`, `NoSlotRace`, `QueueIsFifo`, `EverythingDelivered` |
| `tcp_client` | 4 orders of 3 bytes, 4 network errors, 3 descriptors | `StreamHasNoGap`, `EverythingSent` |
| `odr_query` | 2 addresses, 2 connections, 1 market and an unknown one, requests of 2 bytes, chunks of 1, 3 and 5, 6 bytes a client, queues of 1 | `AnswerReachesAsker`, `OneRequestPerStruct`, `ClientsAccounted`, `AnsweredUnlessStuck`, `EveryoneServed` |
| `implied` | a spread of two futures with all impliers; one without `b_out`, negative prices and tick 2; a spot book implied by a repo rate; 5, 5 and 4 orders | `GroupUncrossed`, `FillsAtBestPrice`, `ImpliedCoversLegs`, `PlanHolds` |
| `md_implied` | a spread; an outright with two implied books and stops; 4 open orders of quantity 1 or 2 | `LevelsAddUp`, `DepthOfLegs`, `CrossedOnlyInFlight`, `HeldBackOnlyBySome` |
| `md_ask_price` | the spread of `md_implied` | `AskPriceOfLegs`, which is violated |
| `pulsar_proxy` | 2 orders, 2 answers, 2 failures, 2 kills, 1 pause | `OrdersInTurn`, `AnswersInTurn`, `EverythingForwarded` |

In `md_feed` the engine waits for an empty wire (`BoundedFeedNext`).  No settled
state is lost: `Receive` commutes with the engine's steps, and a break that
loses a longer wire is the same as an earlier break.  A run ends where a reject
has misled the book, of which nothing is said from then on.  In `recovery` a DUMP that
no restart follows is left out.

Why these bounds.  Three orders are enough for a level with two makers of
different age and a taker, for a stop that a cancel triggers, and for a
fill-or-kill order over two makers; two prices give both a crossing and a
non-crossing pair; a two-sided stop that meets itself needs four orders.  The
orders of a run are counted, cancels are not.  A market order that makes the
market-data book fail needs a maker, an order on its own side to rest next to,
and two cancels.  Structs of three bytes have a first, a middle and a last byte;
with two structs a chunk can end anywhere around a boundary, or span one.  A
ring of two slots with five items goes round twice and is full and empty in
between; six items of two producers meet the entries of earlier laps in every
slot.  Four faults let a client fail to connect, lose a connection inside
`send()` and use up its descriptors.  Two clients over queues of one are enough
for both queues to be full and for an address to be a candidate for reuse.  Five
orders fill both legs of an implied price on two levels and trade against it;
four open orders give a pair of legs, a second pair at another price and an
order in their way; `QuantityModulus` is 64, above every sum of the run, which
`MCMdImplied` states (`HypothesesHold`).  In `md_feed` it is 256, far above what three orders
of two lots add up to.  A second restart is what brings a book
that was crossed when it was saved back crossed.  Two kills allow a loss and a repetition of the same order.

`CHECK_DEADLOCK FALSE` is given where the model may really stop: after undefined
behaviour or the early return that keeps the mutex (`engine`, `auction_band`,
`recovery`, `md_feed`), when all bytes are handled (`order_stream`), when all
orders are sent (`implied`), and when both threads of the order query service
wait on full queues or its clients have nothing more to say (`odr_query`).

### What they show

- `CorruptOnlyByEndedStop`: an order that was a triggered stop and then was
  filled or canceled as a taker stays in `_odr_map` (`engine.hpp:1011-1023` has
  no erase).  A later cancel or amend of that id looks it up in a book where it
  is not.  That is the only way one-sided orders lead to undefined behaviour.
- `CorruptOnlyByStop` adds the ways that restarts and two-sided stops have: a
  stop that INSERT filed where it is not looked for, a two-sided stop that is
  canceled after it fired, and one that fired and still has its pointer in the
  other stop book.
- `StopsLeftBehind`: `handle_new` triggers stops only when the incoming order
  has something left, and sell stops before buy stops; what can be left
  behind is exactly a sell stop reached by bids that are stops of the second
  pass.
- `HeldOnlyInCall`: the reject of an auction order with a stop side returns
  with the mutex held; every other path unlocks.
- `auction_band`: the auction client prints "Use xxx_stop_limit_price to set
  lower/upper price band for auction"
  (`auction_tcp_matching_client/src/auction_tcp_matching_client.cpp:277`); an
  auction order that fills completely is reported at its last fill's price
  whatever the band is (`engine.hpp:1777-1800`).
- `RestoredAsSaved`, `CrossedOnlyByRestore`, `OnlySellStopsStray`: after an
  undisturbed restart every saved order is where it was, but for a waiting
  `SELL_STOP`, which INSERT files with the buy stops under its buy trigger
  (`engine.hpp:1744`), and for stops that had fired or ended.  INSERT does not
  match, so books are crossed if clients trade before the last INSERT, and a
  book that is crossed when it is saved comes back crossed.
- `MdFollowsEngine`: for orders that are not market orders the callbacks say
  enough to rebuild the levels, from the first snapshot on; after a break the
  levels can be too high, never too low.  A partly filled market order is
  reported at `MARKET_PRICE` and then rests silently at another price
  (`engine.hpp:786-807`); reducing it later fails or hits the wrong level
  (`basic_book.cpp:17`).  A reject carries the id of the order that was to be
  amended or canceled, and `calc_remain_quantity` takes every state that is not
  OPEN or PARTIAL_FILL for an end (`basic_book.cpp:54-58`): an amend of a resting
  order to quantity 0, or after a break a cancel of an order that the book still
  counts, takes the order out of the book, at the level that the reject names.
- `StructsIntact`: with several connections on one handler, structs arrive whole
  only while no chunk ends inside a struct before another connection's bytes
  come or the connection breaks; `ChopsArrivals` says what is delivered in any
  case.  `StreamHasNoGap` is the sender's part: a connection starts inside a
  struct only after a `send()` that failed half way (`tcp_client.cpp:287`).
- `EverythingSent`: the client always gets through, unless connects that are
  refused at once have used up the descriptors (`tcp_client.cpp:65`).
- `QueueIsFifo`, `NoSlotRace`, `NeverAhead`, `EverythingDelivered`: the queue is
  a bounded FIFO channel for each use, although `ready_cache_` is read and
  written by several threads without synchronisation; its value is at worst too
  old.  Delivery is stated for calls of one item: calls for larger blocks can
  wait for each other, since a queue may hold fewer items than are asked for and
  have fewer free slots than are wanted.
- `AnswerReachesAsker` holds because `_run_clients` never deletes a client that
  has gone: no address is used twice while a request still has it.  The price is
  that these objects stay allocated.  `ClientsAccounted`: a disconnect is
  reported twice only after a failed send.  `EveryoneServed`: after a failed
  `accept` nothing is accepted any more (`tcp_service.cpp:113`), and a client
  that fails while it is greeted is never reported.
- `AnsweredUnlessStuck`: the service thread and a market's thread can wait on
  each other for good, which takes both queues full
  (`odr_query_service.cpp:270`); an error answer that fails erases the request
  buffer that is being read (`odr_query_service.cpp:288`).  In all other cases
  everything is answered.
- `GroupUncrossed`, `FillsAtBestPrice`, `ImpliedCoversLegs`, `PlanHolds`: if all
  three engines of a spread have impliers, no trade between their books is left
  open; a repo fill may be short by less than one price unit, since the quotient
  is an integer before it is rounded up (`repo_out_ask_implier.hpp:20`).
- `LevelsAddUp`, `CrossedOnlyInFlight`, `DepthOfLegs`, `HeldBackOnlyBySome`: the
  levels are sound at every moment; an implied side shows too little where
  several pairs of levels were rounded or held back to one price
  (`md_implied_book.cpp:53`),
  and stays behind an opposite level that is gone in three cases:
  a triggered stop or an implied level was that level, or the second leg of an
  implied ask is a bid.  The last one is `md_ask_price`: `handle_implied_ask`
  (`md_implied_book.cpp:657`) tests two types twice and two not at all, while
  the comment at `matching_test/src/matching_test.cpp:463` gives the price that
  the level does not return to.
- `OrdersInTurn`, `AnswersInTurn`, `EverythingForwarded`: an order is lost if the
  process is killed between its acknowledgement and its way to the engine, and
  repeated if it is killed between that and the arrival of the acknowledgement;
  an answer whose send failed comes late or twice, and is lost if the retry
  fails, which nobody is told (`pulsar_proxy.cpp:373`).

### Fairness

- `Engine`: weak fairness of the steps inside a call, as the thread that runs
  `handle` is not stopped in it.  Nothing is assumed about new calls.
- `RingQueue`: every thread goes on inside a call, and consumers go on calling;
  the loops that wait spin and are scheduled by the operating system.
- `TcpClient`: the network thread goes on calling `run()` (weak fairness); a
  connect that is tried again and again succeeds once, and a socket that is asked
  again and again takes something (strong fairness).  The errors are bounded.
- `TcpService`, `OdrQuery`: the service thread and the threads of the markets
  loop for ever.  Nothing is assumed about clients.
- `PulsarProxy`: the main loop, the callbacks, the broker's answers, and that a
  pause ends.  Kills and failures are bounded.

## Proofs

The theorems hold for all values of the constants: any requests, prices, sizes,
numbers of threads, clients and failures.  Where one needs more than the
assumptions that its module states about its constants, the extra one is a named
hypothesis of the theorem:

| Hypothesis | Says | Why |
|---|---|---|
| `NoBothStops` | no `BUY_SELL_STOP` requests | with two-sided stops the properties are false: such an order can be in a book and be triggered again |
| `NoStops` | no stop requests | the invariant of the engine is false once INSERT has filed a waiting `SELL_STOP` or a stop that has ended |
| `PricesAboveStop` | what clients send, and `MARKET_PRICE`, is more than a tick above `STOP_PRICE` | the sentinels are the ends of `long long` (`order.hpp:12`, `:13`); a price next to its least value is none |
| `NoAuctionAmends` | no amend makes an order an auction order | with one, the property is false: the records of that auction begin with the amended order and its old fill |
| `[][~MarketStays]_feedVars` | no market order goes to a book after a part of it was filled | such an order is counted at `MARKET_PRICE` and rests elsewhere: the flaw for which `MdFollowsEngine` has its exception `MarketLevel` |
| `QuantitiesFit` | in `MdImplied`: the sum of the open orders at a price, with the implied ones of all books, is below `QuantityModulus`; in `MdFeed`, at any time: the sum of what the book counts is | it is 2^64; when a sum wraps, a level is 0 and is erased, and the next reduction does not find it |
| `LegsFit` | the impliers of a book take the legs that make their price best (`a_bid_b_bid` for a sum, ...) and no more commission than the price | types and impliers are free arguments of `test_md_tcp_server`, every instance of `matching_test.cpp` has them so; with other legs an implied bid is worst where its legs are best |
| `SpreadGroups` | if both legs of a spread have impliers, these name each other and take no commission, that of the spread is no more than the price, and the orders of the legs are on the tick or at the market | so `durian_BTC.json` configures them; the tick is left to those who send orders, no engine checks it; with a commission on a leg, or with an order off the tick while the spread has no commission, TLC finds a trade of the legs that nothing makes |
| `OneEndSingle` | one end of a queue serves a single thread | so it is in every alias but `ring_buffer_queue.hpp:237`, which no program uses, and with several threads on both ends `NeverAhead` is false |

Every proof has the same shape: an inductive invariant, a lemma for each action
or for each group of actions with one effect, and the property from the
invariant.  TLC checks the invariants as well (`LInv` in the run `engine`;
the others, which live beside their proofs, were evaluated on the bounds of
their component's run before they were proved).

### `EngineProofs`

| Theorem | States |
|---|---|
| `Inductive` | `NoBothStops => (Spec => []IInv)` |
| `TypeCorrect` | `TypeOK` |
| `Uncrossed` | `NeverCrossed` |
| `FokAllOrNothingHolds` | `FokAllOrNothing` |

All assume `NoBothStops`.  `NeverCrossed` is inductive only with `IInv`: a new
order rests when the *best* opposite order is out of its reach, so one needs that book
entries carry the price of the order they point to (`RestingInv`), that a
triggered stop, which gets a new price while it is matched, has no entry in a
book (`ApartInv`) and that the stop books and `odr_list` point to stops that are
still untouched and appear once (`StopInv`).  All-or-nothing rests on `PlanInv`:
the records of `fok_match` name distinct makers that can deliver, and the chain
of their `left` fields adds up to the quantity wanted, which replaces a sum over
a sequence by a fact about neighbours.  `CallInv` ties these to the control
state.

Three more stages on top of `IInv`, each with the next parts of the invariant:

| Theorem | States | From |
|---|---|---|
| `CallsInductive` | `Spec => []JInv` | `NoBothStops` |
| `StopsLeftBehindHolds` | `StopsLeftBehind` | `NoBothStops` |
| `FillsFollowPriorityHolds` | `FillsFollowPriority` | `NoBothStops` |
| `PlacesInductive` | `Spec => []KInv` | and `PricesAboveStop` |
| `BooksPointToLiveOrdersHolds` | `BooksPointToLiveOrders` | and `PricesAboveStop` |
| `CorruptOnlyByEndedStopHolds` | `CorruptOnlyByEndedStop` | and `PricesAboveStop` |
| `HeldOnlyInCallHolds` | `HeldOnlyInCall` | nothing |
| `AuctionInductive` | `Spec => []LInv` | and `NoAuctionAmends` |
| `AuctionPaysMakersHolds` | `AuctionPaysMakers` | and `NoAuctionAmends` |

`JInv` is about the matchers and the two passes over the stops: a fired stop
trades on the side of the running pass (`FiredInv`); `fok_match` records the
makers in the order of the book, without gaps, and each but the last one with
all it has (`RecordedInv`); once the second pass runs, either no sell stop is
reached or all bids are stops (`PassInv`).  `KInv` is about places: the order of a
book entry is live and `handle_cancel` finds it (`LiveInv`, `FiledInv`); a stop
that waits is told from an order in a book by its price alone, which is why no
other price may be that low (`LimitInv`).  `LInv` is about the records of an
auction: the price of the last fill is as good as the own price of every maker
so far (`PaidInv`), and no maker still to come is better (`NextInv`).

`EngineRecovery`, for any orders that are no stops, any number of dumps and
restarts, and kills at any step:

| Theorem | States | From |
|---|---|---|
| `RecoveryInductive` | `RecoverySpec => []RInv` | `NoStops`, `PricesAboveStop` |
| `RestoredAsSavedHolds` | `RestoredAsSaved` | the same |
| `CrossedOnlyByRestoreHolds` | `CrossedOnlyByRestore` | the same |

`IInv` does not say that the books are uncrossed, because INSERT breaks that and
nothing else: without stops the rest of `IInv`, `JInv` and `KInv` survives
INSERT and a restart, so that the engine is the proved one also with restored
orders in its books.  `NoNewCross` is the lemma that both sides share: a pair of
orders that reach each other was there before the engine's step.  `RInv` adds
that the saved orders are those of the saved books and fit to rest
(`SavedInv`), that the id of one that is still to come is not in use
(`PendingInv`), that an engine to which nobody else came has the inserted orders
and no others (`QuietInv`), and who is in a crossed pair (`CrossInv`).  It also
says that an engine without stops never reaches undefined behaviour, whatever
is restored (`NoStopNoCorrupt`).

`MdFeed`, for any number of orders, fills, auctions, breaks and reconnects:

| Theorem | States | From |
|---|---|---|
| `FeedInductive` | `FeedSpec => []FeedInv` | `NoBothStops`, `PricesAboveStop`, `[]QuantitiesFit`, `[][~MarketStays]_feedVars` |
| `MdFollowsEngineHolds` | `MdFollowsEngine` | the same |

Market orders are allowed, also those that are partly filled and then filled or
canceled: a level at `MARKET_PRICE` comes and goes as any other.  What is excluded
is the one step after which a message and the book name different prices.

The book learns of an order only from messages that are still on their way, or
that an auction keeps back, and no order is reported at two prices.  So the
invariant first says, of the engine alone, what a book ought to count:
`Untold(i)` (the id is to come, the order waits as a stop, or it is in hand with
nothing filled) and `Due(i)`, what is left of it otherwise.  `ToldInv`: what the
book counts of `i` becomes `Due(i)` by the last message about `i` that is under
way (`Tells`), except that an order that ended while a connection was down may
stay.  `LevelsInv`: a level is there exactly when an order is counted at it, and
holds the sum of these.  `SpotsInv`: an order is at one level for all its life,
and every message about it names that level (`UnderWayInv`).  A step of the
engine keeps all this if it is `Truthful`: the one or two messages it reports
say what the step did to `Due`, and a step that reports nothing does nothing to
it.  That is a lemma for every action of the engine; the rest of the proof then
knows only `Told` and `Carries`, not the engine.  `TakerInv` is what these
lemmas need besides `KInv`.  When nothing is under way, the orders at a level
are exactly those that rest at that price, which are told and have something
left, so that the sums agree (`FeedFollows`).

What the proofs corrected.  `StopsLeftBehind` is about orders that were matched:
an order that is parked triggers no stops, so that, with five orders, more than
the run has, a reached stop can wait behind it.  `FillsFollowPriority` needs the
case of a buying market order, whose price is the highest one.

### `TransportProofs`

| Theorem | States |
|---|---|
| `StreamInductive`, `ChopsArrivalsHolds` | `ChopsArrivals` |
| `StructsIntactHolds` | `StructsIntact` |
| `ClientInductive`, `StreamHasNoGapHolds` | `StreamHasNoGap` |

Together: what a client hands to `send()` arrives in whole structs in its order,
as long as no struct is interrupted.  `ChopsArrivals` needs the shape of
`order_handler` between two steps (`StreamInv`: what is in `buff_` is less than a
struct, what is delivered and held is what arrived).  `StructsIntact` needs
whose bytes they are: `IntactInv` has, for each client, how many of its structs
are delivered, and says that what is held is the beginning of the next one of a
single client.  `StreamHasNoGap` is inductive with the typing of the buffer; the
work is in `Taken`, that the nodes `_do_send` pops and the one it shortens are
the front of the bytes that wait (`TakenIs`).

### `RingQueueProofs`

| Theorem | States |
|---|---|
| `RingInductive` | `OneEndSingle => (Spec => []RingInv)` |
| `NeverAheadHolds`, `NoSlotRaceHolds` | the safety properties |
| `QueueIsFifoHolds` | the ring refines `Fifo` |

`RingInv` says which positions are handed out and to whom (`ShareInv`), that each
side follows the other (`LapInv`), that no cursor and no copy of one is ahead
(`CursorInv`), what an entry of `barrier_[]` stands for (`EntryInv`) and what is
in the slots (`BufferInv`).  The delicate part is `WaiterInv`: an entry of the
chain belongs to the lap in which it is read because the one thread that walks it
cannot have been overtaken.  With several threads on both ends another one can
have moved on by a lap; TLC then finds `NeverAhead` violated in 42 states with
two slots, two producers and two consumers.  The refinement is proved step by
step: the initial states are empty channels, setting an entry is a send or a
receive of the channel when the position before it is finished, and every other
step stutters.

### `OdrQueryProofs`

| Theorem | States |
|---|---|
| `TcpInductive`, `ClientsAccountedHolds` | `ClientsAccounted` for `tcp_service` with any owner |
| `ServiceInductive`, `QueryClientsAccounted` | the invariant of the composition, and `ClientsAccounted` in it |
| `AnswerReachesAskerHolds` | `AnswerReachesAsker` |
| `OneRequestPerStructHolds` | `OneRequestPerStruct` |

`TcpInv` keeps the books on the connections: an address holds one connection, a
connection one address, and how often it was reported follows from what has
become of its client.  `QueryInv` adds that, until `accept` fails, the client
pointer of a request or response in flight still holds the asker's connection,
and `ItemInv` what a client's `request_buffer` and the running callback have of
its bytes.

### `PulsarProxyProofs`

| Theorem | States |
|---|---|
| `ProxyInductive` | `Spec => []ProxyInv` |
| `OrdersInTurnHolds` | `OrdersInTurn` |
| `AnswersInTurnHolds` | `AnswersInTurn` |

`OrderInv`: what is acknowledged is at the engine, in memory or lost; what is in
memory is in the order of the topic, and is at the engine already only if a
kill let the broker repeat it.  `AnswerInv`: a send with a callback is newer
than every send before it and every answer in the topic, and one without is a
retry.

### `ImpliedProofs`

| Theorem | States |
|---|---|
| `RoundDownClose`, `RoundUpClose` | the rounded price is on the right side, less than a tick away, also for negative prices |
| `RoundDownOnGrid` | it is a multiple of the tick |
| `SpreadCoversLegs` | the four implied prices of sums and differences cover what the legs give |
| `SidesMirror` | asks are the mirror image of bids for mirrored legs |
| `GroupInductive` | `Spec => []GroupInv` |
| `FillsAtBestPriceHolds` | `FillsAtBestPrice` |
| `ImpliedCoversLegsHolds` | `ImpliedCoversLegs` |
| `PlanHoldsAlways` | `PlanHolds` |
| `GroupUncrossedHolds` | `GroupUncrossed`, from `SpreadGroups` |

For any group of engines, any legs, ticks, commissions and orders, and the last
one for any number of spreads that `SpreadGroups` describes.  The
arithmetic rests on the remainder of C++: its range (`RemRange`) and its symmetry
(`RemMirror`).  `GroupInv` is about the time between the planning of a
fill-or-kill order and its trades, when `fok_match` has moved its iterators and
nothing has happened yet: the plan takes no more of an order than it has (a sum
over the records, `PlanQty`), its makers rest, and each record has the best
price of the moment when those before it have been traded.

`GroupUncrossed` rests on `ApartInv`: no order of a spread and no two orders of
its legs, the best or not, can trade (`LegsInv`), no engine's own book is crossed
(`OwnInv`), and the orders of a leg are on its tick (`TickInv`).  Orders that leave
or shrink keep all three, so that the proof is about the order that comes to
rest: it rests beyond everything its engine offers (`Strict`), the implied price
is the rounded price of the legs or one tick behind an order that rests there
already, and a dearer leg never makes a spread cheaper, its commission and its
rounding included (`MinusOrder`).  `MCImplied` assumes `SpreadGroups` of the groups
of the run, and TLC evaluates it.

### `MdImpliedProofs`

| Theorem | States | From |
|---|---|---|
| `MdTypeCorrect` | `Spec => []TypeInv` | nothing |
| `HeldBackBySome` | `HeldBackOnlyBySome` | nothing |
| `BooksAddUp` | `LevelsAddUp` | `QuantitiesFit` |
| `DepthIsOfLegs` | `DepthOfLegs` | `LegsFit` |
| `CrossedInFlight` | `CrossedOnlyInFlight` | both |

For any number of implied books, any prices, ticks and orders: all invariants
of the run are theorems.  A handler is a chain of changes of one side of
`outright` (`Move`), one `Refresh` for each implied side and a fold over the
books (`RefreshAll`); each has lemmas of its own, so that a property is proved
for the chain and not for the handler.  `LevelsAddUp` is inductive with the
types once it speaks of every price: a difference is added to a sum of which the
old value is a part, hence no level that is reduced is missing and nothing
wraps.  `HeldBackOnlyBySome` needs that the first pair of levels is that of the
best legs.  `DepthOfLegs` is the work of the module: the pairs of levels of two
legs tile the shorter of them, so that their quantities add up to it, which is
an induction over the places in a leg.  `CrossedOnlyInFlight` needs that a
better level of a leg gives a better implied price, also when it is rounded, and
so that no pair is better than the best legs.

What the proofs corrected.  `DepthOfLegs` had held-back levels as its only
excuse; two pairs of levels that are rounded to one price lose quantity too.

### Induction

No prover here can instantiate the library's induction theorems, which take an
operator.  Where a proof needs induction over data it is done with sets: a
non-empty set of numbers has a least element (`LeastElement`, from
`WellFoundedInduction`), so a set that has 0 and every successor is `Nat`
(`NatInduct`).  That is how `FlattenSeq` and `MapThenSumSet`, functions that the
library defines by recursion, are shown to exist and to obey their equations
(`JoinStep`, `PlanQtyStep`, and the sums of `SumProofs`).

### Only model-checked

- Liveness (`CallTerminates`, `EverythingDelivered`, `EverythingSent`,
  `AnsweredUnlessStuck`, `EveryoneServed`, `EverythingForwarded`), which is out
  of the prover's reach.
- `OnlySellStopsStray` and `CorruptOnlyByStop` of `EngineRecovery`, which are
  about stops, and for stops its other two properties: `IInv` is false once
  INSERT has filed a stop, and with two-sided stops; they need an invariant of
  their own.
- `MdFollowsEngine` once a partly filled market order rests, which the flow
  *market* of the run has: the property still speaks while the report of that
  order is on its way or was lost with a connection, and an invariant would have
  to follow orders that are counted at a price other than the one they rest at.
- The two properties that are violated.

## Plan

Every module of the model is written.  Left, all of it proofs: an invariant for
`EngineRecovery` with stops, and one for `MdFeed` after a partly filled market
order has come to rest.

## Not modelled

- Vendored code: nlohmann's JSON library in `inc` and `contrib`, libwebsockets,
  the Pulsar client and the other libraries of `contrib`.  They are nearly all
  of the repository's lines; the program's own core, which the modules follow,
  is one or two lines in a hundred, so that a share of all lines says little.
- `common` and the older front ends `proxy_ws`, `proxy_md_ws` and
  `proxy_md_pulsar`, which belong to another exchange core and do not talk to
  this engine; scripts; command-line clients, test servers, `tcp_echo_server`.
- The configuration parsers (`config_parser`): they read JSON once, build the
  services and keep no state.
- The ZMQ transport: forwarding between sockets whose state is the library's.
- `memory/inc/memory/object_pool.hpp`, which only a test uses; the disruptor and
  the object poll of `rapid_ring`, `read_reserve`, `warm_up` and `size()`, and
  the alias with several producers and several consumers
  (`ring_buffer_queue.hpp:237`), which no program uses.
- Weak memory: other architectures than x86 could see more in `RingQueue`.
- Several threads for the engines of one group, and two impliers on one side of
  an engine: no program does either, so `set_implier`, `unset_implier` and the
  order of the mutexes have no model.
- The `last_match` fields that an amend in place sends once more
  (`engine.hpp:1570`): no listener in the repository adds them up.
- In the order query service the orders of an answer, since the callback that
  collects them belongs to an object that `add_mkt` has destroyed, and
  `remove_mkt`, which nothing calls.
- A side outside the enumeration (`REJECT_UNKNOW_ORDER_ACTION`); account,
  market and timestamp fields; overflow of the engine's quantities.
