# A TLA+ development of Spot-Exchange

Spot-Exchange is an order entry server with one limit order book per ticker, a
matching engine, a market data platform and a terminal client. This directory
holds TLA+ modules translated from its source, TLC configurations that check
them on small instances, and theorems that TLAPS checks for every value of the
constants. `PROJECT.json` lists the runs, the source lines each definition
stands for, and the hazards the properties are aimed at.

## The system

| Part | State | Operations |
|---|---|---|
| `OrderBook` (orderbook.cpp, level.hpp, limit.hpp) | `limitorders_` (id to `Limit`), `asks_` and `bids_` (price to `Level`); limits of a level form a doubly linked list | `addOrder`, `modifyOrder`, `cancelOrder` |
| `FIFOMatcher` (fifomatching.hpp) | none between calls | `FIFOMatch` over the levels and limits of one side |
| `OrderBookManager` | the books by ticker | looks a book up and forwards |
| `OrderEntryStreamConnection` | one client's gRPC stream: user id, response queue, count of asynchronous operations | completion callbacks: accept, first read, read, write done, cancelled |
| `MarketDataDispatcher` | market data queue, one outstanding write | `writeMarketData`, write done |
| `TradeServer` | completion queue, thread pool, `client_streams_` | runs callbacks; SIGINT shuts down |
| `Logger` | a ring of 1024 entries | any thread logs, one thread writes |
| `DataPlatform` | subscribers, one datagram buffer | reads market data, sends UDP |
| `ClientFeedHandler`, `ClientOrderBook` | orders and aggregate levels seen so far | add, cancel, modify, fill |
| Terminal client | prompts and printing | commands |

A client's request arrives as a completed `Read` on some pool thread. That
thread acknowledges it, calls the book through the manager, matches and places
the order, and on the way queues responses on the client's stream
(`writeToClient`) and market data on the dispatcher (`writeMarketData`). Both
queues are drained by write callbacks that run on whichever pool thread takes
them. The data platform reads the market data stream and sends each message to
its UDP subscribers; clients rebuild aggregate books from the datagrams.

What is hard, and what makes each part correct:

* **Book and matcher.** Pointers between limits and levels while levels and
  limits are erased; price-time priority across levels; an order is in the book
  once, in the level of its price, in order of arrival; the book is not
  crossed; fills account for quantities; both parties of a match learn of it.
* **Book mutex.** The handlers use `std::try_to_lock` and do not test the
  result, so handlers of several threads can overlap; `modifyOrder` re-enters
  its own book.
* **Write queues.** At most one outstanding write; FIFO; what a failed write
  leaves behind.
* **Stream connection.** It deletes itself when its last operation completes
  after cancellation; callbacks of several threads race with that; a user id
  must be claimed once and freed once.
* **Server.** `client_streams_` is shared without a lock; shutdown walks it.
* **Logger.** Producers must not overwrite an entry that was not written.
* **Data platform.** One buffer for several sends in flight; a set shared by two
  threads.
* **Client feed.** Lost and reordered datagrams.

## Modules

| Module | What it is |
|---|---|
| `OrderBook` | the book of one ticker and its matcher, step by step |
| `FIFOBook` | what a limit order book promises: resting orders, one incoming order, price-time priority |
| `MCOrderBook` (five more `.cfg`) | instances for TLC |
| `OrderBookProofs` | type correctness, "never crossed" and why, and the fills' account of an order |
| `OrderBookRefinementProofs` | the lists of the levels are in order of arrival and matching follows price-time priority; no order is lost, and the book implements `FIFOBook`, as long as nothing wraps |
| `WriteQueue` | a queue in front of a gRPC stream, and the threads that fill and drain it |
| `MessageChannel` | what such a queue, and the logger's, promises: a FIFO channel |
| `MCWriteQueue` | instance for TLC |
| `WriteQueueProofs` | the safety properties of the queue, for all constants |
| `StreamConnection` | the connections' callbacks on the thread pool: counting, cancellation, deletion, user ids |
| `MCStreamConnection` (one more `.cfg`) | instances for TLC |
| `StreamConnectionProofs` | the count of operations, deletion and registration, for any threads and connections |
| `LoggerQueue` | the logger's ring, its producers and its writing thread |
| `MCLoggerQueue` (one more `.cfg`) | instances for TLC |
| `LoggerQueueProofs` | the ring is a FIFO channel while no more messages are outstanding than it has entries |
| `DataPlatform` | the platform's two threads, the buffer and the subscribers they share |
| `ClientFeed` | the book a client rebuilds from datagrams, and its subscription |
| `DataPlatformProofs`, `ClientFeedProofs` | what holds of each alone, for all constants and whatever comes |
| `MarketData` | `OrderBook`, `DataPlatform` and `ClientFeed` composed, with the queue and the network between them |
| `MarketDataProofs` | what holds of the whole: types, quantities, the client's levels against its orders, and its book against the exchange's |
| `MCMarketData` | instance for TLC |

### `OrderBook`

| Variable | In the code |
|---|---|
| `limitorders` | `limitorders_`; `next`, `prev` are `next_limit`, `prev_limit`; `current_level` is TRUE while the pointer of that name is valid |
| `book` | `book["buy"]` is `bids_`, `book["sell"]` is `asks_`; a price maps to `head` and `tail` |
| `orderid` | `orderid_generator_` |
| `pc`, `order`, `book_itr`, `book_order`, `detached`, `fills` | where the running handler is and its locals; `detached` says that `book_lvl` is a copy and no longer the level |
| `sent` | responses and market data sent by the running handler |
| `clock` | placements so far; a limit's `time` is its turn. It exists for the properties only |
| `undefined` | a dangling pointer was read |

A request (`AddOrder`, `CancelOrder`, `ModifyQuantity`, `ModifyPrice` and the
refusals) is one step; `addOrder` then goes on in steps: `StartMatch` or
`NothingToMatch`; `FillResting`, `FillIncoming` and `NextLevel`, one iteration
each of the two loops of `FIFOMatch`; `CommunicateMatchResults`; `PlaceOrder`;
`Return`. Splitting the handler lets the invariants speak of the middle of a
match; while it runs nothing else does.

Choices the reader should know:

* **Handlers are serialised**, as `orderbook_mutex_` is meant to do. The code's
  `try_to_lock` does not ensure it (see "Not modelled"), and nothing here
  should be read as a claim about overlapping handlers.
* **The copied level.** `Level& book_lvl` is bound to the first level;
  `book_lvl = book_itr->second` assigns to the referent, and the referent has
  by then been erased. What a build does is to write the copy into the freed
  node. From there on `book_lvl.head` is the copy's: the model keeps the head
  of the real level unchanged (`HeadRemoved` when `detached`). At the end of
  the map the same line copies from the past-the-end node; the value is not
  used again.
* **Undefined reads.** Reading a limit that has been erased
  (`ReadErasedLimit`), or writing through a `current_level` that dangles
  (`RemoveLimit`), sets `undefined` and the model stops. So every property is
  about executions up to the first such read, and the runs say
  `CHECK_DEADLOCK FALSE`: an execution also ends when the bounds on new orders
  and placements are used up and the last order is cancelled.
* **`Word`, `FillWord`, `CountWord`** stand for the 32 bits of a quantity, the
  16 bits of a fill's quantity and the 16 bits of a level's count.
* **Left out:** the ticker look-up, time stamps, log lines, acknowledgements
  (they belong to the connection), and the two emplace failures, which the
  preceding look-ups exclude.
* Quantity 0 is accepted for a new order by the code and by the model; a modify
  to 0 is refused by the manager.
* The slips near the top of the module are wrong variants of single
  definitions. No behaviour uses them; each is put in place of its definition
  to see that a property notices.

### `FIFOBook`

The promise, without levels or pointers. `ImplementsFIFOBook` maps
`limitorders` to the resting orders and the running handler's `order` to the
incoming order. Every step of `OrderBook` must be a step of `FIFOBook` or
change nothing it sees: only the first order in price-time priority trades, at
most what both have; an order rests only when nothing it could trade with is
left; a change of quantity alone keeps the place of an order and a change of
price gives it up; an order leaves only by being filled, withdrawn or
re-priced. It does not say *which* quantity a modify sets (see the finding).

### `WriteQueue`

`response_queue_` of a connection and `market_data_queue_` of the dispatcher are
one algorithm (`writeToClient` with `sendResponseFromQueue`, `writeMarketData`
with `writeToMDPlatform`), so one module stands for both.

| Variable | In the code |
|---|---|
| `pc`, `msg`, `ok`, `mutex` | where each pool thread is, its message, the callback's `success`, the owner of the mutex |
| `queue`, `write_in_progress` | the list and the flag |
| `stream`, `writing` | the state of the stream's Write and the message it was given |
| `sent`, `delivered`, `broken`, `overlapped` | what was queued, what the stream took, whether it failed, whether a Write was started on a stream that had one |

`Write`, `LockWrite`, `Push`, `StartFirst` and `MarkInProgress` are the calls of
`writeToClient`, one action between two accesses to shared state; `Completed`,
`LockCallback`, `Pop`, `StartNext` and `NothingToStart` are the callback, which
any idle thread may pick up. A callback may be delivered while the thread that
started its Write has not yet set the flag.

* **The stream is external.** As the code uses gRPC: a Write completes once,
  with success while the stream is up; a stream that has failed stays failed.
  `delivered` is what the stream accepted. After a failure the queue keeps what
  was behind the failed message, and a later message is written ahead of it;
  that all these Writes fail too is what makes this harmless.
* **Left out:** `asyncOpStarted` and `asyncOpFinished`, which surround the
  queue in a connection and may delete it (`StreamConnection`), and the benchmark exit in `writeMarketData`.

### `MessageChannel`

Messages are numbered as they are queued, under the mutex. They are delivered in
order, each once, and all of them if the stream does not break
(`WF_cvars(Deliver)`; `Deliver` is disabled once the stream is broken).

### `StreamConnection`

`conn[c]` holds a connection's members (`ops` is `current_async_ops_`, `pending`
the operations the completion queue owes it, `queued` and `write_in_progress`
its response queue), `streams` is `client_streams_`, and `thread[t]` says which
callback a pool thread runs on which connection and where it is. A completion
(`Connect`, `Request`, `ReadFails`, `Written`, `Cancelled`) puts an idle thread
at the start of the callback; the callback's accesses are actions: `Decrement`
and `Check` are `asyncOpFinished`, the rest are named for what they do.

* **Members without an initialiser.** Neither `userid_` nor `current_async_ops_`
  (orderentrystreamconnection.hpp:83-85) is set by the constructor, and in C++17 a
  `std::atomic` made so has an indeterminate value. `None` as a user id stands
  for garbage, by which a refused connection may erase any entry (`Erased`).
  `Memory[c]` is what the count starts from before the first `asyncOpStarted`:
  any number modulo 2^64, the upper half written as negative. Where the memory
  is fresh from the system it is 0. From anything above 0 the connection is
  never deleted and its user id never freed (`CountFromAboveZeroStays`). From
  2^64 - 1, here -1, the count is 0 with one operation pending, and the
  connection can be deleted under it. Each property about deletion says from
  which counts it holds.
* **Deletion.** `terminateConnection` deletes the object while its callers, and
  other threads, go on. The first step on a deleted connection
  (`UseAfterDelete`) sets `undefined` and the model stops, as does a first read
  that fails (`NoRequest`: `common` has no value). This happens: a connection
  that is deleted by a write's completion always goes on to lock its mutex, a
  second thread can pass the same check, and the notification tag of a refused
  connection comes after its deletion. The properties are about executions up to
  there; nothing here says that a use after deletion cannot happen.
* **The flag** `on_streamcancelled_called_` is a plain `bool`. With
  `StoreBuffer` the store may be invisible to other threads while the storing
  thread already reads the count, which is what an x86 build does: then neither
  thread deletes the connection.
* **The book's responses.** `BookAccepts` is an order that goes through, with two
  fill responses for each match, both on this connection (orderbook.cpp:90);
  `BookRefuses` a request that is refused, with one rejection, or up to three
  for a modification (`processModifyError`). Requests of other kinds send one of
  these numbers of responses, or none. `leaked` counts what `sendRejection` starts
  and nothing finishes.
* `client_streams_` is accessed one operation at a time in the model; in the
  code overlapping accesses are a data race on a hash table, which is not
  modelled. The gap between `find` and `emplace` is, and so is the one between
  `emplace` and the assignment of `userid_` (`Claim`, `SetUser`).

### `LoggerQueue`

`head`, `tail`, `buffer` are the ring's; `producer[p]` is a thread in `emplace`
with its ticket, `logger` the writing thread. An entry is its ticket. `buffer`
starts unmarked: the code allocates it without constructing it, and a block of
that size comes zeroed from the system. `Full` is the code's condition in
unsigned arithmetic. `MaxOutstanding` is an assumption about the callers, that
so many entries at most are logged and not yet popped.

### `DataPlatform`

`reader`, `at` and `tosend` are the thread in `initiateMarketDataStream`: before
`Read`, before `serialiseMarketData`, or in the loop at a subscriber. `buffer` is
`temp_buffer_`, by the datagram that was serialised into it; `waiting` are
asynchronous sends that the socket could not take at once, which all refer to
the one buffer but keep the length of what it held when they were queued;
`failed` are failed sends whose handlers the io thread has yet to run; `network[c]`
are the datagrams on their way to a client, as it will read them; `cut` says that
one of them will be read otherwise than it was written.

* `async_send_to` first tries to send, on the calling thread, if no send is
  queued (`SendNow`); otherwise, or when the socket is full, the io thread sends
  later what the buffer holds then (`Transmit`), but in the length that the
  buffer's first byte gave when the send was queued (dataplatform.cpp:20). A cancel
  that waits and is overwritten by an add sends 18 of the add's 39 bytes. The
  client does not look at the length and reads the rest from its own buffer,
  which starts as zeros and keeps earlier datagrams (client.hpp:110): `ReadAs`
  gives what it may read, the fields that are missing being those of an element
  of `Stale`. Sending while the buffer is being written is `undefined`.
* An insertion into `subscribers_` while the loop runs may make it miss
  subscribers or visit some again. `erase(find(...))` of a subscriber that is
  no longer there, and erasing the node the loop is at, set `undefined`.
* `faults` says what an execution may meet: a client that subscribes late
  (`late`), a full socket (`full`), errors (`error`), loss (`lose`) and
  reordering (`swap`). It lets a property say under which of them it holds.
* `Layout` is the datagram of a message: the fields that are copied, in the
  order and widths of the client's structs, so that the client reads back what
  was written (only the sign of a quantity differs, `Signed` in `ClientFeed`).
* **Left out:** bytes without meaning: a fill announces 46 bytes and has 36, and
  what follows them in the buffer is sent too and read by nobody. A field that is
  cut in its middle (22 bytes of an add end in the ticker) is taken from `Stale`
  like the others, whose tickers, sides and prices are those of the model: bytes
  that are no price or ticker at all are not considered. Notifications are never sent by the exchange. When the stream
  ends the reading thread joins the io thread, which goes on for ever.

### `ClientFeed`

`orders` and `levels` are `orders_` and the `bids_` and `asks_` of all client
books; `tickers` and `capacity` are `orderbooks_`; `subscription` is a pointer
into it, and dangles once the vector has grown (`Dangling`). `Receive` is a
datagram on the io thread, with the handler of its kind and the look at the
subscription that follows; `Subscribe` is the command on the input thread;
`InterpretFill` is a fill response on the thread that reads the order entry
stream, which dereferences the result of `getOrder` even when it is null.
Following either pointer sets `undefined`. `GetUserInput` is an order that the
user types with all the fields it wants; "cancel" and "modify" reach the wrong
constructor, and both read past the end of their values (`ReadsPast`), so only
"add" sends a request, a new order.

* Quantities are `uint32` in the exchange and `int32` in the client (`Signed`).
* The three threads share the handler without a lock. Each operation is one
  step; races inside the hash tables are not modelled.
* `processCancelOrderData` looks the ticker up after the order is gone, so a
  cancel does not reprint the screen; printing is left out.

### `MarketData`

A handler of the book runs, and what it has sent (`sent` of `OrderBook`) is
appended to `feed` when it returns (`Publish`). `feed` is the dispatcher's queue
and the stream to the platform: a FIFO channel, which is what `WriteQueue` is
shown to implement. Moving the feed only between handlers loses nothing, as a
handler does not look at it. Rejected requests announce nothing and are left
out. Each component is instanced with its module of proofs, so that a theorem
about the part can be cited of the part in the whole. `Deliver` and `Lose` are
the network. If `active`, the client also has a
user who sends new orders and subscribes to books, while a second book announces
an order. `traded`, `misstated` and `repriced` are ghosts for the
properties: what the announcements do not tell.

## Runs

| Run | What it asks |
|---|---|
| `order_book` | all safety properties, two users, adds, cancels, modifies, re-prices |
| `order_book_sweep` | deeper books, quantity 0, sweeps over two levels, termination of handlers |
| `write_queue` | no overlapping writes, no stranded message, a FIFO channel on three threads with a stream that may break |
| `stream_connection` | counting, deletion and registration of connections, two clients on two threads |
| `stream_gone` | liveness: a connection whose client has gone is deleted |
| `logger_queue` | three producers, the ring never over-full: a FIFO channel |
| `market_data` | the client's book against itself and against the exchange's, without faults and under each fault |
| `stale_head`, `fill_response`, `modify_up`, `zero_quantity`, `logger_full` | five disagreements between the code and what it or its README says |

The properties:

* `LevelsLinkedByArrival`: the list of each level is its orders by arrival.
* `NoEmptyLevel`, `NoOrphan`: levels and their orders come and go together.
* `NotCrossed`, with `MatcherAtBest` and `RestCannotMatch`, which say why.
* `PriceTimePriority`: each match takes the best, then oldest, order.
* `LastOrderTakesLevel`: a cancel or re-price erases a level only with its
  last order.
* `FillsAccountForOrder`: quantity ordered is quantity left plus fills.
* `HandlerReturns`: the loops end.
* `NoOverlap`, `InProgressIsExact`: the flag says what the stream is doing, and
  no thread starts a Write on a busy stream.
* `QueuedWillBeWritten`: no message is left to a callback that has gone.
* `PopsWhatWasWritten`: the callback pops the message it reports on.
* `ImplementsChannel`: the refinement, safety and liveness.
* `OperationsCounted`: the count is what the memory held, plus the operations
  outstanding, plus those leaked: no update is lost or doubled.
  `NoOperationOutlivesConnection` is what the count is for, and holds if it did
  not start below 0.
* `RegisteredIsAlive`: no dangling pointer in `client_streams_`, even after a
  race for a user id and the stray erase of a refused connection. Between
  `emplace` and the assignment of `userid_` this needs a count that did not start
  below 0: a connection that is deleted there erases another entry than its own.
* `OneReader`: gRPC allows one outstanding `Read` on a stream.
* `GoneIsDeleted`: deletion happens, or undefined behaviour came first, for a
  connection whose count started at 0.
* `SlotHasOneOwner`: slots of the ring are not shared.
* `NothingNegative`: whatever is lost, sent again or reordered, the client shows
  no empty or negative level, as long as no datagram was cut. Without that
  condition TLC shows a cancel that waits, is overwritten by an add and read
  against a buffer of zeros: the client then has a level of quantity 0.
* `LevelsMatchOrders`: the client's levels are the sums of its orders, also while
  datagrams are under way and when some are lost, as long as they come in order
  and once each (`InOrder`) and no order is re-priced beside a loss (its second
  announcement would meet the first one's order).
* `DifferOnlyByTrades`: once everything has arrived, the client's book is the
  exchange's except for resting orders that traded, which it shows with too
  large a quantity or after they have gone (no market data name a resting
  order: orderbook.cpp:86), and for modifications announced wrongly
  (`modify_up`). A late client misses orders and is right about the others.

`InOrder` is what the proof of `LevelsMatchOrders` asked for, and TLC showed each
part of it to be needed, on instances larger than the run's. If datagrams change
places, an order's fills can come after the announcement of its rest and take
from the level more than the order has. If another client subscribes while the
platform is in its loop over `subscribers_`, the insertion may move the set's
iteration, and the client is sent a datagram twice. A full socket sends what the
buffer holds by then, the next message twice or a piece of it.

**Bounds.** Two prices give two levels on each side, which is what leaving one
level for the next needs; three orders (`order_book`) give a list with a
middle, five orders (`order_book_sweep`) give a sweep of several orders in each
of two levels followed by an order that looks at what is left. Quantities 1 and
2 give fills of the resting order, of the incoming one and of both. `order_book`
has two users so that ownership matters, and treats them as symmetric. Word
sizes of 16 are larger than anything the instances reach, so wrap-around does
not occur in the passing runs: `FillsAccountForOrder` holds only while no fill
exceeds 16 bits, and `NoOrphan` only while no level reaches 2^16 orders.
`NoOrphan`, `LastOrderTakesLevel` and the refinement hold only without quantity
0, which is why `order_book` leaves it out and `order_book_sweep`, which has
it, does not check them.

`write_queue`: three threads are one that writes, one that runs the callback and
one that comes between them; four messages let the queue hold two behind the one
being written, empty, and fill again. No call starts once four messages are
queued, so the last states may stop: `CHECK_DEADLOCK FALSE`.

`stream_connection`: the third connection is the one that waits for the next
client, so two are in use, which is what a race for a user id needs, and two
threads are the least that can race within one connection. Two requests are a
first request on each connection, or two on one, where the second can have the
wrong user id. An order has one match at most (`MaxMatches`), which already queues
a response behind one that is being written; a refused request has two
rejections, which leak a count each and queue behind each other. The count of
one connection starts at -1 (`BelowZero`), those of the others at 0. `stream_gone`
has one client, because its connection's end does not depend on another's, three
requests, and a connection whose count starts at 1 (`AboveZero`). With `Rejections`
other than empty or `StoreBuffer` set to TRUE TLC finds `GoneIsDeleted` violated:
the connection is never deleted, and its user id never freed. No document
promises the contrary, so these are hazards here and not findings.

`logger_queue`: a ring of four, three producers and nine tickets go round the
ring twice. `logger_full` has a ring of two and lets three entries be
outstanding.

`market_data`: two orders are a match, a level of two, or two levels; three
placements let one be re-priced after both rest, or re-priced into a match that
leaves a rest. Orders have quantity 1 and modifications quantity 2, which gives
increases (misstated), decreases, and fills that leave something on either side.
No request is taken while messages are under way (`MaxBacklog` 0), except for the
one the reading thread holds: so datagrams of two requests meet in the network,
and a handler sends up to four. Faults are taken one at a time, on a client that
listens; an active client is taken without faults, because the undefined steps of
its threads need none. One client: clients do not interact.
With a full socket there are two placements instead of three
(`MaxPlacementsFull`), and the client's own buffer holds zeros, as it starts, or
what an order left in it (`Stale`): enough for messages of several requests to
wait and overwrite each other, and for TLC to find the level of quantity 0 if
`~cut` is dropped from `NothingNegative`.

**Fairness.** `OrderBook`: `WF_vars(Handler)`, a handler that has started goes
on. It runs on one thread and waits for nothing. Requests have no fairness.
`WriteQueue`: each thread's steps (a pool thread is not suspended for ever, and
the mutex is held only across steps that wait for nothing; weak fairness is
enough for the mutex because the number of messages is bounded), the delivery of
a completed Write to some thread (`cq_->Next` in every pool thread), and the
completion of a Write, with success or failure. Neither writing a message nor
breaking the stream is fair.
`StreamConnection`: the threads' steps, and the delivery of completions that are
due: a finished write, the failure of a read after the client has gone, the
notification of cancellation. A client need neither send nor leave.
`LoggerQueue`: a producer in `emplace` and the writing thread go on; logging and
exit are not fair. `MarketData` states safety only.

**Findings.**

1. `stale_head`. After a match that stops inside a second level, the head of
   that level is an erased limit (fifomatching.hpp:47). The next match there
   reads freed memory.
2. `fill_response`. Both fills of a match go to the incoming order's connection
   under its id (orderbook.cpp:86-92); README.md:53 promises clients a response
   for their fills.
3. `modify_up`. A modify from *c* up to *q* leaves *q + 2c* (orderbook.cpp:125),
   while the log, the market data and the client say *q*.
4. `zero_quantity`. A level that holds an order of quantity 0 is erased under it
   (level.hpp:13); a later cancel of that order erases another order's level,
   against the comment at orderbook.cpp:173.
5. `logger_full`. The test that should hold a producer back while the ring is
   full compares the masked ticket with `tail_` (logger.hpp:98); it waits at times
   when there is room and not when there is none. An entry overtakes or
   overwrites earlier ones, against "FIFO" at logger.hpp:77. In `logger_queue`
   the test is never needed.

## Proofs

Every invariant and every action property of a passing run is stated by a theorem,
and so is the safety half of each refinement. Only liveness is left to TLC, which
these provers do not reach: `HandlerReturns`, `GoneIsDeleted`, and the fairness
halves of the two `ImplementsChannel`.

`OrderBookProofs` assumes only `ConstantAssumption`: the bounds are naturals,
the word sizes positive and the quantities below `Word`.

* `TypeCorrect`: `Spec => []TypeOK`. `TypeOK` is inductive as it stands. The
  lemmas say what each kind of write keeps (inserting in a map, linking,
  erasing a limit, erasing a level), and there is one step per action.
* `NeverCrossed`, `MatchesFromBest`, `RestsUncrossed`: `NotCrossed`,
  `MatcherAtBest` and `RestCannotMatch` are invariants, from `BookInvariant`. `NotCrossed` alone is not inductive:
  `PlaceOrder` would preserve it only if the order it places cannot be matched.
  So `BookInv` adds `RestCannotMatch` (what is left of an order crosses no
  level of the other side), which `NextLevel` in turn establishes only because
  of `MatcherAtBest` (the matcher stands at the best level, so the levels after
  it are all the levels there are). That a non-empty side has a best level
  (`BestExists`) is the well-foundedness of the naturals, and for bids also the
  bound on prices. TLC checks the three conjuncts in `order_book`.

* `FillsAddUp`: `FillsAccountForOrder` is an invariant if quantities fit the word
  in which a fill reports one (`QuantitiesFit`; 16 bits in the code, where an
  order's quantity has 32, and a larger match is reported modulo 2^16).
  `AccountInv` adds that fills come in pairs, that a handler starts with none,
  and that only a handler about to return has announced an order as added.
  `Matched` is a recursive function, so the proof first shows that the recursion
  has a solution and only one: the library's induction theorems cannot be
  instantiated here, but a set of naturals without a least element is empty
  (`LeastElement`, from the well-foundedness of `<`), and `FirstFailure` applies
  that to the set of the numbers where the claim fails.

These theorems, and the first part of `OrderBookRefinementProofs`, hold with
quantity 0, with any word sizes otherwise, and whether or not a level's head is
stale.

`OrderBookRefinementProofs` first adds `ListInv` to `BookInv`. None of the properties it is
for is inductive: a step reads and writes links, and the properties compare
times.

* `Lists` describes the links in terms of fields alone: neighbours point at each
  other and stand in one level (`Chained`); the order without a `next` came last
  in its level, the one without a `prev` first, and nothing came between two
  neighbours (`Ordered`); no two orders have one time (`Timed`). It speaks of the
  orders of an erased level too, because they are still linked to each other,
  and `cancelOrder` still follows those links.
* `LevelsKept`: the tail of a level is the last order there. Its head is the
  first *if it names an order that exists*. The matcher leaves the heads of the
  levels it reaches after the first one stale, so the second clause cannot be
  stronger. It is enough because a stale head never comes to name an order
  again: the ids of heads were handed out before and are not the id of the order
  being added (`Known`), which a re-pricing would otherwise bring back under its
  old id. The level the matcher has used up is excepted until it is erased.
* `HasLevel`: an order with a valid `current_level` is in a level of the book.
* `MatcherAtHead`: the order being matched, if it exists, is the first of the
  level at `book_itr`; when it is nullptr the level is empty.

From `ListInvariant` follow `ListsAreByArrival` (`LevelsLinkedByArrival`),
`LevelsHaveOrders` (`NoEmptyLevel`) and, with `MatcherAtBest`,
`MatchesInPriority` (`PriceTimePriority`). The lemmas say what unlinking,
placing, marking and writing a quantity do to `Lists` and to the two ends of a
level; each action then applies one or two of them. TLC checked `ListInv` on
the instances of `order_book` and `order_book_sweep` and on one whose count of
orders wraps at 2.

Its second part is about executions in which `NothingWraps`: new
orders have a quantity, three times the quantity of a modification fits in
`Word` (a modification up from *l* to *q* makes it *q + 2l*), and all orders can be
counted in `CountWord`. The instance of `order_book` satisfies it. Each part is
needed: a level is erased when it counts no order with a quantity, so a
quantity of 0, one that wraps to 0 and a count that does all lose the orders of
a level. `zero_quantity` shows the first; in the code the second takes a
quantity of about 2^31 and the third a level of 65536 orders. `SolidInv` adds to
the invariants above that every order has a level and a quantity, and that the
matcher stands at a level that crosses.

* `NoOrderLost` (`NoOrphan`), `LastOrderOnly` (`LastOrderTakesLevel`).
* `BookIsFIFO` (`ImplementsFIFOBook`): initial states map to initial states and
  each action to a step of `FIFOBook` or to none. `AddOrder` is `Arrive`,
  `CancelOrder` `Withdraw`, `ModifyQuantity` `Amend`, `ModifyPrice` `Replace`, both
  fills are `Fill`, the report of a filled order `Exhausted` and `PlaceOrder`
  `Rest`; the other steps are not seen. The two steps with content are
  `MatcherIsFirst` (the order at `book_order` is the one `FIFOBook` must trade
  with) and `PlaceOrderRests` (an order that rests could not be matched).

Left to TLC: `HandlerReturns`, which is liveness under fairness.

`WriteQueueProofs` assumes only `QueueAssumption`. `NoOverlap` is not inductive.
`ControlInv` adds that a thread is inside the mutex exactly if it owns it, that
there is one callback at a time and only while the stream is free, and that a
Write or a callback is under way exactly while `write_in_progress` is set *or*
some thread is about to set it: the gap between `Write` and the assignment of
the flag is covered by the mutex. `DataInv` then describes the queue as the last
messages sent, without gaps, whose front is what is being written, and accounts
for every message as delivered, queued, or both while its callback runs.

* `QueueTypeCorrect`, `WritesDoNotOverlap`, `MarkIsExact`: types and control.
* `NoMessageStranded`, `CallbackPopsItsMessage`: from `DataInv`.
* `DeliversInOrder`: initial states and steps of `WriteQueue` map to those of
  `MessageChannel`. That every message is delivered in the end (the fairness
  half of `ImplementsChannel`) stays with TLC.

`ClientFeedProofs` is about the client alone, to which any datagram may come at
any time, so it covers every loss, repetition and reordering.
`FeedNeverNegative` needs `SmallQuantities`: each announced quantity is positive
and fits an `int32`. It is inductive together with the types: a level stays
positive because `removeFromBook` erases it otherwise, an order because
`fillOrder` does. `MCMarketData` has TLC evaluate the other assumption,
`FeedAssumption`. `DataPlatformProofs` proves `PlatformTypeCorrect`: `PlatformInv`
adds that the buffer holds a datagram whenever the loop runs or a send waits, so
no unwritten buffer is ever sent, that a send that waits has the length of some
datagram, that the loop only visits subscribers, and that nothing waits or is cut
without a full socket. The theorem is about types only: it does not say that what
a client reads was ever written. What is cut need not be; `CarriesStep` says that
the rest was.

`StreamConnectionProofs` assumes nothing about how many threads, connections and
users there are. `OperationsCounted` is a statement about sets of threads and is
not inductive. `ConnInv` says where the threads of a connection can be: one
thread at most is in the chain from accept over the first read to the reads
(`OneChain`) and one in the chain of writes (`OneWriter`); the count is what the
memory held, the operations pending, the threads whose callback has not counted
its own yet and the leaked ones (`Counted`, which keeps those threads finite); a
deleted connection whose count did not start below 0 has no operation pending
(`Drained`), and one whose first read has not been handled has no user
(`NoUserYet`). All five are about one connection
(`Local`): the proof has one case per action, and the connections that an action
does not touch are dealt with once.

* `ConnectionTypeCorrect`, `CountIsExact` (`OperationsCounted`),
  `ReadsDoNotOverlap` (`OneReader`).
* `OperationsEndFirst` (`NoOperationOutlivesConnection`), `NoDanglingStream`
  (`RegisteredIsAlive`).
* `CountFromAboveZeroStays`: from a count above 0 a connection is never deleted.
  It follows from `Counted`: the count is never 0.

`GoneIsDeleted` is liveness and stays with TLC.

`LoggerQueueProofs` needs `MaxOutstanding <= Size`: no more messages are between
`log` and the file than the ring has entries. Only one step uses it, the taking
of a ticket, where it says that the entry of the new ticket is not one that is
still written or read; `logger_full` shows what happens otherwise, since the
test for a full ring does not hold a producer back. `RingInv` relates each
ticket from `tail` on to its entry: held by exactly one producer and not marked,
or marked and holding the message of that ticket.

* `LoggerTypeCorrect`, `SlotsAreOwned` (`SlotHasOneOwner`).
* `LogIsInOrder`: the file holds the messages in the order of their tickets.
* `LoggerIsChannel`: initial states and steps map to those of `MessageChannel`;
  its fairness half stays with TLC.

`MarketDataProofs` is about the composition. Each part is an instance together
with its theorems, so the proof adds only what the parts do to each other: what
the book sends is what may be read, what the platform reads is what may be in
the network, and that is what the client may receive.

* `MarketTypeCorrect` (`TypeOK`), from the types of the three parts, for every
  value of the constants that satisfies `MarketDataAssumption`.
* `MarketNeverNegative` (`NothingNegative`), if `QuantitiesFit`: the book's
  quantities do not wrap, twice an ordered quantity is below `Word` (the client's
  `int32` is signed) and no fill exceeds its 16 bits. `MCMarketData` has TLC
  evaluate that the run's instance satisfies it. The strengthening is that every
  message under way, in the handler, the queue, the buffer or, until something
  is cut, the network, carries a positive quantity that fits. In the theorems
  below `InOrder` excludes a full socket, so nothing waits and nothing is cut
  (`NothingCut`).
* `MarketLevelsMatch` (`LevelsMatchOrders`), under the same hypothesis. A level's
  size is a sum over a set of orders (`MapThenSumSet`, a fold, which is a choice
  of a recursive function). As for `Matched`, the proof shows that the sum over a
  finite set satisfies the equation of its recursion, by the least counterexample
  among the cardinalities, and hence what adding, removing or changing one
  order does to it. Then each handler of the client keeps sums and levels
  together, *if* an announced order is not known yet and a fill names no known
  order: `emplace` would keep the first order and the level grow by both, and
  a fill would take from the level more than the order has.

  That neither happens is a fact about everything still to come. `Stream` is
  what the client will receive if nothing is lost: the network, the datagram in
  the platform's hands, the queue, and what the running handler has sent.
  `Separated` says that in it, an order that is known or announced is not
  announced again, nor the subject of a fill, before its cancel; and if datagrams
  may be lost, not at all, since the cancel may be. `Free` says of the order in
  a handler's hands that the next announcement may be its own. The inductive
  invariant `FollowInv` is `HandlerShape` (what a handler has sent, by its place)
  and, while `InOrder` holds, `Subscribed` (who is in the platform's loop, and that
  the client is sent nothing before its subscription is answered), `KnownOK` (only
  ids that were handed out are announced), `StreamOK` (`Separated`, `Free`) and
  `TotalsOK`, the property. Moving a datagram from one place to the next leaves
  `Stream` alone (`TransportKeeps`), delivery and loss drop its first datagram
  (`LosesOne`), and a handler appends to it (`HandlerStream`). TLC checked these
  invariants on the run's instance and on larger ones.
* `MarketDiffersOnlyByTrades` (`DifferOnlyByTrades`), under the same hypothesis.
  The property speaks only of moments at which nothing is under way, so it is far
  from inductive. The strengthening `MirrorOK` says at every moment, for each
  order, what `Stream` will leave behind. `WordOK`: if the last datagram that
  names the order announces or changes it (or none names it and the client
  holds it), then it rests, has traded, or is the other book's, and the quantity
  said is the book's, or larger if it has traded since, unless it is misstated; if
  the order rests, its last word is one of these. `PlaceOK`: every announcement of a resting order that
  no cancel follows gives its side and price. `HereOK`: if no client comes late,
  there is one. The ghosts are taken together with what the running handler has
  done and will record when it returns (`TradedNow`, `MisstatedNow`), so that
  `Publish` changes nothing. Delivering the first datagram keeps this because
  the client takes from it what `Takes` says (here `Separated` is used again: an
  announcement that met a known order would change nothing at the client); a
  client that is late misses datagrams only while it knows no order
  (`Subscribed`). A handler's messages name one order, for which they are the
  last word (`RequestMirrors`, `HandlerMirrors`), and a match changes one resting
  order, which no message names: that is what `traded` records
  (`TradeMirrors`).

## Not modelled, and the plan

* **Overlapping handlers of one book.** `try_to_lock` is never tested, so the
  mutex excludes nothing. Two handlers that overlap race on `std::map`,
  `unordered_map` and plain pointers: undefined at the first shared access, and
  no property is left to state. `modifyOrder`'s second `try_to_lock` is
  undefined by the standard and fails without effect in practice, which is how
  `OrderBook` takes it.
* **Shutdown.** The SIGINT handler walks `client_streams_` beside the pool
  threads and shuts the queue down; `Next` then returns false and the assertion
  in every pool thread ends the process. No state outlives it.
* **The dispatcher's start-up**, one blocking handshake before any thread starts.
* **The terminal's texts and screen, the wire format and the utilities**: they
  format and print. A typed value that is no number throws in `std::stoi` and
  ends the client.
