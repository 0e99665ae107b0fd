# Verification of the low latency order matching engine

TLA+ modules, TLC models and TLAPS proofs for the C++ matching engine of this
repository. Paths are relative to the repository root; its own README is
cited as `README.md:<line>` (this file is never meant by that).

* [1. The system](#1-the-system)
* [2. The modules](#2-the-modules)
* [3. The runs](#3-the-runs)
* [4. The proofs](#4-the-proofs)
* [5. What disagrees with the documentation](#5-what-disagrees-with-the-documentation)
* [6. What is not modelled](#6-what-is-not-modelled)
* [7. Plan](#7-plan)

## 1. The system

Two threads run. The producer reads depth messages from a WebSocket, turns each
price level into an `Order` and pushes it into a ring buffer. The consumer pops
orders, passes each to the exchange, and measures the call. They share the ring
buffer and nothing else; exchange, engines, books, logger and latency tracker
belong to the consumer.

```
 WebSocket -> MarketDataFeed --push--> RingBuffer --pop--> consumerLoop
                                                              |  \
                                              Exchange <------+   +--> LatencyTracker
                                             /    |    \
                                MatchingEngine  (one per symbol)  Logger
                                        |
                                    OrderBook
```

| Component | State | Operations | Interacts with |
| --- | --- | --- | --- |
| `OrderBook` (`orderbook.*`, `order.h`) | a deque of orders per price and side, `bestBidIndex`, `bestAskIndex`, `orderIndex`, `cancelledOrders` | `addOrder`, `cancelOrder`, `getBestBid/Ask`, `isCancelled`, `removeTopBid/Ask` | called by its engine; `cancelOrder` by a client of the book |
| `MatchingEngine` (`matchingengine.*`) | a reference to its book | `processOrder`, `executeTrade` | changes its book and the caller's order through references; `Logger::logTrade` |
| `Exchange` (`exchange.*`) | a book and an engine per symbol, created on first use; the price range of each symbol | `processOrder` | engines; `Logger::logError` |
| `RingBuffer` (`ringbuffer.*`) | 1024 slots, atomic `head` and `tail` | `push` (producer), `pop` (consumer) | the two threads |
| `MarketDataFeed` (`marketdata.*`) | `nextOrderId`, `processedCount`, the WebSocket | `connectWebSocket`, `runWebSocket`, `processMessage`, `processLevel` | pushes, and spins while the ring is full |
| `main`, `consumerLoop` (`main.cpp`) | the order popped last, a call counter | pop, process, measure; every 20th order prints the statistics | ring, exchange, tracker |
| `LatencyTracker` (`latencytracker.*`) | a ring of samples and a count | `addLatency`, `printStats` | consumer thread only |
| `MemoryPool` (`memorypool.*`) | an intrusive free list | `allocate`, `deallocate` | only `pool_benchmark.cpp` |
| `Logger` (`logger.*`) | two files | `init`, `logTrade`, `logError`, `close` | engine, exchange |

What is hard about each, and the properties that make it correct:

* **OrderBook and MatchingEngine.** Everything rests on the two best pointers:
  the engine sees one order through each, and an order a pointer hides neither
  trades nor is noticed. They are moved by `addOrder`, by the scan at the end of
  `removeTop`, and not by `cancelOrder`. Fills go through a C++ reference into a
  deque, so the copy that rests and the copy in hand must agree on what is left.
  Cancels may arrive before, while and after an order rests. Correct means: the
  book never crosses, the best pointers never hide an order, trades follow
  price-time priority and the limits of limit orders, quantity is neither created nor lost, a
  cancelled order never trades, and every call returns.
* **Exchange.** Its checks are the engine's only protection from prices that do
  not index the level arrays. Correct means: each unusable order is logged once,
  with a true reason, and changes nothing else; each engine sees the sound
  orders of its own symbol and keeps its book between calls.
* **RingBuffer.** No lock: an index loaded from the other thread may be
  arbitrarily old, and an `Order` holds a string and is not copied atomically.
  Correct means: no slot is touched by both threads, and the ring is a FIFO
  queue from which every pushed order is popped.
* **MarketDataFeed, consumerLoop.** Binary floating point to integers, a spin on
  a full ring, and exceptions that nothing catches: they end the process in the
  middle of a message, while the consumer may be between two fills. Correct means:
  a price or quantity loses at most one unit; the n-th level of all messages is
  the order with id n, and the exchange gets them in that order, none lost,
  repeated or renumbered; a crash costs the logs at most the line that was being
  written; the spin ends.
* **LatencyTracker.** A ring that wraps by a mask and percentile indices that are
  truncated. Correct means: the ring holds the last `CAPACITY` samples, and what is
  printed is a percentile of them.
* **MemoryPool.** The links of the free list are in the slots, where their holders
  write. Correct means: no slot is handed out twice, none is lost.

## 2. The modules

| Module | What it is |
| --- | --- |
| `OrderBook` | data and operators: `Order`, `Book`, one operator per member function |
| `MatchingStep` | one iteration of the loop of `MatchingEngine::processOrder`, as operators on a book and an order |
| `MatchingEngine` | the engine of one symbol: a state machine on `MatchingStep`, and its properties |
| `LimitOrderBook` | abstract: a set of resting orders matched with price-time priority |
| `Exchange`, `MCExchange` | `Exchange::processOrder` with an engine per symbol; the instance for TLC |
| `RingBuffer` | `push` and `pop` step by step under the C++ memory model |
| `BoundedQueue` | abstract: a bounded FIFO queue that delivers what is put |
| `DecimalConversion` | `stod(text) * scale` truncated, as operators |
| `ConversionSweep`, `MCConversionSweep` | every decimal of some ranges put through it |
| `MarketDataFeed` | the feed's thread: messages, levels, orders, exceptions |
| `TradingSystem`, `MCTradingSystem` | the program: feed, queue, `consumerLoop`, exchange, restarts |
| `LatencyTracker` | the ring of samples and its percentiles |
| `MemoryPool`, `SlotPool` | the free list; abstract: a set of free slots |
| `OrderBookProofs`, `MatchingEngineProofs` | lemmas on each operator of the book, and the theorems on the engine |
| `ExchangeProofs` | the theorems on the exchange |
| `RingBufferProofs`, `LatencyTrackerProofs` | the theorems on the two rings |
| `MemoryPoolProofs`, `TradingSystemProofs` | the theorems on the pool and on the program |
| `NumberFacts` | what these share: least elements and induction, `%`, sums over finite sets |

**OrderBook.** A book is a record. `bids` and `asks` are `levels["BUY"]` and
`levels["SELL"]`, and the pointers are `best["BUY"]` and `best["SELL"]`. Levels
and pointers are indexed by price where the code indexes by `price - MIN_PRICE`.
The bid and ask versions of a function differ only in the direction of
comparisons, which `Better` holds. The loop that ends `removeTop` is
`NextBest`: the first occupied level from the pointer on, or the last price.
`clientId` and `timeStamp` are never read and are left out.

**MatchingStep and MatchingEngine.** A call of `processOrder` is a sequence of
actions, one per iteration of its `while` loop, so that the book in the middle of
a call is a state of its own. `ProcessOrder` is the call up to the loop, with its
test for an order cancelled already; the iterations are `Rest` (no reachable
order on the other side: `addOrder` and break), `Expire` (a market order with no
order left to meet), `SkipCancelled` (`removeTop` and continue), `ExecuteTrade`
(`executeTrade`, and `removeTop` when the resting order is used up) and `Return`
(nothing left to trade). `Cancel` is `cancelOrder`, between two calls: one thread
owns the book. Variables `received` and `cancelled` are history. `CancelIds` and
`UniqueIds` say what clients do: the program itself passes increasing ids and
never cancels, a client of `OrderBook` may.

**Exchange.** `Reject` is each of the early returns, `Dispatch` the creation of
book and engine on first use and the call of the engine. `running` names the
engine that is inside `processOrder`; its steps are those of `MatchingStep` on
`books[running]`. The program keeps one order in hand; `orders` keeps the last
one of each symbol so that each engine can be compared with `MatchingEngine`.
The test for an empty symbol (`src/exchange.cpp:22`) comes after the symbol has
been found in `symbolConfig` and can never succeed, so `Reason` has no case for
it. The exchange cannot cancel, so `SkipCancelled` has no counterpart.
`ErrorsExplained` and `EnginesIndependent` speak of the part of a history that
concerns one symbol or the errors: `Filter(q, S)`, the elements of `q` that are in
`S`, in their order. Orders come in with status `NEW`, which is what `processLevel`
gives them (`src/marketdata.cpp:125`).

**RingBuffer.** Each atomic is the sequence of values stored in it, its
modification order. The owner loads the last one (`memory_order_relaxed` on
one's own index); the other thread loads any value that is not older than what it
loaded before (coherence), and sees the slots written before the store of that
value (acquire and release). Copying an order takes two steps, between which the
slot is `Torn`. `PushFull`, `BeginWrite`, `EndWrite`, `StoreTail` and `PopEmpty`,
`BeginRead`, `EndRead`, `StoreHead` are the statements of `push` and `pop`. The
mask `x & (SIZE - 1)` is `x % SIZE`: `RingAssumption` makes `SIZE` a power of two.

**DecimalConversion.** A price text is the whole number `n` of cents it stands for,
a quantity text that of units of 1/100000; further digits, which a text may have,
are dropped by the truncation and are not distinguished. `stod` rounds `n / scale`
to a double, the product with `scale` is rounded again and then truncated.
`RoundedDown` is the error of the first rounding and `Spacing` the distance of the
doubles at `n`, in one common unit of integers: the product rounds to `n` unless
the error is more than half the spacing, and then to the double below `n`, which
truncates to `n - 1` (`ToInteger`). The formula agrees with binary64 arithmetic
on every number of `MCRanges`.

**MarketDataFeed and TradingSystem.** `levels` is what the loops of
`processMessage` have still to visit, `outgoing` the order that `processLevel` spins
with. `Read` is a message, `MakeOrder` an iteration up to `push`, `Push` the `push`
that succeeds (one that fails changes nothing), `Throw` a level that is no pair of
decimals, `Fail` a failed read or a message that does not parse. Nothing in
`src/main.cpp` catches: `alive` becomes `FALSE`, which stops both threads. A side
that is missing or `null` in a message has no levels, since `operator[]` of
json.hpp on a non-const object inserts a null; `runWebSocket` does not look at
what else a message says. The ring is `BoundedQueue`, which
`QueueImplemented` justifies: feed and exchange touch the ring by `push` and `pop`
alone. `Consume` pops and calls `Exchange::processOrder`, `Work` is the loop of
the engine, `Measure` the call of `addLatency`. A step that calls `logTrade` or `logError`
puts its line into a stream (`Put`, `unflushed`), which holds it back until `Flush`, the end
of that call, writes it to its file (`files`): a line is shorter than the stream's
buffer, and a process that an uncaught exception ends flushes nothing. The feed's
thread may end the process between the two. `Restart` starts a new one, with empty books
and ids from 1, and `Logger::init` opens both files to append; `opened` is history,
what they held by then.

**LatencyTracker.** `Measure` is an iteration of `consumerLoop` as the tracker sees
it: `addLatency`, and `printStats` in every `PrintEvery`-th. The assignment to an element
of a `std::vector` checks no index, so `Store` outside the ring is a store all the
same, which `TypeOK` then does not allow. `Sorted` is what
`std::sort` does to the copied prefix, `InUse`: it puts each element behind those
that come `Before` it. The three indices are those the doubles give for
every count up to 131072.

**MemoryPool.** `memory[p]` is the first word of slot `p`: a link while the slot is
free, the holder's while it is held (`Write`). `Deallocate` takes held slots only:
the code has no check, so the rule is the caller's, and `pool_benchmark.cpp` keeps it.

## 3. The runs

| Run | Question | Properties |
| --- | --- | --- |
| `EngineTrading` | the engine as the program drives it | `TypeOK`, `NoCrossedBook`, `BestIsBest`, `LimitsRespected`, `ImplementsLimitOrderBook` |
| `EngineCancel` | cancels at any time between calls | `PointerBounds`, `RestingWellFormed`, `IndexLocates`, `FillsAccounted`, `PriceTimePriority`, `CancelIsFinal` |
| `EngineReusedIds` | clients that reuse ids and cancel them | `ProcessOrderReturns`, `EveryIterationShrinks` |
| `ExchangeRouting` | validation and routing, two symbols | `TypeOK`, `ErrorsExplained`, `EnginesIndependent` |
| `RingBuffer` | two threads and stale indices | `TypeOK`, `NoRace`, `ImplementsBoundedQueue`, `EveryOrderDelivered` |
| `DecimalConversion` | every price of BTCUSDT, quantities to 2.5 BTC | `AtMostOneUnitLow` |
| `TradingSystem` | both threads, the ring full, a crash, a restart | `TypeOK`, `FeedInOrder`, `ExecutedWithinOneUnit`, `SnapshotsAccumulate`, `BooksUncrossed`, `OnlyLastLineLost`, `ExchangeInSystem`, `ServedInOrder`, `BoundedWork`, `EveryLevelProcessed` |
| `LatencyTracker` | the ring of samples wraps | `TypeOK`, `RingHoldsWindow`, `ReportsPercentiles` |
| `MemoryPool` | slots come back in any order, overwritten | `TypeOK`, `FreeListIntact`, `ImplementsSlotPool` |
| `EngineStalePointer` | a cancel that empties the best level | `BestIsBest` violated |
| `EngineEagerCancel` | how a cancel removes an order | `LazyDeletion` violated |
| `PriceRoundedDown` | whether prices are exact | `Exact` violated |

What they show:

* `EngineTrading`: `LimitsRespected` leaves the price of a MARKET seller's trades open:
  the code logs the seller's price (`src/matchingengine.cpp:129`), and such a seller has no
  limit. With no cancels the pointers always show the best order, so
  the engine implements the abstract book step by step (`ImplementsLimitOrderBook`
  maps `resting` to all orders on the levels) and the book never crosses.
* `EngineCancel`: a cancel may leave a pointer on an empty level, so `BestIsBest`
  and `NoCrossedBook` are lost (finding 1). What survives: no order is beyond
  its pointer, levels stay well formed, the index finds every order, quantities
  add up, trades still take the best order of those there are, and a cancelled id
  never trades.
* `EngineReusedIds`: with unique ids the branch of the loop that drops a
  cancelled resting order is dead, since a cancel erases what rests at once. It
  is reached when two orders share an id. Even then every call returns, because
  each iteration but the last takes an order off the other side or fills the one in
  hand (`EveryIterationShrinks`).
* `ExchangeRouting`: `EnginesIndependent` is a refinement, once per symbol, to
  `MatchingEngine` with that symbol's price range, so all that is said of one
  engine alone holds of each engine in the exchange.
* `RingBuffer`: see the proofs for the safety part; `EveryOrderDelivered` is the
  liveness part.
* `DecimalConversion`: a price or quantity is never too high and at most one unit
  too low, so that the order of two prices is never reversed (they may become
  equal), and no positive quantity becomes the zero that the exchange rejects. All
  prices from 60000.00 to 65536.00 are exact; from there the doubles have too few bits left
  for the product, and 71,424 of the 1,000,001 prices lose one (finding 3).
* `TradingSystem`: `FeedInOrder` relates the levels received to the orders in the
  feed, in the ring and in the exchange, and so says at each moment where each
  level is. `ExchangeInSystem` is the link that makes the runs and proofs on
  `Exchange` and `MatchingEngine` hold in the program: their callers may do more than
  the feed does. `ExecutedWithinOneUnit` puts both roundings and the engine's
  comparison together. `SnapshotsAccumulate` records what the feed makes of depth
  messages: each is a snapshot of the server's best levels, but each level of
  it is a new order, and nothing removes what the message before had. `OnlyLastLineLost`
  says what a crash at any point may cost the logs, in this process and in those before
  it: the line between stream and file, which is always about the order whose call
  has not returned. `BooksUncrossed` says that the pile never
  crosses, and `ServedInOrder` who trades, in the terms of the server: prices as
  they were sent, before the feed rounded them, and the order in which they were
  sent. `EveryLevelProcessed` is the liveness of the whole pipeline; `BoundedWork`
  is what lies behind it: `ToDo` counts the steps that may be left, each step takes
  from it, and a level read adds seven.
* `LatencyTracker`: `ReportsPercentiles` states what a percentile is of the samples
  that count and never mentions sorting or indices.
* `MemoryPool`: `FreeListIntact` says that there is a list without repetition of
  exactly the slots not held that the links follow; `ImplementsSlotPool` that
  allocate never returns a held slot, nor `nullptr` while one is free.

**Bounds.** Prices `1..3` are the smallest range with a level strictly between
both ends, so that scans cross empty levels and stop at an end. Quantities
`{1, 2}` give exact, partial and multiple fills. Three orders make one fill
against two levels, or two orders on one level and a third that takes them; the
fourth order of `EngineTrading` observes what the third left. Cancels come on top
of three orders. `ExchangeRouting` has two symbols with ranges `1..2` and `2..4`,
one configured nowhere, and an order for each check, four calls. The ring has
four slots, so three orders fill it, and six pushes take both indices round it
and past the start. `DecimalConversion` has no bound on prices: BTCUSDT has 60000.00
to 70000.00 (`src/exchange.h:14`), and all of them are checked; the program has no
feed for another symbol (`src/main.cpp:39`). `TradingSystem` has four messages that between them
have a bid and an ask one cent apart that become the same price, quantities that lose
a unit, a price outside the range, an empty side and a malformed level after a good
one; six levels through a ring of two fill it more than once, cross messages and
leave room for trades, and one restart is enough to find state that should or should
not have survived (55,512 states). `LatencyTracker` has a ring of 16, the smallest at
which the 90th and 99th percentile differ from each other and from the 50th, and
18 samples, so that it wraps; two values of samples suffice to find a wrong rank
(the 0-1 principle of sorting). `MemoryPool` has four slots: a head, an end and two
slots in between that may be held in either order. The runs with
`CHECK_DEADLOCK FALSE` end when the bound on calls, pushes, samples or restarts is
reached.

**Fairness.** `MatchingEngine!FairSpec` has weak fairness of the loop: a thread
inside `processOrder` runs on. `RingBuffer!FairSpec` has weak fairness of a push
that found room (no wait is left in it) and of the consumer's loop, which spins on
`pop` for ever (`src/main.cpp:17`) and at some time loads the newest tail: C++
asks that atomic stores become visible in reasonable time. Nothing is assumed of
a producer that has not started a push, or of clients. `TradingSystem!FairSpec`
has weak fairness of the feed's thread inside a message (`Visit` and `Push`: it
spins on `push` until there is room, and `Push` stays enabled once there is, since
only the feed puts) and of the consumer. None is assumed of `Receive`: the server may
fall silent. Once the process is dead nothing is owed.

## 4. The proofs

TLAPS proves these for every value of the constants that satisfies the stated
assumptions: any price range, any ids and quantities, any number of calls, any
power of two.

| Theorem | States |
| --- | --- |
| `MatchingEngineProofs!TypeCorrect` | `[]TypeOK`, under any cancels |
| `MatchingEngineProofs!PointersCorrect` | `[]PointerBounds`, under any cancels |
| `MatchingEngineProofs!LevelsCorrect` | `[]RestingWellFormed`, under any cancels |
| `MatchingEngineProofs!BookNeverCrossed` | `[]NoCrossedBook`, if nothing is cancelled |
| `MatchingEngineProofs!BestCorrect` | `[]BestIsBest`, if nothing is cancelled |
| `MatchingEngineProofs!LimitsCorrect` | `[]LimitsRespected`, with unique ids |
| `MatchingEngineProofs!IndexCorrect` | `[]IndexLocates`, with unique ids |
| `MatchingEngineProofs!CancelCorrect` | `CancelIsFinal`, with unique ids |
| `MatchingEngineProofs!PriorityCorrect` | `PriceTimePriority`, with unique ids |
| `MatchingEngineProofs!FillsAddUp` | `[]FillsAccounted`, with unique ids |
| `MatchingEngineProofs!LoopShrinks` | `EveryIterationShrinks`, and `ToMatch` stays a natural number, under any cancels and ids |
| `MatchingEngineProofs!LimitOrderBookImplemented` | the engine implements `LimitOrderBook`, with unique ids and no cancels |
| `ExchangeProofs!ExchangeTypeCorrect` | `[]TypeOK` |
| `ExchangeProofs!EveryErrorExplained` | `[]ErrorsExplained` |
| `ExchangeProofs!EnginesBehaveAlone` | `EnginesIndependent`: the engine of each symbol implements `MatchingEngine` |
| `RingBufferProofs!TypeCorrect` | `[]TypeOK` |
| `RingBufferProofs!RaceFree` | `[]NoRace` |
| `RingBufferProofs!QueueImplemented` | the ring without fairness implements `BoundedQueue` |
| `LatencyTrackerProofs!TypeCorrect` | `[]TypeOK` |
| `LatencyTrackerProofs!WindowCorrect` | `[]RingHoldsWindow` |
| `LatencyTrackerProofs!PercentilesCorrect` | `[]ReportsPercentiles` |
| `MemoryPoolProofs!TypeCorrect` | `[]TypeOK` |
| `MemoryPoolProofs!FreeListCorrect` | `[]FreeListIntact` |
| `MemoryPoolProofs!PoolImplemented` | the free list implements `SlotPool` |
| `TradingSystemProofs!InOrderCorrect` | `[]FeedInOrder` |
| `TradingSystemProofs!ExchangeImplemented` | `ExchangeInSystem` |
| `TradingSystemProofs!SystemTypeCorrect` | `[]TypeOK` |
| `TradingSystemProofs!LinesSurvive` | `[]OnlyLastLineLost` |
| `TradingSystemProofs!WithinOneUnit` | `[]ExecutedWithinOneUnit` |
| `TradingSystemProofs!OfferedAddsUp` | `[]SnapshotsAccumulate` |
| `TradingSystemProofs!NoBookCrosses` | `[]BooksUncrossed` |
| `TradingSystemProofs!ServedAsSent` | `ServedInOrder` |
| `TradingSystemProofs!WorkIsBounded` | `BoundedWork`, and `ToDo` stays a natural number |

**The engine.** `TypeOK` is not inductive: that a fill does not underflow, or that
an order put on a level belongs there, needs what the call knows of the order in
hand (`OrderInHand`), what is true of all resting orders (`WellPlaced`) and that
the pointers reach all of them (`Reached`, else the scan of `removeTop` would miss
one). Their conjunction is `Inv`, preserved by every action, cancels included.
`NoCrossedBook` needs more: an order rests only if the best order on the other side
is out of reach, and that says something of *all* orders of that side only if the
pointer is on an occupied level, or at the worst price of an empty side
(`PointsAtLive`). `TradingInv` is `Inv /\ PointsAtLive /\ Uncrossed`. `Cancel` is
the one action that breaks `PointsAtLive`, and the theorems on the spread
therefore assume `CancelIds = {}`; the run `EngineStalePointer` shows that they
need to. `OrderBookProofs` has one lemma per operator of the book.
`EveryIterationShrinks` needs only `Inv`: an order is skipped or traded through the
pointer of its side, so it is the first of an occupied level and `removeTop` takes just
that one (`KeptShorter`, `TradeRemovesTop`); and a trade that does not use up the
resting order uses up the one in hand. `Places`, the places of all queues of a side, are
counted rather than the orders, since equal orders may rest there when ids repeat.
Assumptions: `EngineAssumption`, and `OrderIdsAssumption` (no client id is 0,
which the engine takes for an empty side; the feed numbers from 1,
`src/marketdata.h:33`).

**The ring.** `RingInv` says that the n-th store of either index is
`(n - 1) % SIZE` (`Rounds`), that what each thread has seen of the other is less
than a ring away (`Apart`), and that the slots between head and tail hold whole
orders (`Held`). `Apart` bounds the index *seen*, not the current one, which is
why staleness does no harm: the other thread only ever moves away. Two stores less
than `SIZE` apart name different slots (`SlotsDiffer`), which is the one place
that needs arithmetic modulo `SIZE`. Race freedom follows from the invariant; the
refinement then maps each store of `tail` to `Put`, each store of `head` to
`Take`, and every other step to a stutter. Assumption: `RingAssumption`.

**The life of an order.** What the engine does to one order from its call to its last
trade relates the book to the history of calls, trades and cancels. `HistoryInv`
adds to `Inv`: ids increase in call order; every resting order came from a client,
with the fields the client gave it (`Traced`); the index has its level
(`Indexed`); each level is sorted by id, which under increasing ids is arrival order
(`InOrder`); no cancelled order rests (`NoneOf`) or is in hand, and a cancelled
id that has not come yet is in `cancelledOrders` (`CancelsKept`); all trades are
within the limits of the orders they name. `Kept` describes what `removeTop` and
`cancelOrder` do to a level, one element left out and the rest in order, which
preserves all of these. `CancelIsFinal` then follows because a trade is between the
order in hand and one that rests; `PriceTimePriority` because the pointer is at the
best occupied level when the engine sees an order through it, cancels or not; and a
step of the engine is one of `LimitOrderBook` because without cancels the pointer
always shows that order if there is one (`TradingInv`). Assumption: `UniqueIds`, which
is how the feed numbers orders; `EngineReusedIds` shows the engine without it.

**Quantities.** `FillsAccounted` is about sums over sets, and the library defines such a
sum by choosing the elements one after the other. `NumberFacts` proves that any
order of choice gives the same sum, by induction on the number of elements
(`SetInduction`: what holds of a set whenever it holds of that set less any one
element holds of every subset of a finite set), and from that what one element more,
fewer or changed does to it. `AccountInv` then says that
what has traded of an order and what is open of it are together at most, and for an
uncancelled limit order exactly, its quantity. It rests on `HistoryInv`: the ids of open
orders are distinct, so a fill moves quantity from open to executed for the two
orders the trade names and for no other, and a cancel takes the open part of one.

**The exchange.** `ExchangeInv` says of each book what `Inv` and `Traced` say of the one
book of `MatchingEngine`, in the price range of its symbol, that all its orders are of
that symbol, and that `cancelledOrders` is empty, since nobody cancels; of the order in
hand that a client sent it; of each trade that it is within the limits of the orders
it names; and that the n-th order received has id n. The lemmas on the
operators of the book (`OrderBookProofs`, `MatchingStep`) are used on `books[running]`
unchanged. That a filtered history grows by the new element or not at all
(`Filter` of an `Append`) is an induction on the length of the history, carried out on the set
of lengths for which it holds (`NatSetInduction`). `EnginesIndependent` goes step by
step: a sound order of symbol s is `ProcessOrder` of the engine of s (`EngineTakes`), a step of
the loop is the same step of the engine of `running` (`EngineRuns`), and everything else
stutters (`EngineIdle`). Assumption: `ExchangeAssumption`: configured price ranges
are nonempty, incoming orders have status `NEW`, and ids are not 0.

**The latency ring.** `RingHoldsWindow` needs only `latencyCount = Len(samples)`: a new
sample takes the slot of the one that leaves the window and of no other, since two
counts less than `CAPACITY` apart have different slots. That lemma, and the
others on `%`, are those of the ring buffer; they are in `NumberFacts`. For the
percentiles, two different elements have different numbers of elements before them,
so there is one for every place of the sorted sequence (`RankExists`, the pigeonhole
principle); fewer than k elements are less than the k-th and at least k are not greater
(`SortedRank`); and slots in use and samples of the window are in one-to-one
correspondence (`SameNumber`), whatever slot the window starts in.

**The pool.** `FreeListIntact` with `TypeOK` is inductive: the function that lists the
free slots loses its first element in `AllocateSlot`, gains one in front in
`Deallocate`, and a `Write` to a held slot is not on it. That it is never longer than
the pool is the pigeonhole principle. Assumption: `PoolAssumption`.

**The program.** `SystemInv` is `FeedInOrder` with the types of the feed and the
queue. Each step but `Restart` keeps `Made`, what the feed has made so far wherever it
is now, or, for `MakeOrder`, appends to it: `Push` and `Consume` only move an order
along (associativity of concatenation). `ExchangeImplemented` follows: the order at
the front of the ring is then the one whose number is the count of calls so far plus one.
The invariants of the exchange are those of `ExchangeProofs` with the orders of the
feed for `Incoming`; a `Restart` takes them back to their initial state (`ExchangeKept`).
`OnlyLastLineLost` needs `LoggerInv`: the streams hold back at most one line (`NothingHeldBack`,
`TradeHeldBack`, `ErrorHeldBack`), since neither the loop nor the next call goes on before it is
flushed; the line is the last of its log and, by `LastReceived`, about the order of the
call that is not measured yet. A crash changes none of this, and a restart makes the files
what this process found.
`ExecutedWithinOneUnit` puts three facts together: trades are within the limits of the
orders they name (`ExchangeInv`), the n-th order is the n-th level (`FeedInOrder`), and
`ToInteger` takes off at most one unit. `SnapshotsAccumulate` needs `BalanceInv`: on each
side, what was offered is what remains in the books and in hand plus what has
traded. Orders of all books have distinct ids, so a fill takes its quantity from
one order of each side; and no order expires, since the feed sends limit orders only.
`BooksUncrossed` carries over `TradingInv` to every book (`UncrossedInv`): nobody
cancels, and a restart begins with no books. `ServedInOrder` is `PriceTimePriority` seen
from outside. The pointer shows the best price and the lowest id on its level; ids are
places in `offered` (`FeedInOrder`); and as `ToInteger` takes off one unit or none, a
price better by more than one unit is not worse after it, and equal ones stay equal.
`BoundedWork` adds up the parts of `ToDo`, which each step changes in one or two places: `MakeOrder` and
`Push` move a level towards the ring, `Consume` starts a call, a trade removes one of
`RestingOrders` or fills the order in hand, `Rest` adds one and ends the call. With
`ToDo` a natural number this is the whole argument that the threads catch up, but for
fairness.
Assumptions: `FeedAssumption`, `SystemAssumption`, `OrderIdsAssumption`.

**Only model-checked.** Liveness, which is beyond the prover: `ProcessOrderReturns`,
`EveryOrderDelivered`, `EveryLevelProcessed`. What is proved of the first and the last is
that the work left is a natural number that every step takes from (`LoopShrinks`,
`WorkIsBounded`); what is not is that a step is enabled while there is work, and that
fairness makes it happen. `AtMostOneUnitLow` is a property of
1.25 million inputs, each of them computed: where the loss begins (`firstLow`) is a fact
about two ranges of numbers, not about all of them.

## 5. What disagrees with the documentation

1. `EngineStalePointer`. `cancelOrder` (`src/orderbook.cpp:18-47`) does not move the
   best pointers. If it empties the best level, `getBestBid` and `getBestAsk` find
   an empty level and return the empty order, although worse-priced orders rest:
   the engine takes the side for empty, and the next limit order rests where it
   should trade. `README.md:69` promises best bid/ask access. Nothing in the
   program calls `cancelOrder` at present.
2. `EngineEagerCancel`. `README.md:114` says that a cancelled order is not removed
   from the middle of its deque, but dropped lazily when it reaches the front.
   `cancelOrder` walks the deque and erases the order at once; `cancelledOrders`
   only keeps ids that rest nowhere.
3. `PriceRoundedDown`. `processLevel` stores `stod(price) * 100` in an integer
   (`src/marketdata.cpp:113`), which truncates: "65540.01" becomes 6554000. Of the prices of
   BTCUSDT 71,424 lose a cent. `README.md:124` calls such errors "unacceptable
   for financial correctness" and 126 promises "exact math with zero rounding error".

A remark without a run: `README.md:93` says of the two threads that "neither blocks the
other". The feed's thread waits in a loop while the ring is full
(`src/marketdata.cpp:128`) and reads nothing meanwhile; `EveryLevelProcessed`
shows that the wait ends.

## 6. What is not modelled

* `json.hpp`: vendored, and 26082 of the 26982 lines of the sources. What the program asks
  of it is in `MarketDataFeed`: which fields have levels, and what throws.
* `connectWebSocket`, `websocket_test.cpp`: calls of Boost.Beast and OpenSSL, before
  the loop starts; a failure there ends the process with nothing done.
* `Logger`: formatting and timestamps. The fields of a trade line (`Trade`,
  `TradeOf`) and of an error line (`ErrorLine`) are in the model, and so are the buffers
  of the streams, the flush and the files opened to append. `close` is never reached: `consumerLoop` has no end.
* `pool_benchmark.cpp`, `test.cpp`: timing and printing, no state. The first is
  where the rules for callers of `MemoryPool` come from.
* Misuse of `MemoryPool`: a slot returned twice, a foreign or null pointer, objects
  smaller than a pointer. The code checks none of them and the program does none.
* Negative quantities in a message: the conversion of a negative double to the
  unsigned `quantity` is undefined, and an exchange does not send one.
* Exhaustion of memory, and the width of integers: ids and counts have 64 bits,
  prices and quantities are far from the limits. The one exception is
  `processedCount`, an `int` that nothing reads and that more than 2^31 levels in one
  run would overflow.

## 7. Plan

Done: every component that keeps state, the composition of the two threads, and
theorems on every safety property of the runs that pass but `AtMostOneUnitLow`. What is
left, in this order:

1. A bound on the conversion for every scale and number: that `ToInteger` is the truncated
   product of two roundings, from a definition of rounding to 53 bits.
2. A client that cancels while the program runs, should the program get one:
   `cancelOrder` from a third thread would need a lock that the book does not have.
