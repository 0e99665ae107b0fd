---------------------------- MODULE TradingSystem ----------------------------
(***************************************************************************)
(* The whole program (src/main.cpp): the feed's thread and consumerLoop's, *)
(* joined by the ring buffer, which is the bounded queue it implements     *)
(* (RingBufferProofs!QueueImplemented).  An exception in the feed's thread *)
(* ends the process and loses what a stream has not flushed; started       *)
(* again, everything is empty but the log files, which Logger::init opens  *)
(* to append.                                                              *)
(***************************************************************************)
EXTENDS MarketDataFeed, FiniteSetsExt, SequencesExt

CONSTANTS
  SymbolConfig,   \* symbolConfig of the exchange
  Capacity,       \* orders the ring buffer holds
  MaxRestarts     \* bound: times the process is started again

ASSUME SystemAssumption ==
  /\ Capacity \in Nat \ {0} /\ MaxRestarts \in Nat
  /\ DOMAIN SymbolConfig \subseteq Symbols \ {""}
  /\ \A s \in DOMAIN SymbolConfig :
       /\ SymbolConfig[s][1] \in Nat /\ SymbolConfig[s][2] \in Nat
       /\ SymbolConfig[s][1] <= SymbolConfig[s][2]
  /\ 1 .. MaxOrders \subseteq OrderIds

VARIABLES
  queue,      \* the ring buffer
  books, orders, running, trades, errors, received,   \* the exchange
  measured,   \* calls of addLatency
  unflushed,  \* the lines the streams tradeFile and errorFile hold back
  files,      \* trades.log and errors.log
  opened,     \* history: what they held when this process opened them
  restarts    \* how often the process has been started again

consumerVars == << books, orders, running, trades, errors, received, measured >>
loggerVars == << unflushed, files, opened >>
vars == << feedVars, queue, consumerVars, loggerVars, restarts >>

FeedLevels ==
  UNION {{Visited(d)[i] : i \in DOMAIN Visited(d)} : d \in Depths}

FeedOrders ==
  {OrderOf(v, 0) : v \in {w \in FeedLevels : w.level # Malformed}}

Ring == INSTANCE BoundedQueue WITH Messages <- Order, delivered <- received

Ex == INSTANCE Exchange WITH Incoming <- FeedOrders

(* Lines of both logs, and the calls of logTrade and logError so far. *)
NoLines == [trades |-> << >>, errors |-> << >>]

Joined(k, l) == [trades |-> k.trades \o l.trades, errors |-> k.errors \o l.errors]

Lines == [trades |-> trades, errors |-> errors]

Init ==
  /\ FeedInit
  /\ Ring!Init
  /\ Ex!Init
  /\ measured = 0
  /\ unflushed = NoLines /\ files = NoLines /\ opened = NoLines
  /\ restarts = 0
----------------------------------------------------------------------------
(* The feed's thread. *)

FeedOnly == UNCHANGED << queue, consumerVars, loggerVars, restarts >>

(* Mutants of Push: the ring is never full; "if" instead of "while", so an *)
(* order that finds the ring full is dropped.                              *)
Push_Unbounded ==
  /\ Pushed
  /\ queue' = Append(queue, outgoing)
  /\ UNCHANGED << consumerVars, loggerVars, restarts >>

Push_Once ==
  /\ Pushed
  /\ queue' = IF Len(queue) < Capacity THEN Append(queue, outgoing) ELSE queue
  /\ UNCHANGED << consumerVars, loggerVars, restarts >>

Push ==
  /\ Pushed
  /\ Ring!Put(outgoing)
  /\ UNCHANGED << consumerVars, loggerVars, restarts >>

(* The consumer's thread: pop and call processOrder, run its loop, measure *)
(* the call.  A line is put into its stream and flushed before the call of *)
(* logTrade or logError returns; the process may die in between.           *)

Since(old, new) == SubSeq(new, Len(old) + 1, Len(new))

Put ==
  /\ unflushed' = Joined(unflushed, [trades |-> Since(trades, trades'),
                                     errors |-> Since(errors, errors')])
  /\ UNCHANGED << files, opened >>

Flush ==
  /\ alive /\ unflushed # NoLines
  /\ files' = Joined(files, unflushed)
  /\ unflushed' = NoLines
  /\ UNCHANGED << feedVars, queue, consumerVars, opened, restarts >>

(* Mutant of Consume: the order stays in the ring. *)
Consume_Peeks ==
  /\ alive
  /\ measured = Len(received)
  /\ queue # << >>
  /\ Ex!ProcessOrder(Head(queue))
  /\ Put
  /\ UNCHANGED << feedVars, queue, measured, restarts >>

Consume ==
  /\ alive
  /\ measured = Len(received)
  /\ Ring!Take
  /\ Ex!ProcessOrder(Head(queue))
  /\ Put
  /\ UNCHANGED << feedVars, measured, restarts >>

(* Mutant of Work: a line is left to a later flush. *)
Work_Unflushed ==
  /\ alive
  /\ Ex!Loop
  /\ Put
  /\ UNCHANGED << feedVars, queue, measured, restarts >>

Work ==
  /\ alive /\ unflushed = NoLines
  /\ Ex!Loop
  /\ Put
  /\ UNCHANGED << feedVars, queue, measured, restarts >>

Measure ==
  /\ alive /\ unflushed = NoLines
  /\ running = "" /\ measured < Len(received)
  /\ measured' = measured + 1
  /\ UNCHANGED << feedVars, queue, books, orders, running, trades, errors,
                  received, loggerVars, restarts >>

(* A new process: an empty ring, no books, ids from 1 again. *)
ConsumerRestart ==
  /\ queue' = << >>
  /\ books' = [s \in {} |-> NewBook(0, 0)]
  /\ orders' = [s \in DOMAIN orders |-> EmptyOrder]
  /\ running' = ""
  /\ trades' = << >> /\ errors' = << >> /\ received' = << >>
  /\ measured' = 0

(* Mutant of Restart: the logs are opened to be overwritten. *)
Restart_Truncates ==
  /\ ~ alive /\ restarts < MaxRestarts
  /\ FeedRestart
  /\ ConsumerRestart
  /\ opened' = files /\ files' = NoLines /\ unflushed' = NoLines
  /\ restarts' = restarts + 1

Restart ==
  /\ ~ alive /\ restarts < MaxRestarts
  /\ FeedRestart
  /\ ConsumerRestart
  /\ opened' = files /\ files' = files /\ unflushed' = NoLines
  /\ restarts' = restarts + 1

Consumer == Consume \/ Work \/ Flush \/ Measure

Next == ((Receive \/ Visit) /\ FeedOnly) \/ Push \/ Consumer \/ Restart

Spec == Init /\ [][Next]_vars

(* The feed's thread goes on with the message it has read, spinning on     *)
(* push; the consumer's loop never ends.  The server may fall silent.      *)
FairSpec ==
  /\ Spec
  /\ WF_vars((Visit /\ FeedOnly) \/ Push)
  /\ WF_vars(Consumer)
----------------------------------------------------------------------------
(* The queue never holds more than the ring can, every order keeps its     *)
(* type on the way, each call of processOrder is measured once, and the    *)
(* exchange stays in its type whatever the server sends.                   *)
TypeOK ==
  /\ FeedTypeOK
  /\ queue \in Seq(Order) /\ Len(queue) <= Capacity
  /\ Ex!TypeOK
  /\ measured \in 0 .. Len(received) /\ Len(received) <= measured + 1
  /\ {unflushed, files, opened} \subseteq
       [trades : Seq(Ex!Trade), errors : Seq(Ex!ErrorLine)]
  /\ restarts \in 0 .. MaxRestarts

(* What the feed has made so far, wherever it is by now. *)
Made ==
  received \o queue \o (IF outgoing = NoOrder THEN << >> ELSE << outgoing >>)

(* The n-th level the server sent becomes the order with id n and nothing  *)
(* else does, across both threads, full rings, and an exception in the     *)
(* middle of a message: none is lost, repeated, overtaken or renumbered,   *)
(* and what a malformed level cut off was never made.                      *)
FeedInOrder ==
  /\ nextOrderId = Len(Made) + 1
  /\ processedCount = Len(received) + Len(queue)
  /\ Len(offered) = Len(Made) + Len(levels)
  /\ \A i \in DOMAIN offered :
       IF i <= Len(Made)
       THEN offered[i].level # Malformed /\ Made[i] = OrderOf(offered[i], i)
       ELSE offered[i] = levels[i - Len(Made)]

(* Driven by the feed through the ring, the exchange behaves as Exchange   *)
(* alone: orders reach it numbered from 1 without gaps, one at a time.     *)
ExchangeInSystem ==
  Ex!Init /\ [][alive => [Ex!Next]_(Ex!vars)]_vars

(* A trade is at most one unit below what the seller's message asked and   *)
(* never above what the buyer's offered: the two roundings of the prices   *)
(* in the feed and the comparison in the engine, end to end.               *)
ExecutedWithinOneUnit ==
  \A n \in DOMAIN trades :
    LET buy  == offered[trades[n].buyOrderId]
        sell == offered[trades[n].sellOrderId]
    IN  /\ buy.side = "BUY" /\ sell.side = "SELL"
        /\ trades[n].price \in sell.level.price - 1 .. buy.level.price

Total(f(_), S) == MapThenSumSet(f, S)

(* What rests on a side, and what of the order in hand is on that side. *)
Unexecuted(s) ==
  LET resting == UNION {Resting(books[y], s) : y \in DOMAIN books}
      inHand  == {orders[y] : y \in {running} \ {""}}
  IN  Total(LAMBDA o : o.remainingQuantity,
            resting \cup {o \in inHand : o.side = s})

(* A depth message is a snapshot, but each of its levels is one more order *)
(* (marketdata.cpp:53-63): a side holds all that was ever offered on it,   *)
(* in every message again, less what traded.                               *)
SnapshotsAccumulate ==
  \A s \in Side :
    Total(LAMBDA i : received[i].quantity,
          {i \in DOMAIN received : Ex!Sound(received[i]) /\ received[i].side = s})
      = Unexecuted(s)
          + Total(LAMBDA n : trades[n].quantity, DOMAIN trades)

(* However long the snapshots pile up, no bid rests at or above a resting  *)
(* ask: what the feed's rounding makes meet has traded (NoCrossedBook of   *)
(* MatchingEngine, for every book of the program).                         *)
BooksUncrossed ==
  \A y \in DOMAIN books :
    \A b \in Resting(books[y], "BUY"), a \in Resting(books[y], "SELL") :
      b.price < a.price

(* Who trades, in the terms of the server: no resting order was offered at *)
(* a price better by more than the unit the feed may take off, and those   *)
(* offered at the same price trade in the order the server sent them.      *)
ServedInOrder ==
  [][Len(trades') > Len(trades) =>
       LET t    == trades'[Len(trades')]
           s    == Opposite(orders[running].side)
           with == IF s = "SELL" THEN t.sellOrderId ELSE t.buyOrderId
           p    == offered[with].level.price
       IN  \A q \in Resting(books[running], s) :
             LET r == offered[q.orderId].level.price
             IN  /\ IF s = "SELL" THEN p <= r + 1 ELSE r <= p + 1
                 /\ r = p => with <= q.orderId]_vars

RestingOrders == UNION {AllResting(books[y]) : y \in DOMAIN books}

(* The steps that may be left until the next message: two for a level to   *)
(* be visited and pushed, five for its order to be popped, matched, logged *)
(* or rested, and measured, and two for each resting order, which a trade  *)
(* may remove and log.                                                     *)
ToDo ==
  5 * (Len(offered) - Len(received)) + 2 * Len(levels)
    + (IF outgoing = NoOrder THEN 0 ELSE 1)
    + (IF running = "" THEN 0 ELSE IF Ex!LoopGuard(orders[running]) THEN 3 ELSE 1)
    + 2 * Cardinality(RestingOrders) + (Len(received) - measured)
    + (Len(unflushed.trades) + Len(unflushed.errors))

(* Each level of each message costs the two threads at most seven steps,   *)
(* the iterations of the matching loop and the flushes included, whatever  *)
(* the quantities and however many orders rest: nothing goes in circles.   *)
BoundedWork ==
  [][alive /\ alive' =>
       IF offered' = offered THEN ToDo' < ToDo
       ELSE ToDo' = ToDo + 7 * (Len(offered') - Len(offered))]_vars

(* Wherever an exception of the feed's thread ends the process, the files  *)
(* have all that earlier processes left in them and all that this one      *)
(* logged, in order, but for one line at most: the last, about the order   *)
(* popped last, whose call of processOrder has not returned.  What a call  *)
(* that has been measured has logged is in the files for good.             *)
OnlyLastLineLost ==
  LET o == received[Len(received)]
  IN  \/ files = Joined(opened, Lines)
      \/ /\ measured < Len(received) /\ trades # << >>
         /\ o.orderId \in {Last(trades).buyOrderId, Last(trades).sellOrderId}
         /\ files = Joined(opened, [Lines EXCEPT !.trades = Front(trades)])
      \/ /\ measured < Len(received) /\ errors # << >>
         /\ o.orderId = Last(errors).orderId
         /\ files = Joined(opened, [Lines EXCEPT !.errors = Front(errors)])

(* Every level the server has sent reaches the exchange, unless the        *)
(* process dies: the spin on a full ring always ends.                      *)
EveryLevelProcessed ==
  \A k \in 1 .. MaxOrders :
    (Len(offered) >= k) ~> (Len(received) >= k \/ ~ alive)
=============================================================================
