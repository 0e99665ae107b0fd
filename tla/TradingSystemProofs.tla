------------------------- MODULE TradingSystemProofs -------------------------
(***************************************************************************)
(* The way of an order from the server to the exchange, for any messages,  *)
(* any capacity of the ring and any number of restarts.                    *)
(***************************************************************************)
EXTENDS TradingSystem, SequenceTheorems, TLAPS

Pending == IF outgoing = NoOrder THEN << >> ELSE << outgoing >>

SystemInv ==
  /\ FeedTypeOK
  /\ queue \in Seq(Order) /\ received \in Seq(Order)
  /\ FeedInOrder

(* Truncation takes at most one unit off. *)
LEMMA ToIntegerType ==
  ASSUME NEW n \in Nat, NEW scale
  PROVE  ToInteger(n, scale) \in Nat
BY DEF ToInteger

LEMMA OrderOfType ==
  ASSUME NEW v \in Visits, v.level # Malformed, NEW id \in Nat
  PROVE  /\ OrderOf(v, id) \in Order
         /\ OrderOf(v, id).orderId = id
         /\ OrderOf(v, id) # NoOrder
<1>1. v.side \in Side /\ v.level \in Level
  BY DEF Visits
<1>2. v.level.price \in Nat /\ v.level.quantity \in Nat
  BY <1>1 DEF Level
<1> DEFINE p == ToInteger(v.level.price, 100)
           q == ToInteger(v.level.quantity, 100000)
<1>3. p \in Nat
  BY <1>2, ToIntegerType
<1>4. q \in Nat
  BY <1>2, ToIntegerType
<1>5. OrderOf(v, id) =
        [side |-> v.side, symbol |-> FeedSymbol, price |-> p, quantity |-> q,
         orderType |-> "LIMIT", orderId |-> id, remainingQuantity |-> q,
         status |-> "NEW"]
  BY DEF OrderOf
<1> HIDE DEF p, q
<1>6. OrderOf(v, id) \in Order
  BY <1>1, <1>3, <1>4, <1>5, FeedAssumption DEF Order, OrderType, Status
<1> QED  BY <1>5, <1>6, FeedAssumption

LEMMA VisitedType ==
  ASSUME NEW d \in Depths
  PROVE  Visited(d) \in Seq(Visits)
<1>1. d.bids \in Seq(Level \cup {Malformed}) /\ d.asks \in Seq(Level \cup {Malformed})
  BY FeedAssumption
<1>2. ASSUME NEW s \in Side, NEW f \in Seq(Level \cup {Malformed})
      PROVE  OfSide(s, f) \in Seq(Visits)
  <2>1. /\ Len(f) \in Nat /\ DOMAIN f = 1 .. Len(f)
        /\ \A i \in 1 .. Len(f) : f[i] \in Level \cup {Malformed}
    BY <1>2, ElementOfSeq, LenProperties
  <2>2. \A i \in 1 .. Len(f) : [side |-> s, level |-> f[i]] \in Visits
    BY <1>2, <2>1 DEF Visits
  <2>3. OfSide(s, f) = [i \in 1 .. Len(f) |-> [side |-> s, level |-> f[i]]]
    BY <2>1 DEF OfSide
  <2>4. OfSide(s, f) \in [1 .. Len(f) -> Visits]
    BY <2>2, <2>3
  <2> QED  BY <2>1, <2>4, SeqDef
<1>3. OfSide("BUY", d.bids) \in Seq(Visits) /\ OfSide("SELL", d.asks) \in Seq(Visits)
  BY <1>1, <1>2 DEF Side
<1> QED  BY <1>3, ConcatProperties DEF Visited

LEMMA MadeIs == Made = (received \o queue) \o Pending
BY DEF Made, Pending

LEMMA MadeType ==
  ASSUME SystemInv
  PROVE  /\ Made \in Seq(Order)
         /\ received \o queue \in Seq(Order)
         /\ Len(received \o queue) = Len(received) + Len(queue)
         /\ Pending \in Seq(Order)
<1>1. Pending \in Seq(Order)
  BY DEF Pending, SystemInv, FeedTypeOK
<1>2. received \in Seq(Order) /\ queue \in Seq(Order)
  BY DEF SystemInv
<1>3. received \o queue \in Seq(Order)
      /\ Len(received \o queue) = Len(received) + Len(queue)
  BY <1>2, ConcatProperties
<1> QED  BY <1>1, <1>3, ConcatProperties, MadeIs

(* The n-th order made is the n-th level read; those that are not made yet *)
(* are the levels still to be visited, in their order.                     *)
LEMMA LevelsAreNext ==
  ASSUME SystemInv
  PROVE  /\ offered \in Seq(Visits) /\ levels \in Seq(Visits)
         /\ Len(offered) = Len(Made) + Len(levels)
         /\ \A i \in 1 .. Len(Made) :
              offered[i].level # Malformed /\ Made[i] = OrderOf(offered[i], i)
         /\ \A i \in 1 .. Len(levels) : offered[Len(Made) + i] = levels[i]
<1>1. /\ offered \in Seq(Visits) /\ levels \in Seq(Visits)
      /\ Len(offered) = Len(Made) + Len(levels)
      /\ \A i \in DOMAIN offered :
           IF i <= Len(Made)
           THEN offered[i].level # Malformed /\ Made[i] = OrderOf(offered[i], i)
           ELSE offered[i] = levels[i - Len(Made)]
  BY DEF SystemInv, FeedTypeOK, FeedInOrder
<1>2. /\ Len(Made) \in Nat /\ Len(levels) \in Nat
      /\ DOMAIN offered = 1 .. Len(Made) + Len(levels)
  BY <1>1, MadeType, LenProperties
<1>3. ASSUME NEW i \in 1 .. Len(levels)
      PROVE  offered[Len(Made) + i] = levels[i]
  <2>1. /\ Len(Made) + i \in DOMAIN offered /\ ~ (Len(Made) + i <= Len(Made))
        /\ (Len(Made) + i) - Len(Made) = i
    BY <1>2, <1>3
  <2> QED  BY <1>1, <2>1
<1>4. \A i \in 1 .. Len(Made) : i \in DOMAIN offered /\ i <= Len(Made)
  BY <1>2
<1> QED  BY <1>1, <1>3, <1>4

(* The converse, in the next state. *)
LEMMA InOrderIfNext ==
  ASSUME Made' \in Seq(Order),
         offered' \in Seq(Visits), levels' \in Seq(Visits),
         nextOrderId' = Len(Made') + 1,
         processedCount' = Len(received') + Len(queue'),
         Len(offered') = Len(Made') + Len(levels'),
         \A i \in 1 .. Len(Made') :
           offered'[i].level # Malformed /\ Made'[i] = OrderOf(offered'[i], i),
         \A i \in 1 .. Len(levels') : offered'[Len(Made') + i] = levels'[i]
  PROVE  FeedInOrder'
<1>1. /\ Len(Made') \in Nat /\ Len(levels') \in Nat
      /\ DOMAIN offered' = 1 .. Len(Made') + Len(levels')
  BY LenProperties
<1>2. ASSUME NEW i \in DOMAIN offered'
      PROVE  IF i <= Len(Made')
             THEN offered'[i].level # Malformed /\ Made'[i] = OrderOf(offered'[i], i)
             ELSE offered'[i] = levels'[i - Len(Made')]
  <2>1. CASE i <= Len(Made')
    <3>1. i \in 1 .. Len(Made')
      BY <1>1, <1>2, <2>1
    <3> QED  BY <2>1, <3>1
  <2>2. CASE ~ (i <= Len(Made'))
    <3>1. /\ i - Len(Made') \in 1 .. Len(levels')
          /\ Len(Made') + (i - Len(Made')) = i
      BY <1>1, <1>2, <2>2
    <3> QED  BY <2>2, <3>1
  <2> QED  BY <2>1, <2>2
<1> QED  BY <1>2 DEF FeedInOrder, OrderOf

LEMMA InitInOrder == Init => SystemInv
<1> SUFFICES ASSUME Init PROVE SystemInv
  OBVIOUS
<1>1. /\ levels = << >> /\ outgoing = NoOrder /\ nextOrderId = 1
      /\ processedCount = 0 /\ alive = TRUE /\ offered = << >>
      /\ queue = << >> /\ received = << >>
  BY DEF Init, FeedInit, Ring!Init, Ex!Init
<1>2. Made = << >>
  BY <1>1 DEF Made
<1> QED  BY <1>1, <1>2 DEF SystemInv, FeedTypeOK, FeedInOrder

(* The part of a step that touches neither the levels nor the orders made. *)
LEMMA SameInOrder ==
  ASSUME SystemInv, Made' = Made, UNCHANGED << levels, nextOrderId, offered >>,
         processedCount' = Len(received') + Len(queue')
  PROVE  FeedInOrder'
<1>1. nextOrderId' = Len(Made') + 1
  BY DEF SystemInv, FeedInOrder
<1> QED  BY <1>1, LevelsAreNext, MadeType, InOrderIfNext

LEMMA ReadInOrder ==
  ASSUME SystemInv, NEW d \in Depths, Read(d), FeedOnly
  PROVE  SystemInv'
<1>1. /\ levels = << >> /\ levels' = Visited(d) /\ offered' = offered \o Visited(d)
      /\ UNCHANGED << outgoing, nextOrderId, processedCount, alive, queue, received >>
  BY DEF Read, Waiting, FeedOnly, consumerVars
<1>2. Visited(d) \in Seq(Visits)
  BY VisitedType
<1>3. /\ offered \in Seq(Visits) /\ Len(offered) = Len(Made) /\ Len(Made) \in Nat
      /\ Made \in Seq(Order)
  BY <1>1, LevelsAreNext, MadeType, LenProperties
<1>4. Made' = Made
  BY <1>1 DEF Made
<1>5. /\ offered' \in Seq(Visits) /\ Len(offered') = Len(offered) + Len(levels')
      /\ \A i \in 1 .. Len(offered) : offered'[i] = offered[i]
  <2>1. /\ offered \o Visited(d) \in Seq(Visits)
        /\ Len(offered \o Visited(d)) = Len(offered) + Len(Visited(d))
    BY <1>2, <1>3, ConcatProperties
  <2>2. ASSUME NEW i \in 1 .. Len(offered)
        PROVE  (offered \o Visited(d))[i] = offered[i]
    <3>1. Len(Visited(d)) \in Nat /\ Len(offered) \in Nat
      BY <1>2, <1>3, LenProperties
    <3>2. i \in 1 .. Len(offered) + Len(Visited(d)) /\ i <= Len(offered)
      BY <2>2, <3>1
    <3> QED  BY <1>2, <1>3, <3>2, ConcatProperties
  <2> QED  BY <1>1, <2>1, <2>2
<1>6. \A i \in 1 .. Len(levels') : offered'[Len(offered) + i] = levels'[i]
  <2> SUFFICES ASSUME NEW i \in 1 .. Len(levels')
               PROVE  offered'[Len(offered) + i] = levels'[i]
    OBVIOUS
  <2>1. /\ Len(levels') \in Nat
        /\ Len(offered) + i \in 1 .. Len(offered) + Len(levels')
        /\ ~ (Len(offered) + i <= Len(offered))
        /\ (Len(offered) + i) - Len(offered) = i
    BY <1>1, <1>2, <1>3, LenProperties
  <2> QED  BY <1>1, <1>2, <1>3, <2>1, ConcatProperties
<1>7. nextOrderId' = Len(Made') + 1 /\ processedCount' = Len(received') + Len(queue')
  BY <1>1, <1>4 DEF SystemInv, FeedInOrder
<1>8. \A i \in 1 .. Len(Made') :
        offered'[i].level # Malformed /\ Made'[i] = OrderOf(offered'[i], i)
  BY <1>3, <1>4, <1>5, LevelsAreNext
<1>9. FeedInOrder'
  BY <1>1, <1>2, <1>3, <1>4, <1>5, <1>6, <1>7, <1>8, InOrderIfNext
<1> QED  BY <1>1, <1>2, <1>5, <1>9 DEF SystemInv, FeedTypeOK

LEMMA MakeOrderInOrder ==
  ASSUME SystemInv, MakeOrder, FeedOnly
  PROVE  SystemInv'
<1> DEFINE o == OrderOf(Head(levels), nextOrderId)
<1>1. /\ outgoing = NoOrder /\ levels # << >> /\ Head(levels).level # Malformed
      /\ outgoing' = o /\ levels' = Tail(levels) /\ nextOrderId' = nextOrderId + 1
      /\ UNCHANGED << processedCount, alive, offered, queue, received >>
  BY DEF MakeOrder, FeedOnly, consumerVars
<1>2. /\ levels \in Seq(Visits) /\ offered \in Seq(Visits) /\ nextOrderId \in Nat \ {0}
      /\ nextOrderId = Len(Made) + 1 /\ Len(offered) = Len(Made) + Len(levels)
      /\ processedCount = Len(received) + Len(queue)
  BY DEF SystemInv, FeedTypeOK, FeedInOrder
<1>3. /\ Head(levels) \in Visits /\ Head(levels) = levels[1]
      /\ levels' \in Seq(Visits) /\ Len(levels') = Len(levels) - 1
      /\ \A i \in 1 .. Len(levels') : levels'[i] = levels[i + 1]
      /\ Len(levels) \in Nat \ {0}
  BY <1>1, <1>2, HeadTailProperties, LenProperties, EmptySeq
<1>4. o \in Order /\ o # NoOrder
  BY <1>1, <1>2, <1>3, OrderOfType
<1>5. Made \in Seq(Order) /\ Len(Made) \in Nat
  BY MadeType, LenProperties
<1>6. Made' = Append(Made, o)
  <2>1. Made = received \o queue
    BY <1>1, MadeIs, MadeType, ConcatEmptySeq DEF Pending
  <2>2. Made' = (received \o queue) \o << o >>
    BY <1>1, <1>4 DEF Made
  <2> QED  BY <1>4, <1>5, <2>1, <2>2, AppendIsConcat
<1> HIDE DEF o
<1>7. /\ Made' \in Seq(Order) /\ Len(Made') = Len(Made) + 1
      /\ \A i \in 1 .. Len(Made) : Made'[i] = Made[i]
      /\ Made'[Len(Made) + 1] = o
  BY <1>4, <1>5, <1>6, AppendProperties
<1>8. offered[Len(Made) + 1] = Head(levels)
  BY <1>3, LevelsAreNext
<1>9. ASSUME NEW i \in 1 .. Len(Made')
      PROVE  offered'[i].level # Malformed /\ Made'[i] = OrderOf(offered'[i], i)
  <2>1. i \in 1 .. Len(Made) \/ i = Len(Made) + 1
    BY <1>5, <1>7, <1>9
  <2>2. CASE i \in 1 .. Len(Made)
    BY <1>1, <1>7, <2>2, LevelsAreNext
  <2>3. CASE i = Len(Made) + 1
    BY <1>1, <1>2, <1>7, <1>8, <2>3 DEF o
  <2> QED  BY <2>1, <2>2, <2>3
<1>10. ASSUME NEW i \in 1 .. Len(levels')
       PROVE  offered'[Len(Made') + i] = levels'[i]
  <2>1. i + 1 \in 1 .. Len(levels) /\ Len(Made') + i = Len(Made) + (i + 1)
    BY <1>3, <1>5, <1>7, <1>10
  <2>2. offered[Len(Made) + (i + 1)] = levels[i + 1]
    BY <2>1, LevelsAreNext
  <2> QED  BY <1>1, <1>3, <2>1, <2>2
<1>11. /\ nextOrderId' = Len(Made') + 1
       /\ Len(offered') = Len(Made') + Len(levels')
       /\ processedCount' = Len(received') + Len(queue')
  BY <1>1, <1>2, <1>3, <1>5, <1>7
<1>12. FeedInOrder'
  BY <1>1, <1>2, <1>3, <1>7, <1>9, <1>10, <1>11, InOrderIfNext
<1> QED  BY <1>1, <1>2, <1>3, <1>4, <1>12 DEF SystemInv, FeedTypeOK

LEMMA PushInOrder ==
  ASSUME SystemInv, Push
  PROVE  SystemInv'
<1>1. /\ outgoing # NoOrder /\ outgoing' = NoOrder
      /\ processedCount' = processedCount + 1 /\ queue' = Append(queue, outgoing)
      /\ UNCHANGED << levels, nextOrderId, alive, offered, received >>
  BY DEF Push, Pushed, Ring!Put, consumerVars
<1>2. /\ queue \in Seq(Order) /\ received \in Seq(Order) /\ outgoing \in Order
      /\ processedCount \in Nat /\ processedCount = Len(received) + Len(queue)
  BY <1>1 DEF SystemInv, FeedTypeOK, FeedInOrder
<1>3. /\ queue' \in Seq(Order) /\ Len(queue') = Len(queue) + 1
      /\ queue' = queue \o << outgoing >>
  BY <1>1, <1>2, AppendProperties, AppendIsConcat
<1>4. Made' = Made
  <2>1. Made = (received \o queue) \o << outgoing >>
    BY <1>1 DEF Made
  <2>2. Made' = (received \o queue') \o << >>
    BY <1>1 DEF Made
  <2>3. received \o queue' \in Seq(Order)
    BY <1>2, <1>3, ConcatProperties
  <2>4. Made' = received \o (queue \o << outgoing >>)
    BY <1>3, <2>2, <2>3, ConcatEmptySeq
  <2>5. << outgoing >> \in Seq(Order)
    BY <1>2
  <2> QED  BY <1>2, <2>1, <2>4, <2>5, ConcatAssociative
<1>5. processedCount' = Len(received') + Len(queue')
  <2>1. Len(received) \in Nat /\ Len(queue) \in Nat
    BY <1>2, LenProperties
  <2> QED  BY <1>1, <1>2, <1>3, <2>1
<1>6. FeedInOrder'
  BY <1>1, <1>4, <1>5, SameInOrder
<1> QED  BY <1>1, <1>2, <1>3, <1>6 DEF SystemInv, FeedTypeOK

LEMMA ConsumeInOrder ==
  ASSUME SystemInv, Consume
  PROVE  SystemInv'
<1>1. /\ queue # << >> /\ queue' = Tail(queue)
      /\ received' = Append(received, Head(queue))
      /\ UNCHANGED << levels, outgoing, nextOrderId, processedCount, alive, offered >>
  BY DEF Consume, Ring!Take, feedVars
<1>2. /\ queue \in Seq(Order) /\ received \in Seq(Order)
      /\ processedCount = Len(received) + Len(queue)
  BY DEF SystemInv, FeedInOrder
<1>3. /\ Head(queue) \in Order /\ queue' \in Seq(Order)
      /\ Len(queue') = Len(queue) - 1
  BY <1>1, <1>2, HeadTailProperties
<1>4. << Head(queue) >> \in Seq(Order)
  BY <1>3
<1>5. queue = << Head(queue) >> \o queue'
  <2>1. << Head(queue) >> \o queue' \in Seq(Order)
    BY <1>3, <1>4, ConcatProperties
  <2> QED  BY <1>1, <1>2, <1>3, <1>4, <2>1, ConcatProperties, HeadTailProperties, SeqEqual
<1>6. /\ received' \in Seq(Order) /\ Len(received') = Len(received) + 1
      /\ received' = received \o << Head(queue) >>
  BY <1>1, <1>2, <1>3, AppendProperties, AppendIsConcat
<1>7. Made' = Made
  <2>1. (received \o << Head(queue) >>) \o queue'
          = received \o (<< Head(queue) >> \o queue')
    BY <1>2, <1>3, <1>4, ConcatAssociative
  <2>2. received' \o queue' = received \o queue
    BY <1>5, <1>6, <2>1, Zenon
  <2> QED  BY <1>1, <2>2 DEF Made
<1>8. processedCount' = Len(received') + Len(queue')
  <2>1. Len(received) \in Nat /\ Len(queue) \in Nat
    BY <1>2, LenProperties
  <2> QED  BY <1>1, <1>2, <1>3, <1>6, <2>1
<1>9. FeedInOrder'
  BY <1>1, <1>7, <1>8, SameInOrder
<1> QED  BY <1>1, <1>3, <1>6, <1>9 DEF SystemInv, FeedTypeOK

LEMMA RestartInOrder ==
  ASSUME FeedRestart, ConsumerRestart
  PROVE  SystemInv'
<1>1. /\ levels' = << >> /\ outgoing' = NoOrder /\ nextOrderId' = 1
      /\ processedCount' = 0 /\ alive' = TRUE /\ offered' = << >>
      /\ queue' = << >> /\ received' = << >>
  BY DEF FeedRestart, ConsumerRestart
<1>2. Made' = << >>
  BY <1>1 DEF Made
<1> QED  BY <1>1, <1>2 DEF SystemInv, FeedTypeOK, FeedInOrder

(* Steps of which neither FeedInOrder nor the type of the feed sees more   *)
(* than alive.                                                             *)
LEMMA OtherInOrder ==
  ASSUME SystemInv, alive' \in BOOLEAN,
         UNCHANGED << levels, outgoing, nextOrderId, processedCount, offered,
                      queue, received >>
  PROVE  SystemInv'
<1>1. Made' = Made
  BY DEF Made
<1> QED  BY <1>1 DEF SystemInv, FeedTypeOK, FeedInOrder

LEMMA SystemInductive == SystemInv /\ [Next]_vars => SystemInv'
<1> SUFFICES ASSUME SystemInv, [Next]_vars PROVE SystemInv'
  OBVIOUS
<1>1. CASE Receive /\ FeedOnly
  <2>1. ASSUME NEW d \in Depths, Read(d) PROVE SystemInv'
    BY <1>1, <2>1, ReadInOrder
  <2>2. CASE Fail
    BY <1>1, <2>2, OtherInOrder DEF Fail, FeedOnly, consumerVars
  <2> QED  BY <1>1, <2>1, <2>2 DEF Receive
<1>2. CASE Visit /\ FeedOnly
  <2>1. CASE MakeOrder
    BY <1>2, <2>1, MakeOrderInOrder
  <2>2. CASE Throw
    BY <1>2, <2>2, OtherInOrder DEF Throw, FeedOnly, consumerVars
  <2> QED  BY <1>2, <2>1, <2>2 DEF Visit
<1>3. CASE Push
  BY <1>3, PushInOrder
<1>4. CASE Consume
  BY <1>4, ConsumeInOrder
<1>5. CASE Work
  <2>1. UNCHANGED << feedVars, queue, received >>
    BY <1>5 DEF Work, Ex!Loop, Ex!Rest, Ex!Expire, Ex!ExecuteTrade, Ex!Return
  <2>2. alive \in BOOLEAN
    BY DEF SystemInv, FeedTypeOK
  <2> QED  BY <2>1, <2>2, OtherInOrder DEF feedVars
<1>6. CASE Measure
  <2>1. alive \in BOOLEAN
    BY DEF SystemInv, FeedTypeOK
  <2> QED  BY <1>6, <2>1, OtherInOrder DEF Measure, feedVars
<1>7. CASE Flush \/ UNCHANGED vars
  <2>1. alive \in BOOLEAN
    BY DEF SystemInv, FeedTypeOK
  <2> QED  BY <1>7, <2>1, OtherInOrder DEF Flush, vars, feedVars, consumerVars
<1>8. CASE Restart
  BY <1>8, RestartInOrder DEF Restart
<1> QED  BY <1>1, <1>2, <1>3, <1>4, <1>5, <1>6, <1>7, <1>8 DEF Next, Consumer

(* Whatever the server sends, however full the ring is and wherever an     *)
(* exception strikes, the n-th level read becomes the order with id n      *)
(* (processLevel), and the exchange gets these orders in that order, none  *)
(* twice, none lost.                                                       *)
THEOREM InOrderCorrect == Spec => []FeedInOrder
<1>1. SystemInv => FeedInOrder
  BY DEF SystemInv
<1> QED  BY <1>1, InitInOrder, SystemInductive, PTL DEF Spec
----------------------------------------------------------------------------
(* What the exchange is driven with is what the messages hold. *)
FromMessages == \A i \in 1 .. Len(offered) : offered[i] \in FeedLevels

LEMMA VisitedFromMessages ==
  ASSUME NEW d \in Depths, NEW i \in 1 .. Len(Visited(d))
  PROVE  Visited(d)[i] \in FeedLevels
<1>1. DOMAIN Visited(d) = 1 .. Len(Visited(d))
  BY VisitedType, LenProperties
<1> QED  BY <1>1 DEF FeedLevels

LEMMA InitFromMessages == Init => FromMessages
BY DEF Init, FeedInit, FromMessages

LEMMA ReadFromMessages ==
  ASSUME SystemInv, FromMessages, NEW d \in Depths, Read(d)
  PROVE  FromMessages'
<1>1. offered' = offered \o Visited(d)
  BY DEF Read
<1>2. offered \in Seq(Visits) /\ Visited(d) \in Seq(Visits)
  BY VisitedType DEF SystemInv, FeedTypeOK
<1>3. Len(offered) \in Nat /\ Len(Visited(d)) \in Nat
  BY <1>2, LenProperties
<1>4. /\ Len(offered') = Len(offered) + Len(Visited(d))
      /\ \A i \in 1 .. Len(offered) + Len(Visited(d)) :
           offered'[i] = IF i <= Len(offered) THEN offered[i]
                         ELSE Visited(d)[i - Len(offered)]
  BY <1>1, <1>2, ConcatProperties
<1>5. ASSUME NEW i \in 1 .. Len(offered')
      PROVE  offered'[i] \in FeedLevels
  <2>1. CASE i <= Len(offered)
    <3>1. i \in 1 .. Len(offered)
      BY <1>3, <1>4, <1>5, <2>1
    <3> QED  BY <1>4, <1>5, <2>1, <3>1 DEF FromMessages
  <2>2. CASE ~ (i <= Len(offered))
    <3>1. i - Len(offered) \in 1 .. Len(Visited(d))
      BY <1>3, <1>4, <1>5, <2>2
    <3>2. Visited(d)[i - Len(offered)] \in FeedLevels
      BY <3>1, VisitedFromMessages
    <3> QED  BY <1>4, <1>5, <2>2, <3>2
  <2> QED  BY <2>1, <2>2
<1> QED  BY <1>5 DEF FromMessages, FeedLevels, Visited, OfSide

LEMMA FromMessagesInductive ==
  SystemInv /\ FromMessages /\ [Next]_vars => FromMessages'
<1> SUFFICES ASSUME SystemInv, FromMessages, [Next]_vars PROVE FromMessages'
  OBVIOUS
<1>1. CASE Receive
  <2>1. ASSUME NEW d \in Depths, Read(d) PROVE FromMessages'
    BY <2>1, ReadFromMessages
  <2>2. CASE Fail
    BY <2>2 DEF Fail, FromMessages
  <2> QED  BY <1>1, <2>1, <2>2 DEF Receive
<1>2. CASE Restart
  BY <1>2 DEF Restart, FeedRestart, FromMessages
<1>3. CASE UNCHANGED offered
  BY <1>3 DEF FromMessages
<1>4. CASE Visit \/ Push
  BY <1>3, <1>4 DEF Visit, MakeOrder, Throw, Push, Pushed
<1>5. CASE Consumer \/ UNCHANGED vars
  BY <1>3, <1>5 DEF Consumer, Consume, Work, Flush, Measure, vars, feedVars
<1> QED  BY <1>1, <1>2, <1>4, <1>5 DEF Next

(* The order at the front of the ring is a level of a message, numbered    *)
(* next.                                                                   *)
LEMMA NextReceived ==
  ASSUME SystemInv, FromMessages, queue # << >>
  PROVE  \E o \in FeedOrders : Head(queue) = Ex!Numbered(o)
<1> DEFINE k == Len(received) + 1
<1>1. /\ queue \in Seq(Order) /\ received \in Seq(Order)
  BY DEF SystemInv
<1>2. /\ Len(received) \in Nat /\ Len(queue) \in Nat \ {0}
      /\ Len(Pending) \in Nat /\ Head(queue) = queue[1]
  BY <1>1, MadeType, LenProperties, EmptySeq
<1>3. (received \o queue)[k] = Head(queue)
  <2>1. /\ k \in 1 .. Len(received) + Len(queue) /\ ~ (k <= Len(received))
        /\ k - Len(received) = 1
    BY <1>2
  <2> QED  BY <1>1, <1>2, <2>1, ConcatProperties
<1>4. Made[k] = Head(queue) /\ k \in 1 .. Len(Made)
  <2>1. /\ k \in 1 .. Len(received \o queue) + Len(Pending)
        /\ k <= Len(received \o queue)
    BY <1>2, MadeType
  <2>2. /\ Made[k] = (received \o queue)[k]
        /\ Len(Made) = Len(received \o queue) + Len(Pending)
    BY <2>1, MadeType, MadeIs, ConcatProperties
  <2> QED  BY <1>3, <2>1, <2>2
<1>5. /\ offered[k].level # Malformed /\ Head(queue) = OrderOf(offered[k], k)
      /\ offered[k] \in FeedLevels
  <2>1. k \in 1 .. Len(offered)
    <3>1. /\ Len(offered) = Len(Made) + Len(levels)
          /\ Len(Made) \in Nat /\ Len(levels) \in Nat
      BY LevelsAreNext, MadeType, LenProperties
    <3> QED  BY <1>4, <3>1
  <2> QED  BY <1>4, <2>1, LevelsAreNext DEF FromMessages
<1>6. OrderOf(offered[k], 0) \in FeedOrders
  BY <1>5 DEF FeedOrders
<1>7. OrderOf(offered[k], k) = [OrderOf(offered[k], 0) EXCEPT !.orderId = k]
  BY DEF OrderOf
<1> QED  BY <1>5, <1>6, <1>7 DEF Ex!Numbered

LEMMA StepOfExchange ==
  ASSUME SystemInv, FromMessages, [Next]_vars, alive
  PROVE  [Ex!Next]_(Ex!vars)
<1>1. CASE Consume
  <2>1. queue # << >> /\ Ex!ProcessOrder(Head(queue))
    BY <1>1 DEF Consume, Ring!Take
  <2>2. PICK o \in FeedOrders : Head(queue) = Ex!Numbered(o)
    BY <2>1, NextReceived
  <2>3. \E w \in FeedOrders : Ex!ProcessOrder(Ex!Numbered(w))
    BY <2>1, <2>2
  <2> QED  BY <2>3 DEF Ex!Next
<1>2. CASE Work
  BY <1>2 DEF Work, Ex!Next
<1>3. CASE UNCHANGED Ex!vars
  BY <1>3
<1>4. CASE FeedOnly \/ Push \/ Flush \/ Measure \/ UNCHANGED vars
  BY <1>3, <1>4 DEF FeedOnly, Push, Flush, Measure, vars, consumerVars, Ex!vars
<1>5. ~ Restart
  BY DEF Restart
<1> QED  BY <1>1, <1>2, <1>4, <1>5 DEF Next, Consumer

(* Driven through the feed and the ring the exchange takes no step that    *)
(* Exchange alone does not take with orders numbered from 1 without gaps:  *)
(* what holds there of any clients holds in the program.                   *)
THEOREM ExchangeImplemented == Spec => ExchangeInSystem
<1>1. Init => Ex!Init
  BY DEF Init
<1>2. SystemInv /\ FromMessages /\ [Next]_vars => [alive => [Ex!Next]_(Ex!vars)]_vars
  BY StepOfExchange
<1> QED
  BY <1>1, <1>2, InitInOrder, InitFromMessages, SystemInductive,
     FromMessagesInductive, PTL DEF Spec, ExchangeInSystem
----------------------------------------------------------------------------
(* What is proved of the exchange, for the orders of the feed. *)
ExP == INSTANCE ExchangeProofs WITH Incoming <- FeedOrders

LEMMA FeedOrdersAreOrders ==
  ASSUME NEW o \in FeedOrders
  PROVE  o \in Order /\ o.status = "NEW"
<1>1. PICK v \in FeedLevels : v.level # Malformed /\ o = OrderOf(v, 0)
  BY DEF FeedOrders
<1>2. v \in Visits
  <2>1. PICK d \in Depths : \E i \in DOMAIN Visited(d) : v = Visited(d)[i]
    BY DEF FeedLevels
  <2>2. Visited(d) \in Seq(Visits)
    BY VisitedType
  <2> HIDE DEF Visited
  <2> QED  BY <2>1, <2>2, ElementOfSeq, LenProperties
<1>3. o \in Order
  BY <1>1, <1>2, OrderOfType
<1>4. o.status = "NEW"
  BY <1>1 DEF OrderOf
<1> QED  BY <1>3, <1>4

(* The program gives the exchange what it assumes. *)
LEMMA OrderIdsAssumed == ExP!OrderIdsAssumption
BY OrderIdsAssumption DEF ExP!OrderIdsAssumption

LEMMA NoLocationAssumed == ExP!NoLocationAssumption
BY NoLocationAssumption DEF ExP!NoLocationAssumption, OrderLocation, Side,
   ExP!OrderLocation, ExP!Side

LEMMA ExchangeAssumed == ExP!ExchangeAssumption
<1>1. FeedOrders \subseteq ExP!Order
  <2>1. Order = ExP!Order
    BY DEF Order, Side, SymbolName, OrderType, Status, ExP!Order, ExP!Side,
       ExP!SymbolName, ExP!OrderType, ExP!Status
  <2> QED  BY <2>1, FeedOrdersAreOrders
<1>2. \A o \in FeedOrders : o.status = "NEW"
  BY FeedOrdersAreOrders
<1> QED  BY <1>1, <1>2, SystemAssumption, FeedAssumption
         DEF ExP!ExchangeAssumption, ExP!Configured, ExP!Lowest, ExP!Highest

LEMMA SameExchangeType == Ex!TypeOK <=> ExP!TypeOK
BY DEF Ex!TypeOK, ExP!TypeOK, Ex!Configured, ExP!Configured, Ex!Lowest,
   ExP!Lowest, Ex!Highest, ExP!Highest, Ex!Book, ExP!Book, Ex!Side, ExP!Side,
   Ex!Order, ExP!Order, Ex!OrderType, ExP!OrderType, Ex!Status, ExP!Status,
   Ex!SymbolName, ExP!SymbolName, Ex!Trade, ExP!Trade, Ex!ErrorLine,
   ExP!ErrorLine, Ex!Reasons, ExP!Reasons

LEMMA SameExchangeInit == Ex!Init => ExP!Init
BY Zenon DEF Ex!Init, ExP!Init, Ex!NewBook, ExP!NewBook, Ex!Side, ExP!Side,
   Ex!EmptyOrder, ExP!EmptyOrder, Ex!Configured, ExP!Configured

LEMMA SameExchangeOperators ==
  /\ \A o : Ex!Reason(o) = ExP!Reason(o)
  /\ \A s : Ex!BookFor(s) = ExP!BookFor(s)
  /\ \A b, i : Ex!IsCancelled(b, i) = ExP!IsCancelled(b, i)
  /\ \A o : Ex!LoopGuard(o) = ExP!LoopGuard(o)
  /\ \A b, o : /\ Ex!MustRest(b, o) = ExP!MustRest(b, o)
               /\ Ex!MustExpire(b, o) = ExP!MustExpire(b, o)
               /\ Ex!MustTrade(b, o) = ExP!MustTrade(b, o)
               /\ Ex!AddOrder(b, o) = ExP!AddOrder(b, o)
               /\ Ex!TradeQuantity(b, o) = ExP!TradeQuantity(b, o)
               /\ Ex!BookAfterTrade(b, o) = ExP!BookAfterTrade(b, o)
               /\ Ex!TradeOf(b, o) = ExP!TradeOf(b, o)
  /\ \A o, q : Ex!Filled(o, q) = ExP!Filled(o, q)
<1>1. /\ \A t : Ex!Opposite(t) = ExP!Opposite(t)
      /\ \A t, p, q : Ex!Better(t, p, q) = ExP!Better(t, p, q)
      /\ Ex!EmptyOrder = ExP!EmptyOrder
      /\ \A b, i : Ex!IsCancelled(b, i) = ExP!IsCancelled(b, i)
      /\ \A o : Ex!LoopGuard(o) = ExP!LoopGuard(o)
      /\ \A o, q : Ex!Filled(o, q) = ExP!Filled(o, q)
  BY Zenon DEF Ex!Opposite, ExP!Opposite, Ex!Better, ExP!Better, Ex!EmptyOrder,
       ExP!EmptyOrder, Ex!IsCancelled, ExP!IsCancelled, Ex!LoopGuard,
       ExP!LoopGuard, Ex!Filled, ExP!Filled
<1>2. \A o : Ex!Reason(o) = ExP!Reason(o)
  BY Zenon DEF Ex!Reason, ExP!Reason, Ex!Configured, ExP!Configured, Ex!Lowest,
       ExP!Lowest, Ex!Highest, ExP!Highest
<1>3. \A s : Ex!BookFor(s) = ExP!BookFor(s)
  BY Zenon DEF Ex!BookFor, ExP!BookFor, Ex!NewBook, ExP!NewBook, Ex!Lowest,
       ExP!Lowest, Ex!Highest, ExP!Highest, Ex!Side, ExP!Side
<1>4. \A b, o : Ex!Contra(b, o) = ExP!Contra(b, o)
  <2>1. \A b, t : Ex!GetBest(b, t) = ExP!GetBest(b, t)
    BY <1>1, Zenon DEF Ex!GetBest, ExP!GetBest
  <2> QED  BY <1>1, <2>1, Zenon DEF Ex!Contra, ExP!Contra
<1>5. \A b, o : /\ Ex!NoContra(b, o) = ExP!NoContra(b, o)
                /\ Ex!LiveContra(b, o) = ExP!LiveContra(b, o)
                /\ Ex!OutOfReach(b, o) = ExP!OutOfReach(b, o)
  BY <1>1, <1>4, Zenon DEF Ex!NoContra, ExP!NoContra, Ex!LiveContra,
       ExP!LiveContra, Ex!OutOfReach, ExP!OutOfReach
<1>6. \A b, o : /\ Ex!MustRest(b, o) = ExP!MustRest(b, o)
                /\ Ex!MustExpire(b, o) = ExP!MustExpire(b, o)
                /\ Ex!MustTrade(b, o) = ExP!MustTrade(b, o)
  BY <1>1, <1>5, Zenon DEF Ex!MustRest, ExP!MustRest, Ex!MustExpire,
       ExP!MustExpire, Ex!MustTrade, ExP!MustTrade
<1>7. \A b, o : Ex!AddOrder(b, o) = ExP!AddOrder(b, o)
  BY Zenon DEF Ex!AddOrder, ExP!AddOrder, Ex!Better, ExP!Better
<1>8. \A b, o : Ex!TradeQuantity(b, o) = ExP!TradeQuantity(b, o)
  BY <1>4, Zenon DEF Ex!TradeQuantity, ExP!TradeQuantity
<1>9. \A b, o : Ex!TradeOf(b, o) = ExP!TradeOf(b, o)
  BY <1>4, <1>8, Zenon DEF Ex!TradeOf, ExP!TradeOf
<1>10. \A b, t : Ex!RemoveTop(b, t) = ExP!RemoveTop(b, t)
  BY Zenon DEF Ex!RemoveTop, ExP!RemoveTop, Ex!NextBest, ExP!NextBest,
       Ex!Prices, ExP!Prices, Ex!Better, ExP!Better, Ex!WorstPrice,
       ExP!WorstPrice
<1>11. \A b, o : Ex!BookAfterTrade(b, o) = ExP!BookAfterTrade(b, o)
  <2>1. ASSUME NEW b, NEW o
        PROVE  Ex!BookAfterTrade(b, o) = ExP!BookAfterTrade(b, o)
    <3>1. /\ Ex!Contra(b, o) = ExP!Contra(b, o)
          /\ Ex!TradeQuantity(b, o) = ExP!TradeQuantity(b, o)
      BY <1>4, <1>8, Zenon
    <3> QED  BY <1>1, <1>10, <3>1, Zenon DEF Ex!BookAfterTrade, ExP!BookAfterTrade
  <2> QED  BY <2>1, Zenon
<1> QED  BY <1>1, <1>2, <1>3, <1>6, <1>7, <1>8, <1>9, <1>11, Zenon

LEMMA SameExchangeStep == [Ex!Next]_(Ex!vars) => [ExP!Next]_(ExP!vars)
<1>1. Ex!vars = ExP!vars /\ Ex!vars' = ExP!vars'
  BY DEF Ex!vars, ExP!vars
<1>2. ASSUME NEW o, Ex!ProcessOrder(o) PROVE ExP!ProcessOrder(o)
  <2>1. Ex!Reject(o) => ExP!Reject(o)
    BY SameExchangeOperators, Zenon DEF Ex!Reject, ExP!Reject
  <2>2. Ex!Dispatch(o) => ExP!Dispatch(o)
    BY SameExchangeOperators, Zenon DEF Ex!Dispatch, ExP!Dispatch
  <2> QED  BY <1>2, <2>1, <2>2, Zenon DEF Ex!ProcessOrder, ExP!ProcessOrder
<1>3. Ex!Loop => ExP!Loop
  <2>1. Ex!Rest => ExP!Rest
    BY SameExchangeOperators, Zenon DEF Ex!Rest, ExP!Rest
  <2>2. Ex!Expire => ExP!Expire
    BY SameExchangeOperators, Zenon DEF Ex!Expire, ExP!Expire
  <2>3. Ex!ExecuteTrade => ExP!ExecuteTrade
    BY SameExchangeOperators, Zenon DEF Ex!ExecuteTrade, ExP!ExecuteTrade
  <2>4. Ex!Return => ExP!Return
    BY SameExchangeOperators, Zenon DEF Ex!Return, ExP!Return
  <2> QED  BY <2>1, <2>2, <2>3, <2>4, Zenon DEF Ex!Loop, ExP!Loop
<1>4. \A o : Ex!Numbered(o) = ExP!Numbered(o)
  BY DEF Ex!Numbered, ExP!Numbered
<1> QED  BY <1>1, <1>2, <1>3, <1>4, Zenon DEF Ex!Next, ExP!Next

(* Through the feed, the ring and restarts the exchange keeps its          *)
(* invariant: a new process starts it afresh.                              *)
LEMMA ExchangeOrRestart ==
  SystemInv /\ FromMessages /\ ExP!ExchangeInv /\ [Next]_vars
    => [ExP!Next]_(ExP!vars) \/ ExP!Init'
<1> SUFFICES ASSUME SystemInv, FromMessages, ExP!ExchangeInv, [Next]_vars
             PROVE  [ExP!Next]_(ExP!vars) \/ ExP!Init'
  OBVIOUS
<1>1. CASE Restart
  <2>1. DOMAIN orders = DOMAIN SymbolConfig
    BY DEF ExP!ExchangeInv, ExP!TypeOK, ExP!Configured
  <2>2. ExP!Init'
    BY <1>1, <2>1 DEF Restart, ConsumerRestart, ExP!Init, ExP!Configured,
       NewBook, Side, ExP!NewBook, ExP!Side, EmptyOrder, ExP!EmptyOrder
  <2> QED  BY <2>2
<1>2. CASE ~ Restart
  <2>1. [Ex!Next]_(Ex!vars)
    <3>1. CASE alive
      BY <3>1, StepOfExchange
    <3>2. CASE ~ alive
      <4>1. UNCHANGED Ex!vars
        BY <1>2, <3>2 DEF Next, Receive, Visit, Fail, Read, Waiting, MakeOrder,
           Throw, FeedOnly, Push, Pushed, Consumer, Consume, Work, Flush,
           Measure, vars, consumerVars, Ex!vars
      <4> QED  BY <4>1
    <3> QED  BY <3>1, <3>2
  <2> QED  BY <2>1, SameExchangeStep
<1> QED  BY <1>1, <1>2

LEMMA ExchangeKept == Spec => []ExP!ExchangeInv
<1>1. ExP!Init => ExP!ExchangeInv
  BY ExP!InitExchange, ExchangeAssumed, ExP!ExchangeAssumption,
     OrderIdsAssumed, ExP!OrderIdsAssumption,
     NoLocationAssumed, ExP!NoLocationAssumption
<1>2. ExP!ExchangeInv /\ [ExP!Next]_(ExP!vars) => ExP!ExchangeInv'
  BY ExP!NextExchange, ExchangeAssumed, ExP!ExchangeAssumption,
     OrderIdsAssumed, ExP!OrderIdsAssumption,
     NoLocationAssumed, ExP!NoLocationAssumption
<1>3. Init => ExP!Init
  BY SameExchangeInit DEF Init
<1> QED
  BY <1>1, <1>2, <1>3, ExchangeOrRestart, InitInOrder, InitFromMessages, SystemInductive,
     FromMessagesInductive, PTL DEF Spec
----------------------------------------------------------------------------
(* The bound of the ring, and one call measured at a time.                 *)
ConsumerTypeOK ==
  /\ Len(queue) <= Capacity
  /\ measured \in 0 .. Len(received) /\ Len(received) <= measured + 1
  /\ restarts \in 0 .. MaxRestarts

LEMMA InitConsumerType == Init => ConsumerTypeOK
<1> SUFFICES ASSUME Init PROVE ConsumerTypeOK
  OBVIOUS
<1>1. /\ queue = << >> /\ received = << >> /\ measured = 0
      /\ restarts = 0
  BY DEF Init, Ring!Init, Ex!Init
<1>2. Len(queue) = 0 /\ Len(received) = 0
  BY <1>1
<1>3. 0 <= Capacity /\ 0 \in 0 .. MaxRestarts
  <2>1. Capacity \in Nat /\ MaxRestarts \in Nat
    BY SystemAssumption
  <2> QED  BY <2>1
<1>4. 0 \in 0 .. 0 /\ 0 <= 0 + 1
  OBVIOUS
<1> QED  BY <1>1, <1>2, <1>3, <1>4, Zenon DEF ConsumerTypeOK

LEMMA ConsumerTypeInductive ==
  SystemInv /\ ConsumerTypeOK /\ [Next]_vars => ConsumerTypeOK'
<1> SUFFICES ASSUME SystemInv, ConsumerTypeOK, [Next]_vars PROVE ConsumerTypeOK'
  OBVIOUS
<1> DEFINE q == Len(queue)
           n == Len(received)
<1>1. /\ queue \in Seq(Order) /\ received \in Seq(Order)
      /\ q \in Nat /\ n \in Nat
  BY LenProperties DEF SystemInv
<1>2. /\ q <= Capacity /\ measured \in 0 .. n /\ n <= measured + 1
      /\ restarts \in 0 .. MaxRestarts
      /\ Capacity \in Nat /\ MaxRestarts \in Nat
  BY SystemAssumption DEF ConsumerTypeOK
<1>3. CASE Push
  <2>1. /\ q < Capacity /\ queue' = Append(queue, outgoing)
        /\ UNCHANGED << received, measured, restarts >>
    BY <1>3 DEF Push, Ring!Put, consumerVars
  <2>2. outgoing \in Order
    BY <1>3 DEF Push, Pushed, SystemInv, FeedTypeOK
  <2>3. Len(queue') = q + 1
    BY <1>1, <2>1, <2>2, AppendProperties
  <2> HIDE DEF q, n
  <2>4. Len(queue') <= Capacity
    BY <1>1, <1>2, <2>1, <2>3
  <2> QED  BY <1>2, <2>1, <2>4 DEF ConsumerTypeOK, n
<1>4. CASE Consume
  <2>1. /\ measured = n /\ queue # << >> /\ queue' = Tail(queue)
        /\ received' = Append(received, Head(queue))
        /\ UNCHANGED << measured, restarts >>
    BY <1>4 DEF Consume, Ring!Take
  <2>2. Head(queue) \in Order /\ Len(queue') = q - 1
    BY <1>1, <2>1, HeadTailProperties
  <2>3. Len(received') = n + 1
    BY <1>1, <2>1, <2>2, AppendProperties
  <2> HIDE DEF q, n
  <2>4. /\ Len(queue') <= Capacity
        /\ measured \in 0 .. n + 1 /\ n + 1 <= measured + 1
    BY <1>1, <1>2, <2>1, <2>2
  <2> QED  BY <1>2, <2>1, <2>3, <2>4 DEF ConsumerTypeOK
<1>5. CASE Measure
  <2>1. /\ measured < n /\ measured' = measured + 1
        /\ UNCHANGED << queue, received, restarts >>
    BY <1>5 DEF Measure
  <2> HIDE DEF q, n
  <2>2. measured + 1 \in 0 .. n /\ n <= (measured + 1) + 1
    BY <1>1, <1>2, <2>1
  <2> QED  BY <1>2, <2>1, <2>2 DEF ConsumerTypeOK, q, n
<1>6. CASE Restart
  <2>1. /\ restarts < MaxRestarts /\ queue' = << >> /\ received' = << >>
        /\ measured' = 0 /\ restarts' = restarts + 1
    BY <1>6 DEF Restart, ConsumerRestart
  <2>2. restarts' \in 0 .. MaxRestarts
    BY <1>2, <2>1
  <2>3. Len(queue') = 0 /\ Len(received') = 0
    BY <2>1
  <2> QED  BY <1>2, <2>1, <2>2, <2>3 DEF ConsumerTypeOK
<1>7. CASE UNCHANGED << queue, received, measured, restarts >>
  BY <1>7 DEF ConsumerTypeOK
<1>8. CASE FeedOnly \/ Flush \/ UNCHANGED vars
  BY <1>7, <1>8 DEF FeedOnly, Flush, vars, consumerVars
<1>9. CASE Work
  BY <1>7, <1>9 DEF Work, Ex!Loop, Ex!Rest, Ex!Expire, Ex!ExecuteTrade, Ex!Return
<1> QED  BY <1>3, <1>4, <1>5, <1>6, <1>8, <1>9 DEF Next, Consumer
----------------------------------------------------------------------------
(* The lines of the logs. *)
LogLines == [trades : Seq(Ex!Trade), errors : Seq(Ex!ErrorLine)]

LEMMA LinesType ==
  ASSUME ExP!ExchangeInv
  PROVE  trades \in Seq(Ex!Trade) /\ errors \in Seq(Ex!ErrorLine)
<1>1. ExP!TypeOK
  BY DEF ExP!ExchangeInv
<1> QED  BY <1>1, SameExchangeType DEF Ex!TypeOK

LEMMA LinesTypeNext ==
  ASSUME ExP!ExchangeInv'
  PROVE  trades' \in Seq(Ex!Trade) /\ errors' \in Seq(Ex!ErrorLine)
<1>1. ExP!TypeOK'
  BY DEF ExP!ExchangeInv
<1>2. trades' \in Seq(ExP!Trade) /\ errors' \in Seq(ExP!ErrorLine)
  BY <1>1 DEF ExP!TypeOK
<1> QED
  BY <1>2 DEF Ex!Trade, ExP!Trade, Ex!SymbolName, ExP!SymbolName, Ex!ErrorLine,
     ExP!ErrorLine, Ex!Reasons, ExP!Reasons

LEMMA NoLinesType == NoLines \in LogLines
<1>1. << >> \in Seq(Ex!Trade) /\ << >> \in Seq(Ex!ErrorLine)
  BY EmptySeq
<1> QED  BY <1>1 DEF NoLines, LogLines

LEMMA JoinedType ==
  ASSUME NEW k \in LogLines, NEW l \in LogLines
  PROVE  Joined(k, l) \in LogLines
<1>1. /\ k.trades \in Seq(Ex!Trade) /\ l.trades \in Seq(Ex!Trade)
      /\ k.errors \in Seq(Ex!ErrorLine) /\ l.errors \in Seq(Ex!ErrorLine)
  BY DEF LogLines
<1>2. /\ k.trades \o l.trades \in Seq(Ex!Trade)
      /\ k.errors \o l.errors \in Seq(Ex!ErrorLine)
  BY <1>1, ConcatProperties
<1> QED  BY <1>2 DEF Joined, LogLines

LEMMA JoinedNoLines ==
  ASSUME NEW k \in LogLines
  PROVE  Joined(k, NoLines) = k /\ Joined(NoLines, k) = k
<1>1. /\ k.trades \in Seq(Ex!Trade) /\ k.errors \in Seq(Ex!ErrorLine)
      /\ k = [trades |-> k.trades, errors |-> k.errors]
  BY DEF LogLines
<1>2. /\ k.trades \o << >> = k.trades /\ << >> \o k.trades = k.trades
      /\ k.errors \o << >> = k.errors /\ << >> \o k.errors = k.errors
  BY <1>1, ConcatEmptySeq
<1> QED  BY <1>1, <1>2 DEF Joined, NoLines

LEMMA JoinedAssociative ==
  ASSUME NEW k \in LogLines, NEW l \in LogLines, NEW m \in LogLines
  PROVE  Joined(Joined(k, l), m) = Joined(k, Joined(l, m))
<1>1. /\ k.trades \in Seq(Ex!Trade) /\ k.errors \in Seq(Ex!ErrorLine)
      /\ l.trades \in Seq(Ex!Trade) /\ l.errors \in Seq(Ex!ErrorLine)
      /\ m.trades \in Seq(Ex!Trade) /\ m.errors \in Seq(Ex!ErrorLine)
  BY DEF LogLines
<1>2. \A a, b, c \in Seq(Ex!Trade) : (a \o b) \o c = a \o (b \o c)
  BY ConcatAssociative
<1>3. \A a, b, c \in Seq(Ex!ErrorLine) : (a \o b) \o c = a \o (b \o c)
  BY ConcatAssociative
<1>4. (k.trades \o l.trades) \o m.trades = k.trades \o (l.trades \o m.trades)
  BY <1>1, <1>2, Zenon
<1>5. (k.errors \o l.errors) \o m.errors = k.errors \o (l.errors \o m.errors)
  BY <1>1, <1>3, Zenon
<1> QED  BY <1>4, <1>5 DEF Joined

(* What a step adds to a log. *)
LEMMA SinceSame ==
  ASSUME NEW T, NEW s \in Seq(T)
  PROVE  Since(s, s) = << >>
<1>1. Len(s) \in Nat
  BY LenProperties
<1>2. Len(s) + 1 \in Int /\ Len(s) \in Int /\ Len(s) < Len(s) + 1
  BY <1>1
<1> QED  BY <1>2, SubSeqEmpty DEF Since

LEMMA SinceAppend ==
  ASSUME NEW T, NEW s \in Seq(T), NEW e \in T
  PROVE  /\ Since(s, Append(s, e)) = << e >>
         /\ Front(Append(s, e)) = s /\ Last(Append(s, e)) = e
         /\ Append(s, e) # << >> /\ Append(s, e) \in Seq(T)
         /\ s \o << e >> = Append(s, e)
<1> DEFINE n == Len(s)
           u == Append(s, e)
<1>1. /\ u \in Seq(T) /\ u # << >> /\ Len(u) = n + 1
      /\ \A i \in 1 .. n : u[i] = s[i]
      /\ u[n + 1] = e /\ n \in Nat
  BY AppendProperties, LenProperties
<1>2. Last(u) = e
  BY <1>1 DEF Last
<1>3. \A i \in 1 .. n + 1 : u[i] \in T
  BY <1>1, ElementOfSeq
<1> HIDE DEF u, n
<1>4. SubSeq(u, n + 1, n + 1) = << e >>
  <2>1. /\ n + 1 \in Int /\ (n + 1) - (n + 1) + 1 = 1
        /\ \A i \in n + 1 .. n + 1 : u[i] \in T
        /\ (n + 1) + 1 - 1 = n + 1
    BY <1>1, <1>3
  <2>2. /\ SubSeq(u, n + 1, n + 1) \in Seq(T)
        /\ Len(SubSeq(u, n + 1, n + 1)) = 1
        /\ SubSeq(u, n + 1, n + 1)[1] = e
    BY <1>1, <2>1, SubSeqProperties
  <2>3. << e >> \in Seq(T) /\ Len(<< e >>) = 1 /\ << e >>[1] = e
    OBVIOUS
  <2>4. \A i \in 1 .. Len(SubSeq(u, n + 1, n + 1)) :
          SubSeq(u, n + 1, n + 1)[i] = << e >>[i]
    BY <2>2, <2>3
  <2> QED  BY <2>2, <2>3, <2>4, SeqEqual, Zenon
<1>5. SubSeq(u, 1, n) = s
  <2>1. /\ 1 \in Int /\ n \in Int /\ n - 1 + 1 = n
        /\ \A i \in 1 .. n : u[i] \in T /\ 1 + i - 1 = i
        /\ (IF 1 <= n THEN n - 1 + 1 ELSE 0) = n
    BY <1>1, <1>3
  <2>2. /\ SubSeq(u, 1, n) \in Seq(T) /\ Len(SubSeq(u, 1, n)) = n
        /\ \A i \in 1 .. n : SubSeq(u, 1, n)[i] = u[i]
    BY <2>1, SubSeqProperties
  <2> QED  BY <1>1, <2>2, SeqEqual DEF n
<1>6. /\ Since(s, u) = SubSeq(u, n + 1, n + 1)
      /\ Front(u) = SubSeq(u, 1, n)
  <2>1. (n + 1) - 1 = n
    BY <1>1
  <2> QED  BY <1>1, <2>1 DEF Since, Front, n
<1> QED  BY <1>1, <1>2, <1>4, <1>5, <1>6, AppendIsConcat DEF u

LEMMA LastAndFront ==
  ASSUME NEW T, NEW s \in Seq(T), s # << >>
  PROVE  /\ Front(s) \in Seq(T) /\ Last(s) \in T /\ << Last(s) >> \in Seq(T)
         /\ Front(s) \o << Last(s) >> = s
<1> DEFINE n == Len(s)
<1>1. n \in Nat /\ n # 0 /\ \A i \in 1 .. n : s[i] \in T
  BY LenProperties, ElementOfSeq, EmptySeq
<1>2. 1 \in 1 .. n /\ n \in 1 .. n /\ n \in 1 .. Len(s) /\ n - 1 \in Int
  BY <1>1
<1>3. SubSeq(s, 1, n) = SubSeq(s, 1, n - 1) \o << s[n] >>
  BY <1>2, SubSeqRecursiveSecond
<1>4. SubSeq(s, 1, n) = s
  BY SubSeqFull
<1>5. SubSeq(s, 1, n - 1) \in Seq(T)
  <2>1. \A i \in 1 .. n - 1 : s[i] \in T
    BY <1>1
  <2> QED  BY <1>2, <2>1, SubSeqProperties
<1>6. Front(s) = SubSeq(s, 1, n - 1) /\ Last(s) = s[n]
  BY DEF Front, Last
<1>7. s[n] \in T /\ << s[n] >> \in Seq(T)
  BY <1>1, <1>2
<1> HIDE DEF n
<1> QED  BY <1>3, <1>4, <1>5, <1>6, <1>7

(* A step that logs nothing leaves the streams as they are. *)
LEMMA PutNothing ==
  ASSUME ExP!ExchangeInv, unflushed \in LogLines, Put,
         UNCHANGED << trades, errors >>
  PROVE  UNCHANGED loggerVars
<1>1. Since(trades, trades') = << >> /\ Since(errors, errors') = << >>
  BY LinesType, SinceSame
<1>2. unflushed' = Joined(unflushed, NoLines)
  BY <1>1 DEF Put, NoLines
<1> QED  BY <1>2, JoinedNoLines DEF Put, loggerVars

(* The line of a trade, and the line of an order that is rejected. *)
LEMMA PutTrade ==
  ASSUME ExP!ExchangeInv, ExP!ExchangeInv', unflushed = NoLines, Put,
         errors' = errors, NEW e, trades' = Append(trades, e)
  PROVE  /\ e \in Ex!Trade
         /\ unflushed' = [trades |-> << e >>, errors |-> << >>]
         /\ trades' # << >> /\ Last(trades') = e /\ Front(trades') = trades
<1>1. trades \in Seq(Ex!Trade) /\ errors \in Seq(Ex!ErrorLine)
      /\ trades' \in Seq(Ex!Trade)
  BY LinesType, LinesTypeNext
<1>2. e \in Ex!Trade
  <2> DEFINE k == Len(trades) + 1
  <2>1. Len(trades) \in Nat
    BY <1>1, LenProperties
  <2>2. trades'[k] = e /\ k \in 1 .. Len(trades')
    BY <1>1, <2>1
  <2> HIDE DEF k
  <2> QED  BY <1>1, <2>2, ElementOfSeq
<1>3. /\ Since(trades, trades') = << e >> /\ Since(errors, errors') = << >>
      /\ Front(trades') = trades /\ Last(trades') = e /\ trades' # << >>
  BY <1>1, <1>2, SinceAppend, SinceSame
<1>4. [trades |-> << e >>, errors |-> << >>] \in LogLines
  <2>1. << e >> \in Seq(Ex!Trade) /\ << >> \in Seq(Ex!ErrorLine)
    BY <1>2, EmptySeq
  <2> QED  BY <2>1 DEF LogLines
<1>5. unflushed' = Joined(NoLines, [trades |-> << e >>, errors |-> << >>])
  BY <1>3 DEF Put
<1> QED  BY <1>2, <1>3, <1>4, <1>5, JoinedNoLines

LEMMA PutError ==
  ASSUME ExP!ExchangeInv, ExP!ExchangeInv', unflushed = NoLines, Put,
         trades' = trades, NEW e, errors' = Append(errors, e)
  PROVE  /\ e \in Ex!ErrorLine
         /\ unflushed' = [trades |-> << >>, errors |-> << e >>]
         /\ errors' # << >> /\ Last(errors') = e /\ Front(errors') = errors
<1>1. trades \in Seq(Ex!Trade) /\ errors \in Seq(Ex!ErrorLine)
      /\ errors' \in Seq(Ex!ErrorLine)
  BY LinesType, LinesTypeNext
<1>2. e \in Ex!ErrorLine
  <2> DEFINE k == Len(errors) + 1
  <2>1. Len(errors) \in Nat
    BY <1>1, LenProperties
  <2>2. errors'[k] = e /\ k \in 1 .. Len(errors')
    BY <1>1, <2>1
  <2> HIDE DEF k
  <2> QED  BY <1>1, <2>2, ElementOfSeq
<1>3. /\ Since(errors, errors') = << e >> /\ Since(trades, trades') = << >>
      /\ Front(errors') = errors /\ Last(errors') = e /\ errors' # << >>
  BY <1>1, <1>2, SinceAppend, SinceSame
<1>4. [trades |-> << >>, errors |-> << e >>] \in LogLines
  <2>1. << e >> \in Seq(Ex!ErrorLine) /\ << >> \in Seq(Ex!Trade)
    BY <1>2, EmptySeq
  <2> QED  BY <2>1 DEF LogLines
<1>5. unflushed' = Joined(NoLines, [trades |-> << >>, errors |-> << e >>])
  BY <1>3 DEF Put
<1> QED  BY <1>2, <1>3, <1>4, <1>5, JoinedNoLines

(* Inside a call of processOrder, and what a call may have put into a      *)
(* stream and not flushed.                                                 *)
LastReceived == received[Len(received)]

TradeHeldBack ==
  /\ measured < Len(received) /\ trades # << >>
  /\ LastReceived.orderId \in {Last(trades).buyOrderId, Last(trades).sellOrderId}
  /\ unflushed = [trades |-> << Last(trades) >>, errors |-> << >>]
  /\ files = Joined(opened, [Lines EXCEPT !.trades = Front(trades)])

ErrorHeldBack ==
  /\ measured < Len(received) /\ errors # << >>
  /\ LastReceived.orderId = Last(errors).orderId
  /\ unflushed = [trades |-> << >>, errors |-> << Last(errors) >>]
  /\ files = Joined(opened, [Lines EXCEPT !.errors = Front(errors)])

NothingHeldBack == unflushed = NoLines /\ files = Joined(opened, Lines)

LoggerInv ==
  /\ unflushed \in LogLines /\ files \in LogLines /\ opened \in LogLines
  /\ running # "" => /\ measured < Len(received)
                     /\ orders[running].orderId = LastReceived.orderId
  /\ NothingHeldBack \/ TradeHeldBack \/ ErrorHeldBack

LEMMA LinesAreLines == ExP!ExchangeInv => Lines \in LogLines
BY LinesType DEF Lines, LogLines

LEMMA InitLogger == Init => LoggerInv
<1> SUFFICES ASSUME Init PROVE LoggerInv
  OBVIOUS
<1>1. /\ unflushed = NoLines /\ files = NoLines /\ opened = NoLines
      /\ running = "" /\ Lines = NoLines
  BY DEF Init, Ex!Init, Lines, NoLines
<1>2. files = Joined(opened, Lines)
  BY <1>1, NoLinesType, JoinedNoLines
<1> QED  BY <1>1, <1>2, NoLinesType DEF LoggerInv, NothingHeldBack

(* Steps that log nothing. *)
LEMMA SameLogger ==
  ASSUME LoggerInv, UNCHANGED << loggerVars, trades, errors, received, measured >>,
         UNCHANGED << orders, running >> \/ running' = ""
  PROVE  LoggerInv'
BY DEF LoggerInv, loggerVars, NothingHeldBack, TradeHeldBack, ErrorHeldBack,
   LastReceived, Lines, Joined

(* Between two calls, and before the engine goes on, nothing is held back. *)
LEMMA IdleLogger ==
  ASSUME LoggerInv, measured = Len(received) \/ unflushed = NoLines
  PROVE  unflushed = NoLines /\ files = Joined(opened, Lines)
<1>1. ~ (measured < Len(received)) \/ unflushed = NoLines
  <2>1. ~ (Len(received) < Len(received))
    OBVIOUS
  <2> QED  BY <2>1
<1>2. ASSUME NEW e
      PROVE  /\ NoLines # [trades |-> << e >>, errors |-> << >>]
             /\ NoLines # [trades |-> << >>, errors |-> << e >>]
  <2>1. << e >> # << >>
    OBVIOUS
  <2> QED  BY <2>1 DEF NoLines
<1> QED
  BY <1>1, <1>2 DEF LoggerInv, NothingHeldBack, TradeHeldBack, ErrorHeldBack

LEMMA ConsumeLogger ==
  ASSUME SystemInv, ExP!ExchangeInv, ExP!ExchangeInv', LoggerInv, Consume
  PROVE  LoggerInv'
<1> DEFINE o == Head(queue)
           n == Len(received)
<1>1. /\ measured = n /\ measured' = measured /\ queue # << >>
      /\ received' = Append(received, o) /\ Put
      /\ Ex!Reject(o) \/ Ex!Dispatch(o)
  BY DEF Consume, Ring!Take, Ex!ProcessOrder
<1>2. received \in Seq(Order) /\ o \in Order
  BY <1>1, HeadTailProperties DEF SystemInv
<1>3. n \in Nat /\ Len(received') = n + 1 /\ received'[n + 1] = o
  BY <1>1, <1>2, AppendProperties, LenProperties
<1>4. measured' < Len(received') /\ LastReceived' = o
  BY <1>1, <1>3 DEF LastReceived
<1>5. unflushed = NoLines /\ files = Joined(opened, Lines)
  BY <1>1, IdleLogger
<1>6. running = "" /\ files' = files /\ opened' = opened
  BY DEF Consume, Ex!ProcessOrder, Put
<1>7. files' \in LogLines /\ opened' \in LogLines /\ unflushed \in LogLines
  BY <1>6 DEF LoggerInv
<1>8. CASE Ex!Reject(o)
  <2> DEFINE e == [reason |-> Ex!Reason(o), orderId |-> o.orderId]
  <2>1. trades' = trades /\ errors' = Append(errors, e) /\ running' = running
    BY <1>8 DEF Ex!Reject
  <2>2. e.orderId = o.orderId
    OBVIOUS
  <2> HIDE DEF e
  <2>3. /\ e \in Ex!ErrorLine /\ Last(errors') = e /\ Front(errors') = errors
        /\ unflushed' = [trades |-> << >>, errors |-> << e >>] /\ errors' # << >>
    BY <1>1, <1>5, <2>1, PutError
  <2>4. files' = Joined(opened', [Lines' EXCEPT !.errors = Front(errors')])
    <3>1. [Lines' EXCEPT !.errors = Front(errors')] = Lines
      BY <2>1, <2>3 DEF Lines
    <3> QED  BY <1>5, <1>6, <3>1
  <2>5. unflushed' \in LogLines
    <3>1. << e >> \in Seq(Ex!ErrorLine) /\ << >> \in Seq(Ex!Trade)
      BY <2>3, EmptySeq
    <3> QED  BY <2>3, <3>1 DEF LogLines
  <2>6. ErrorHeldBack'
    BY <1>4, <2>2, <2>3, <2>4 DEF ErrorHeldBack
  <2> QED  BY <1>6, <1>7, <2>1, <2>5, <2>6 DEF LoggerInv
<1>9. CASE Ex!Dispatch(o)
  <2>1. /\ UNCHANGED << trades, errors >> /\ Ex!Reason(o) = "none"
        /\ orders' = [orders EXCEPT ![o.symbol] = o]
        /\ running' = "" \/ running' = o.symbol
    BY <1>9 DEF Ex!Dispatch
  <2>2. o.symbol \in Ex!Configured
    BY <2>1 DEF Ex!Reason
  <2>3. DOMAIN orders = Ex!Configured
    <3>1. Ex!TypeOK
      BY SameExchangeType DEF ExP!ExchangeInv
    <3> QED  BY <3>1 DEF Ex!TypeOK
  <2>4. running' # "" => orders'[running'] = o
    BY <2>1, <2>2, <2>3
  <2>5. UNCHANGED loggerVars
    BY <1>1, <1>7, <2>1, PutNothing
  <2>6. NothingHeldBack'
    BY <1>5, <2>1, <2>5 DEF NothingHeldBack, loggerVars, Lines, Joined, NoLines
  <2> QED  BY <1>4, <1>7, <2>4, <2>5, <2>6 DEF LoggerInv, loggerVars
<1> QED  BY <1>1, <1>8, <1>9

LEMMA WorkLogger ==
  ASSUME ExP!ExchangeInv, ExP!ExchangeInv', LoggerInv, Work
  PROVE  LoggerInv'
<1>1. unflushed = NoLines /\ files = Joined(opened, Lines) /\ Put
  BY IdleLogger DEF Work
<1>2. /\ unflushed \in LogLines /\ files' \in LogLines /\ opened' \in LogLines
      /\ files' = files /\ opened' = opened
  BY <1>1 DEF LoggerInv, Put
<1>3. CASE Ex!ExecuteTrade
  <2> DEFINE o == orders[running]
             e == Ex!TradeOf(books[running], o)
  <2>1. /\ running # "" /\ trades' = Append(trades, e)
        /\ orders' = [orders EXCEPT ![running]
                        = Ex!Filled(o, Ex!TradeQuantity(books[running], o))]
        /\ UNCHANGED << running, errors, received, measured >>
    BY <1>3 DEF Ex!ExecuteTrade, Work
  <2>2. o.orderId = LastReceived.orderId /\ measured < Len(received)
    BY <2>1 DEF LoggerInv
  <2>3. o.orderId \in {e.buyOrderId, e.sellOrderId}
    BY DEF Ex!TradeOf
  <2>4. orders'[running].orderId = o.orderId
    <3>1. DOMAIN orders = Ex!Configured /\ o \in Ex!Order /\ running \in Ex!Configured
      <4>1. Ex!TypeOK
        BY SameExchangeType DEF ExP!ExchangeInv
      <4> QED  BY <2>1, <4>1 DEF Ex!TypeOK
    <3>2. orders'[running] = Ex!Filled(o, Ex!TradeQuantity(books[running], o))
      BY <2>1, <3>1
    <3> HIDE DEF o
    <3> QED  BY <3>1, <3>2 DEF Ex!Filled, Ex!Order
  <2> HIDE DEF e
  <2>5. /\ e \in Ex!Trade /\ Last(trades') = e /\ Front(trades') = trades
        /\ unflushed' = [trades |-> << e >>, errors |-> << >>] /\ trades' # << >>
    BY <1>1, <2>1, PutTrade
  <2>6. files' = Joined(opened', [Lines' EXCEPT !.trades = Front(trades')])
    <3>1. Front(trades') = trades /\ errors' = errors
      BY <2>1, <2>5
    <3>2. [Lines' EXCEPT !.trades = Front(trades')] = Lines
      BY <3>1 DEF Lines
    <3> QED  BY <1>1, <1>2, <3>2
  <2>7. unflushed' \in LogLines
    <3>1. << e >> \in Seq(Ex!Trade) /\ << >> \in Seq(Ex!ErrorLine)
      BY <2>5, EmptySeq
    <3> QED  BY <2>5, <3>1 DEF LogLines
  <2>8. LastReceived' = LastReceived
    BY <2>1 DEF LastReceived
  <2>9. TradeHeldBack'
    BY <2>1, <2>2, <2>3, <2>5, <2>6, <2>8 DEF TradeHeldBack
  <2> QED  BY <1>2, <2>1, <2>2, <2>4, <2>7, <2>8, <2>9 DEF LoggerInv
<1>4. CASE Ex!Rest \/ Ex!Expire \/ Ex!Return
  <2>1. UNCHANGED << trades, errors, received, measured >> /\ running' = ""
    BY <1>4 DEF Ex!Rest, Ex!Expire, Ex!Return, Work
  <2>2. UNCHANGED loggerVars
    BY <1>1, <1>2, <2>1, PutNothing
  <2> QED  BY <2>1, <2>2, SameLogger
<1> QED  BY <1>3, <1>4 DEF Work, Ex!Loop

LEMMA FlushLogger ==
  ASSUME ExP!ExchangeInv, LoggerInv, Flush
  PROVE  LoggerInv'
<1>1. /\ unflushed # NoLines /\ files' = Joined(files, unflushed)
      /\ unflushed' = NoLines /\ opened' = opened /\ Lines' = Lines
      /\ UNCHANGED << running, orders, received, measured >>
  BY DEF Flush, consumerVars, Lines
<1>2. /\ opened \in LogLines /\ Lines \in LogLines /\ unflushed \in LogLines
      /\ files \in LogLines /\ files' \in LogLines
  BY <1>1, LinesAreLines, JoinedType DEF LoggerInv
<1>3. trades \in Seq(Ex!Trade) /\ errors \in Seq(Ex!ErrorLine)
  BY LinesType
<1>4. \E l \in LogLines : files = Joined(opened, l) /\ Joined(l, unflushed) = Lines
  <2>1. CASE TradeHeldBack
    <3> DEFINE l == [Lines EXCEPT !.trades = Front(trades)]
    <3>1. /\ Front(trades) \in Seq(Ex!Trade)
          /\ Front(trades) \o << Last(trades) >> = trades
      BY <1>3, <2>1, LastAndFront DEF TradeHeldBack
    <3>2. l = [trades |-> Front(trades), errors |-> errors]
      BY DEF Lines
    <3>3. errors \o << >> = errors
      BY <1>3, ConcatEmptySeq
    <3>4. l \in LogLines /\ Joined(l, unflushed) = Lines /\ files = Joined(opened, l)
      BY <1>3, <2>1, <3>1, <3>2, <3>3 DEF TradeHeldBack, LogLines, Joined, Lines
    <3> QED  BY <3>4
  <2>2. CASE ErrorHeldBack
    <3> DEFINE l == [Lines EXCEPT !.errors = Front(errors)]
    <3>1. /\ Front(errors) \in Seq(Ex!ErrorLine)
          /\ Front(errors) \o << Last(errors) >> = errors
      BY <1>3, <2>2, LastAndFront DEF ErrorHeldBack
    <3>2. l = [trades |-> trades, errors |-> Front(errors)]
      BY DEF Lines
    <3>3. trades \o << >> = trades
      BY <1>3, ConcatEmptySeq
    <3>4. l \in LogLines /\ Joined(l, unflushed) = Lines /\ files = Joined(opened, l)
      BY <1>3, <2>2, <3>1, <3>2, <3>3 DEF ErrorHeldBack, LogLines, Joined, Lines
    <3> QED  BY <3>4
  <2> QED  BY <1>1, <2>1, <2>2 DEF LoggerInv, NothingHeldBack
<1>5. files' = Joined(opened, Lines)
  BY <1>1, <1>2, <1>4, JoinedAssociative
<1>6. NothingHeldBack'
  BY <1>1, <1>5 DEF NothingHeldBack, Joined, NoLines
<1>7. LastReceived' = LastReceived
  BY <1>1 DEF LastReceived
<1> QED  BY <1>1, <1>2, <1>6, <1>7, NoLinesType DEF LoggerInv

LEMMA RestartLogger ==
  ASSUME LoggerInv, Restart
  PROVE  LoggerInv'
<1>1. /\ opened' = files /\ files' = files /\ unflushed' = NoLines
      /\ running' = "" /\ trades' = << >> /\ errors' = << >>
  BY DEF Restart, ConsumerRestart
<1>2. files \in LogLines
  BY DEF LoggerInv
<1>3. Lines' = NoLines
  BY <1>1 DEF Lines, NoLines
<1>4. files' = Joined(opened', Lines')
  BY <1>1, <1>2, <1>3, JoinedNoLines
<1>5. NothingHeldBack'
  BY <1>1, <1>4 DEF NothingHeldBack
<1> QED  BY <1>1, <1>2, <1>5, NoLinesType DEF LoggerInv

LEMMA LoggerInductive ==
  SystemInv /\ ExP!ExchangeInv /\ ExP!ExchangeInv' /\ LoggerInv /\ [Next]_vars
    => LoggerInv'
<1> SUFFICES ASSUME SystemInv, ExP!ExchangeInv, ExP!ExchangeInv', LoggerInv,
                    [Next]_vars
             PROVE  LoggerInv'
  OBVIOUS
<1>1. CASE FeedOnly \/ Push \/ UNCHANGED vars
  BY <1>1, SameLogger DEF FeedOnly, Push, vars, consumerVars
<1>2. CASE Measure
  <2>1. /\ measured' = measured + 1 /\ running = "" /\ unflushed = NoLines
        /\ UNCHANGED << trades, errors, received, running, orders, loggerVars >>
    BY <1>2 DEF Measure
  <2>2. NothingHeldBack'
    BY <2>1, IdleLogger DEF NothingHeldBack, loggerVars, Lines, Joined, NoLines
  <2> QED  BY <2>1, <2>2 DEF LoggerInv, loggerVars
<1> QED
  BY <1>1, <1>2, ConsumeLogger, WorkLogger, FlushLogger, RestartLogger
     DEF Next, Consumer

LEMMA LoggerKept == Spec => []LoggerInv
BY InitLogger, LoggerInductive, InitInOrder, SystemInductive, ExchangeKept, PTL
   DEF Spec

(* Wherever an exception in the feed's thread ends the process, between a  *)
(* line put into a stream and its flush (Logger::logTrade, logError) too,  *)
(* the files have what every earlier process left in them and all that     *)
(* this one has logged but for its last line at most, and that line is     *)
(* about the order in hand.                                                *)
THEOREM LinesSurvive == Spec => []OnlyLastLineLost
<1>1. LoggerInv => OnlyLastLineLost
  BY DEF LoggerInv, NothingHeldBack, TradeHeldBack, ErrorHeldBack, LastReceived,
     OnlyLastLineLost
<1> QED  BY <1>1, LoggerKept, PTL

(* Whatever the server sends: the ring never holds more than its capacity, *)
(* what both threads keep has its type, no more than one order is inside   *)
(* the exchange and not measured (consumerLoop), and neither is lost by a  *)
(* restart.                                                                *)
THEOREM SystemTypeCorrect == Spec => []TypeOK
<1>1. SystemInv /\ ExP!ExchangeInv /\ ConsumerTypeOK /\ LoggerInv => TypeOK
  <2> SUFFICES ASSUME SystemInv, ExP!ExchangeInv, ConsumerTypeOK, LoggerInv
               PROVE  TypeOK
    OBVIOUS
  <2>1. Ex!TypeOK
    BY SameExchangeType DEF ExP!ExchangeInv
  <2>2. {unflushed, files, opened} \subseteq LogLines
    BY DEF LoggerInv
  <2> QED  BY <2>1, <2>2, Zenon DEF SystemInv, ConsumerTypeOK, TypeOK, LogLines
<1> QED
  BY <1>1, InitInOrder, SystemInductive, ExchangeKept, InitConsumerType,
     ConsumerTypeInductive, LoggerKept, PTL DEF Spec
----------------------------------------------------------------------------
LEMMA ToIntegerWithin ==
  ASSUME NEW n \in Nat, NEW scale
  PROVE  ToInteger(n, scale) \in Nat /\ ToInteger(n, scale) \in n - 1 .. n
BY DEF ToInteger

(* An order the exchange has received is a level the server has sent.      *)
LEMMA ReceivedIsLevel ==
  ASSUME SystemInv, NEW i \in DOMAIN received
  PROVE  /\ offered[i] \in Visits /\ offered[i].level \in Level
         /\ received[i] = OrderOf(offered[i], i)
<1>1. /\ received \in Seq(Order) /\ queue \in Seq(Order)
      /\ i \in 1 .. Len(received)
      /\ Len(received) \in Nat /\ Len(queue) \in Nat /\ Len(Pending) \in Nat
  BY MadeType, LenProperties DEF SystemInv
<1>2. (received \o queue)[i] = received[i]
  <2>1. i \in 1 .. Len(received) + Len(queue) /\ i <= Len(received)
    BY <1>1
  <2> QED  BY <1>1, <2>1, ConcatProperties
<1>3. Made[i] = received[i] /\ i \in 1 .. Len(Made)
  <2>1. /\ i \in 1 .. Len(received \o queue) + Len(Pending)
        /\ i <= Len(received \o queue)
    BY <1>1, MadeType
  <2> QED  BY <1>2, <2>1, MadeType, MadeIs, ConcatProperties
<1>4. offered[i].level # Malformed /\ Made[i] = OrderOf(offered[i], i)
  BY <1>3, LevelsAreNext
<1>5. offered[i] \in Visits
  <2>1. /\ offered \in Seq(Visits) /\ Len(offered) = Len(Made) + Len(levels)
        /\ Len(Made) \in Nat /\ Len(levels) \in Nat
    BY LevelsAreNext, MadeType, LenProperties
  <2>2. i \in 1 .. Len(offered)
    BY <1>3, <2>1
  <2> QED  BY <2>1, <2>2, ElementOfSeq
<1>6. offered[i].level \in Level
  BY <1>4, <1>5 DEF Visits
<1> QED  BY <1>3, <1>4, <1>5, <1>6

(* A trade's price, end to end: the engine trades at the seller's price,   *)
(* which the feed may have made one unit too low, when it is no more than  *)
(* the buyer's, which the feed never makes too high.                       *)
THEOREM WithinOneUnit == Spec => []ExecutedWithinOneUnit
<1>1. SystemInv /\ ExP!ExchangeInv => ExecutedWithinOneUnit
  <2> SUFFICES ASSUME SystemInv, ExP!ExchangeInv, NEW n \in DOMAIN trades
               PROVE  LET buy  == offered[trades[n].buyOrderId]
                          sell == offered[trades[n].sellOrderId]
                      IN  /\ buy.side = "BUY" /\ sell.side = "SELL"
                          /\ trades[n].price
                               \in sell.level.price - 1 .. buy.level.price
    BY DEF ExecutedWithinOneUnit
  <2> DEFINE t == trades[n]
  <2>1. PICK i, j \in DOMAIN received :
          /\ received[i].orderId = t.buyOrderId
          /\ received[j].orderId = t.sellOrderId
          /\ received[i].side = "BUY" /\ received[j].side = "SELL"
          /\ received[i].orderType = "LIMIT" /\ received[j].orderType = "LIMIT"
               => t.price \in received[j].price .. received[i].price
    BY DEF ExP!ExchangeInv, ExP!Within
  <2>2. i = t.buyOrderId /\ j = t.sellOrderId
    BY <2>1 DEF ExP!ExchangeInv
  <2>3. /\ received[i] = OrderOf(offered[i], i)
        /\ received[j] = OrderOf(offered[j], j)
        /\ offered[i].level.price \in Nat /\ offered[j].level.price \in Nat
    BY ReceivedIsLevel DEF Level
  <2> DEFINE p == offered[i].level.price
             q == offered[j].level.price
  <2>4. /\ received[i].price = ToInteger(p, 100) /\ received[i].side = offered[i].side
        /\ received[j].price = ToInteger(q, 100) /\ received[j].side = offered[j].side
        /\ received[i].orderType = "LIMIT" /\ received[j].orderType = "LIMIT"
    BY <2>3 DEF OrderOf
  <2>5. t.price \in ToInteger(q, 100) .. ToInteger(p, 100)
    BY <2>1, <2>4
  <2>6. /\ ToInteger(p, 100) \in Nat /\ ToInteger(p, 100) \in p - 1 .. p
        /\ ToInteger(q, 100) \in Nat /\ ToInteger(q, 100) \in q - 1 .. q
    BY <2>3, ToIntegerWithin
  <2>7. p \in Nat /\ q \in Nat
    BY <2>3
  <2> HIDE DEF p, q, t
  <2>8. t.price \in q - 1 .. p
    BY <2>5, <2>6, <2>7
  <2> QED  BY <2>1, <2>2, <2>4, <2>8 DEF p, q, t
<1> QED  BY <1>1, InitInOrder, SystemInductive, ExchangeKept, PTL DEF Spec
----------------------------------------------------------------------------
(* The balance of the sides, across restarts: the feed sends limit orders  *)
(* only.                                                                   *)
LEMMA BalanceKept == Spec => []ExP!BalanceInv
<1>1. ExP!Init => ExP!BalanceInv
  BY ExP!InitBalance, ExchangeAssumed, ExP!ExchangeAssumption,
     OrderIdsAssumed, ExP!OrderIdsAssumption,
     NoLocationAssumed, ExP!NoLocationAssumption
<1>2. ASSUME NEW o \in FeedOrders PROVE o.orderType = "LIMIT"
  BY DEF FeedOrders, OrderOf
<1>3. ExP!ExchangeInv /\ ExP!BalanceInv /\ [ExP!Next]_(ExP!vars)
        => ExP!BalanceInv'
  BY <1>2, ExP!NextBalance, ExchangeAssumed, ExP!ExchangeAssumption,
     OrderIdsAssumed, ExP!OrderIdsAssumption,
     NoLocationAssumed, ExP!NoLocationAssumption
<1>4. Init => ExP!Init
  BY SameExchangeInit DEF Init
<1> QED
  BY <1>1, <1>3, <1>4, ExchangeOrRestart, ExchangeKept, InitInOrder,
     InitFromMessages, SystemInductive, FromMessagesInductive, PTL DEF Spec

(* The sums of the exchange's proofs are those of the property.            *)
LEMMA SameQuantity ==
  \A ts, S : ExP!QuantityIn(ts, S) = Total(LAMBDA i : ts[i].quantity, S)
BY Zenon DEF ExP!QuantityIn, Total, ExP!MapThenSumSet, MapThenSumSet,
   ExP!MapThenFoldSet, MapThenFoldSet

LEMMA SameRemaining ==
  \A S : ExP!RemainingIn(S) = Total(LAMBDA o : o.remainingQuantity, S)
BY Zenon DEF ExP!RemainingIn, Total, ExP!MapThenSumSet, MapThenSumSet,
   ExP!MapThenFoldSet, MapThenFoldSet

(* Every level of every depth message is one more order                    *)
(* (OrderBookManager::processMessage): a side holds all that was ever      *)
(* offered on it, less what traded.                                        *)
THEOREM OfferedAddsUp == Spec => []SnapshotsAccumulate
<1>1. ExP!ExchangeInv /\ ExP!BalanceInv => SnapshotsAccumulate
  <2> SUFFICES ASSUME ExP!ExchangeInv, ExP!BalanceInv, NEW s \in Side
               PROVE  Total(LAMBDA i : received[i].quantity,
                            {i \in DOMAIN received :
                               Ex!Sound(received[i]) /\ received[i].side = s})
                        = Unexecuted(s)
                            + Total(LAMBDA n : trades[n].quantity, DOMAIN trades)
    BY DEF SnapshotsAccumulate
  <2>1. s \in ExP!Side
    BY DEF Side, ExP!Side
  <2>2. ExP!Offered(received, s)
          = ExP!RemainingIn(ExP!LeftOn(s)) + ExP!Traded(trades)
    BY <2>1 DEF ExP!BalanceInv
  <2>3. ExP!Offered(received, s)
          = Total(LAMBDA i : received[i].quantity,
                  {i \in DOMAIN received :
                     Ex!Sound(received[i]) /\ received[i].side = s})
    <3>1. \A o : ExP!Sound(o) <=> Ex!Sound(o)
      BY Zenon DEF ExP!Sound, Ex!Sound, ExP!Configured, Ex!Configured, ExP!Lowest,
         Ex!Lowest, ExP!Highest, Ex!Highest
    <3>2. ExP!SoundOn(received, s)
            = {i \in DOMAIN received :
                 Ex!Sound(received[i]) /\ received[i].side = s}
      BY <3>1 DEF ExP!SoundOn
    <3> QED  BY <3>2, SameQuantity, Zenon DEF ExP!Offered
  <2>4. ExP!Traded(trades) = Total(LAMBDA n : trades[n].quantity, DOMAIN trades)
    BY SameQuantity, Zenon DEF ExP!Traded
  <2>5. ExP!RemainingIn(ExP!LeftOn(s)) = Unexecuted(s)
    <3> DEFINE inHand == {orders[y] : y \in {running} \ {""}}
               open   == (UNION {Resting(books[y], s) : y \in DOMAIN books})
                           \cup {o \in inHand : o.side = s}
    <3>1. ExP!LeftOn(s) = (UNION {ExP!Resting(books[y], s) : y \in DOMAIN books})
                            \cup {o \in inHand : o.side = s}
      BY <2>1, ExP!LeftRests, ExchangeAssumed, ExP!ExchangeAssumption,
         OrderIdsAssumed, ExP!OrderIdsAssumption,
         NoLocationAssumed, ExP!NoLocationAssumption
    <3>2. \A b : ExP!Resting(b, s) = Resting(b, s)
      BY Zenon DEF ExP!Resting, Resting, ExP!Prices, Prices
    <3>3. ExP!LeftOn(s) = open
      BY <3>1, <3>2, Zenon
    <3> HIDE DEF inHand, open
    <3>4. ExP!RemainingIn(open) = Total(LAMBDA o : o.remainingQuantity, open)
      BY SameRemaining, Zenon
    <3> QED  BY <3>3, <3>4, Zenon DEF Unexecuted, inHand, open
  <2> QED  BY <2>2, <2>3, <2>4, <2>5, Zenon
<1> QED
  BY <1>1, InitInOrder, SystemInductive, ExchangeKept, BalanceKept, PTL
----------------------------------------------------------------------------
(* No book crosses, across restarts: a new process has no books.           *)
LEMMA UncrossedKept == Spec => []ExP!UncrossedInv
<1>1. ExP!Init => ExP!UncrossedInv
  BY ExP!InitUncrossed, ExchangeAssumed, ExP!ExchangeAssumption,
     OrderIdsAssumed, ExP!OrderIdsAssumption,
     NoLocationAssumed, ExP!NoLocationAssumption
<1>2. ExP!ExchangeInv /\ ExP!UncrossedInv /\ [ExP!Next]_(ExP!vars)
        => ExP!UncrossedInv'
  BY ExP!NextUncrossed, ExchangeAssumed, ExP!ExchangeAssumption,
     OrderIdsAssumed, ExP!OrderIdsAssumption,
     NoLocationAssumed, ExP!NoLocationAssumption
<1>3. Init => ExP!Init
  BY SameExchangeInit DEF Init
<1> QED
  BY <1>1, <1>2, <1>3, ExchangeOrRestart, ExchangeKept, InitInOrder,
     InitFromMessages, SystemInductive, FromMessagesInductive, PTL DEF Spec

LEMMA SameResting ==
  /\ \A b, s : ExP!Resting(b, s) = Resting(b, s)
  /\ \A b : ExP!AllResting(b) = AllResting(b)
<1>1. \A b, s : ExP!Resting(b, s) = Resting(b, s)
  BY Zenon DEF ExP!Resting, Resting, ExP!Prices, Prices
<1>2. \A b : ExP!AllResting(b) = AllResting(b)
  BY <1>1, Zenon DEF ExP!AllResting, AllResting
<1> QED  BY <1>1, <1>2

(* Depth messages repeat their levels and every repeat rests as one more   *)
(* order (processMessage), yet every bid of a book stays below every ask:  *)
(* the matching loop leaves nothing behind that could still trade.         *)
THEOREM NoBookCrosses == Spec => []BooksUncrossed
<1>1. ExP!ExchangeInv /\ ExP!UncrossedInv => BooksUncrossed
  <2> SUFFICES ASSUME ExP!ExchangeInv, ExP!UncrossedInv, NEW y \in DOMAIN books,
                      NEW b \in Resting(books[y], "BUY"),
                      NEW a \in Resting(books[y], "SELL")
               PROVE  b.price < a.price
    BY DEF BooksUncrossed
  <2>1. b \in ExP!Resting(books[y], "BUY") /\ a \in ExP!Resting(books[y], "SELL")
    BY SameResting, Zenon
  <2> QED
    BY <2>1, ExP!BidsBelowAsks, ExchangeAssumed, ExP!ExchangeAssumption,
       OrderIdsAssumed, ExP!OrderIdsAssumption,
       NoLocationAssumed, ExP!NoLocationAssumption
<1> QED  BY <1>1, ExchangeKept, UncrossedKept, PTL
----------------------------------------------------------------------------
(* Only a trade makes the log of this process longer. *)
LEMMA TradeGrowsLog ==
  ASSUME ExP!ExchangeInv, [Next]_vars, Len(trades') > Len(trades)
  PROVE  ExP!ExecuteTrade /\ Work
<1>1. Len(trades) \in Nat
  <2>1. trades \in Seq(Ex!Trade)
    BY LinesType
  <2> QED  BY <2>1, LenProperties
<1>2. trades' # trades
  BY <1>1
<1>3. ~ Restart
  <2> SUFFICES ASSUME Restart PROVE FALSE
    OBVIOUS
  <2>1. trades' = << >> /\ Len(<< >>) = 0
    BY DEF Restart, ConsumerRestart
  <2> QED  BY <1>1, <2>1
<1>4. ~ (FeedOnly \/ Push \/ Consume \/ Flush \/ Measure \/ UNCHANGED vars)
  BY <1>2 DEF FeedOnly, Push, Consume, Flush, Measure, vars, consumerVars,
     Ex!ProcessOrder, Ex!Reject, Ex!Dispatch
<1>5. Work
  BY <1>3, <1>4 DEF Next, Consumer
<1>6. Ex!ExecuteTrade
  BY <1>2, <1>5 DEF Work, Ex!Loop, Ex!Rest, Ex!Expire, Ex!Return
<1>7. ExP!ExecuteTrade
  BY <1>6, SameExchangeOperators, Zenon DEF Ex!ExecuteTrade, ExP!ExecuteTrade
<1> QED  BY <1>5, <1>7

(* Price-time priority in the terms of the server: the price the feed made *)
(* is at most one unit below the level's, and ids are the order in which   *)
(* levels were sent.                                                       *)
THEOREM ServedAsSent == Spec => ServedInOrder
<1>1. SystemInv /\ ExP!ExchangeInv /\ ExP!BalanceInv /\ [Next]_vars
        => [Len(trades') > Len(trades) =>
              LET t    == trades'[Len(trades')]
                  s    == Opposite(orders[running].side)
                  with == IF s = "SELL" THEN t.sellOrderId ELSE t.buyOrderId
                  p    == offered[with].level.price
              IN  \A q \in Resting(books[running], s) :
                    LET r == offered[q.orderId].level.price
                    IN  /\ IF s = "SELL" THEN p <= r + 1 ELSE r <= p + 1
                        /\ r = p => with <= q.orderId]_vars
  <2> DEFINE t    == trades'[Len(trades')]
             s    == Opposite(orders[running].side)
             with == IF s = "SELL" THEN t.sellOrderId ELSE t.buyOrderId
             p    == offered[with].level.price
  <2> SUFFICES ASSUME SystemInv, ExP!ExchangeInv, ExP!BalanceInv, [Next]_vars,
                      Len(trades') > Len(trades), NEW x \in Resting(books[running], s)
               PROVE  /\ IF s = "SELL" THEN p <= offered[x.orderId].level.price + 1
                                       ELSE offered[x.orderId].level.price <= p + 1
                      /\ offered[x.orderId].level.price = p => with <= x.orderId
    OBVIOUS
  <2>1. ExP!ExecuteTrade /\ ExP!QueuesInv
    BY TradeGrowsLog DEF ExP!BalanceInv
  <2>2. /\ \A d : ExP!Opposite(d) = Opposite(d)
        /\ \A d, m, n : ExP!Better(d, m, n) = Better(d, m, n)
        /\ ExP!Side = Side
    BY Zenon DEF ExP!Opposite, Opposite, ExP!Better, Better, ExP!Side, Side
  <2>3. x \in ExP!Resting(books[running], ExP!Opposite(orders[running].side))
    BY <2>2, SameResting, Zenon
  <2>4. LET ss == ExP!Opposite(orders[running].side)
            tt == trades'[Len(trades')]
            w == IF ss = "SELL" THEN tt.sellOrderId ELSE tt.buyOrderId
        IN  /\ ss \in ExP!Side /\ w \in DOMAIN received
            /\ x.orderId \in DOMAIN received
            /\ ~ ExP!Better(ss, received[x.orderId].price, received[w].price)
            /\ received[w].price = received[x.orderId].price => w <= x.orderId
    BY <2>1, <2>3, ExP!TradesWithFirst, ExchangeAssumed, ExP!ExchangeAssumption,
       OrderIdsAssumed, ExP!OrderIdsAssumption,
       NoLocationAssumed, ExP!NoLocationAssumption
  <2>5. /\ s \in Side /\ with \in DOMAIN received /\ x.orderId \in DOMAIN received
        /\ ~ Better(s, received[x.orderId].price, received[with].price)
        /\ received[with].price = received[x.orderId].price => with <= x.orderId
    BY <2>2, <2>4, Zenon
  <2> DEFINE i == x.orderId
             r == offered[i].level.price
  <2> HIDE DEF with, s
  <2>6. /\ received[i] = OrderOf(offered[i], i) /\ r \in Nat
        /\ received[with] = OrderOf(offered[with], with) /\ p \in Nat
    BY <2>5, ReceivedIsLevel DEF Level
  <2>7. received[i].price = ToInteger(r, 100) /\ received[with].price = ToInteger(p, 100)
    BY <2>6 DEF OrderOf
  <2> HIDE DEF i, r, p
  <2>8. /\ ToInteger(r, 100) \in Nat /\ ToInteger(r, 100) \in r - 1 .. r
        /\ ToInteger(p, 100) \in Nat /\ ToInteger(p, 100) \in p - 1 .. p
    BY <2>6, ToIntegerWithin
  <2>9. IF s = "SELL" THEN p <= r + 1 ELSE r <= p + 1
    <3>1. ~ Better(s, ToInteger(r, 100), ToInteger(p, 100))
      BY <2>5, <2>7 DEF i
    <3> QED  BY <2>5, <2>6, <2>8, <3>1 DEF Better, Side
  <2>10. r = p => with <= i
    BY <2>5, <2>7 DEF i
  <2> QED  BY <2>9, <2>10 DEF i, r
<1> QED
  BY <1>1, InitInOrder, SystemInductive, ExchangeKept, BalanceKept, PTL
     DEF Spec, ServedInOrder
----------------------------------------------------------------------------
(* The steps left, part by part. *)
Offering == IF outgoing = NoOrder THEN 0 ELSE 1

Calling == IF running = "" THEN 0 ELSE 1

HeldBack == Len(unflushed.trades) + Len(unflushed.errors)

LEMMA ToDoParts ==
  /\ ToDo = 5 * (Len(offered) - Len(received)) + 2 * Len(levels) + Offering
              + (2 * ExP!EngineWork - Calling) + 2 * Cardinality(ExP!Rested)
              + (Len(received) - measured) + HeldBack
  /\ ToDo' = 5 * (Len(offered') - Len(received')) + 2 * Len(levels') + Offering'
               + (2 * ExP!EngineWork' - Calling') + 2 * Cardinality(ExP!Rested')
               + (Len(received') - measured') + HeldBack'
<1>1. \A o : Ex!LoopGuard(o) = ExP!LoopGuard(o)
  BY SameExchangeOperators
<1>2. /\ ExP!EngineWork = IF running = "" THEN 0
                          ELSE IF Ex!LoopGuard(orders[running]) THEN 2 ELSE 1
      /\ ExP!EngineWork' = IF running' = "" THEN 0
                           ELSE IF Ex!LoopGuard(orders'[running']) THEN 2 ELSE 1
  BY <1>1, Zenon DEF ExP!EngineWork, ExP!LoopGuard, Ex!LoopGuard
<1>3. ExP!Rested = RestingOrders /\ ExP!Rested' = RestingOrders'
  BY SameResting, Zenon DEF ExP!Rested, RestingOrders
<1>4. 2 * 0 - 0 = 0 /\ 2 * 2 - 1 = 3 /\ 2 * 1 - 1 = 1
  OBVIOUS
<1>5. 2 * ExP!EngineWork - Calling
        = IF running = "" THEN 0 ELSE IF Ex!LoopGuard(orders[running]) THEN 3 ELSE 1
  BY <1>2, <1>4, Zenon DEF Calling
<1>6. 2 * ExP!EngineWork' - Calling'
        = IF running' = "" THEN 0 ELSE IF Ex!LoopGuard(orders'[running']) THEN 3 ELSE 1
  BY <1>2, <1>4, Zenon DEF Calling
<1> QED
  BY <1>3, <1>5, <1>6, Zenon DEF ToDo, Offering, HeldBack, Ex!LoopGuard

LEMMA SameCardinality == \A S : ExP!Cardinality(S) = Cardinality(S)
BY Zenon DEF ExP!Cardinality, Cardinality

(* Each part is a natural number. *)
LEMMA ToDoTypes ==
  ASSUME SystemInv, ExP!BalanceInv, ConsumerTypeOK, LoggerInv
  PROVE  /\ Len(offered) \in Nat /\ Len(received) \in Nat /\ Len(levels) \in Nat
         /\ Len(offered) - Len(received) \in Nat
         /\ Offering \in {0, 1} /\ ExP!EngineWork \in {0, 1, 2}
         /\ 2 * ExP!EngineWork - Calling \in {0, 1, 3} /\ HeldBack \in Nat
         /\ Cardinality(ExP!Rested) \in Nat
         /\ measured \in Nat /\ Len(received) - measured \in Nat
<1>1. /\ Len(offered) \in Nat /\ Len(received) \in Nat /\ Len(levels) \in Nat
      /\ Len(queue) \in Nat /\ Len(Pending) \in Nat
  BY LevelsAreNext, MadeType, LenProperties DEF SystemInv
<1>2. Len(offered) = ((Len(received) + Len(queue)) + Len(Pending)) + Len(levels)
  BY LevelsAreNext, MadeType, MadeIs, ConcatProperties
<1>3. measured \in 0 .. Len(received)
  BY DEF ConsumerTypeOK
<1>4. Len(offered) - Len(received) \in Nat
  BY <1>1, <1>2
<1>5. measured \in Nat /\ Len(received) - measured \in Nat
  BY <1>1, <1>3
<1>6. ExP!EngineWork \in {0, 1, 2}
  BY Zenon DEF ExP!EngineWork
<1>7. Cardinality(ExP!Rested) \in Nat
  <2>1. ExP!Cardinality(ExP!Rested) \in Nat
    BY ExP!RestedFinite, ExchangeAssumed, ExP!ExchangeAssumption,
       OrderIdsAssumed, ExP!OrderIdsAssumption,
       NoLocationAssumed, ExP!NoLocationAssumption
  <2> QED  BY <2>1, SameCardinality, Zenon
<1>8. 2 * ExP!EngineWork - Calling \in {0, 1, 3}
  <2>1. /\ running = "" => ExP!EngineWork = 0
        /\ running # "" => ExP!EngineWork \in {1, 2}
    BY Zenon DEF ExP!EngineWork
  <2>2. CASE running = ""
    <3>1. ExP!EngineWork = 0 /\ Calling = 0
      BY <2>1, <2>2 DEF Calling
    <3> QED  BY <3>1
  <2>3. CASE running # ""
    <3>1. ExP!EngineWork \in {1, 2} /\ Calling = 1
      BY <2>1, <2>3 DEF Calling
    <3>2. 2 * 1 - 1 = 1 /\ 2 * 2 - 1 = 3
      OBVIOUS
    <3> QED  BY <3>1, <3>2, Zenon
  <2> QED  BY <2>2, <2>3
<1>9. HeldBack \in Nat
  <2>1. unflushed.trades \in Seq(Ex!Trade) /\ unflushed.errors \in Seq(Ex!ErrorLine)
    BY DEF LoggerInv, LogLines
  <2>2. Len(unflushed.trades) \in Nat /\ Len(unflushed.errors) \in Nat
    BY <2>1, LenProperties
  <2>3. \A m, n \in Nat : m + n \in Nat
    OBVIOUS
  <2> QED  BY <2>2, <2>3, Zenon DEF HeldBack
<1> QED  BY <1>1, <1>4, <1>5, <1>6, <1>7, <1>8, <1>9 DEF Offering

LEMMA ToDoNat ==
  ASSUME SystemInv, ExP!BalanceInv, ConsumerTypeOK, LoggerInv
  PROVE  ToDo \in Nat
<1> DEFINE a == Len(offered) - Len(received)
           l == Len(levels)
           p == Offering
           w == 2 * ExP!EngineWork - Calling
           c == Cardinality(ExP!Rested)
           d == Len(received) - measured
           h == HeldBack
<1>1. /\ a \in Nat /\ l \in Nat /\ p \in {0, 1} /\ w \in {0, 1, 3}
      /\ c \in Nat /\ d \in Nat /\ h \in Nat
  BY ToDoTypes
<1>2. ToDo = 5 * a + 2 * l + p + w + 2 * c + d + h
  BY ToDoParts
<1> HIDE DEF a, l, p, w, c, d, h
<1> QED  BY <1>1, <1>2

(* A step of the feed's thread.  An empty message changes nothing. *)
LEMMA FeedToDo ==
  ASSUME SystemInv, ExP!BalanceInv, ConsumerTypeOK, LoggerInv,
         vars' # vars, alive', ((Receive \/ Visit) /\ FeedOnly) \/ Push
  PROVE  IF offered' = offered THEN ToDo' < ToDo
         ELSE ToDo' = ToDo + 7 * (Len(offered') - Len(offered))
<1> DEFINE a == Len(offered)
           n == Len(received)
           l == Len(levels)
           p == Offering
           w == 2 * ExP!EngineWork - Calling
           c == Cardinality(ExP!Rested)
           h == HeldBack
<1>1. /\ a \in Nat /\ n \in Nat /\ l \in Nat /\ p \in {0, 1}
      /\ w \in {0, 1, 3} /\ c \in Nat /\ measured \in Nat /\ h \in Nat
  BY ToDoTypes
<1>2. /\ UNCHANGED << received, measured, books, orders, running >>
      /\ 2 * ExP!EngineWork' - Calling' = w /\ ExP!Rested' = ExP!Rested
      /\ HeldBack' = h
  <2>1. UNCHANGED << received, measured, books, orders, running, unflushed >>
    BY DEF FeedOnly, Push, consumerVars, loggerVars
  <2> QED  BY <2>1 DEF ExP!EngineWork, ExP!Rested, Calling, HeldBack
<1>3. /\ ToDo = 5 * (a - n) + 2 * l + p + w + 2 * c + (n - measured) + h
      /\ ToDo' = 5 * (Len(offered') - n) + 2 * Len(levels') + Offering'
                   + w + 2 * c + (n - measured) + h
  <2>1. n = Len(received') /\ c = Cardinality(ExP!Rested')
    BY <1>2
  <2> QED  BY <1>2, <2>1, ToDoParts
<1> HIDE DEF a, n, l, p, w, c, h
<1>4. ASSUME NEW d \in Depths, Read(d), FeedOnly
      PROVE  IF offered' = offered THEN ToDo' < ToDo
             ELSE ToDo' = ToDo + 7 * (Len(offered') - a)
  <2> DEFINE k == Len(Visited(d))
  <2>1. /\ levels = << >> /\ levels' = Visited(d) /\ outgoing' = outgoing
        /\ offered' = offered \o Visited(d)
    BY <1>4 DEF Read, Waiting
  <2>2. offered \in Seq(Visits) /\ Visited(d) \in Seq(Visits)
    BY VisitedType DEF SystemInv, FeedTypeOK
  <2>3. Len(offered') = a + k /\ k \in Nat /\ l = 0 /\ Len(levels') = k
    BY <2>1, <2>2, ConcatProperties, LenProperties DEF a, l
  <2>4. Offering' = p
    BY <2>1 DEF Offering, p
  <2>5. offered' # offered
    <3> SUFFICES ASSUME offered' = offered PROVE FALSE
      OBVIOUS
    <3>1. k = 0
      <4>1. a = a + k
        BY <2>3 DEF a
      <4> HIDE DEF k
      <4> QED  BY <1>1, <2>3, <4>1
    <3>2. Visited(d) = << >>
      BY <2>2, <3>1, EmptySeq
    <3>3. levels' = levels
      BY <2>1, <3>2
    <3> QED  BY <1>4, <3>3 DEF Read, FeedOnly, vars, feedVars
  <2> HIDE DEF k
  <2>6. ToDo' = ToDo + 7 * k
    BY <1>1, <1>3, <2>3, <2>4
  <2>7. (a + k) - a = k
    BY <1>1, <2>3
  <2> QED  BY <2>3, <2>5, <2>6, <2>7
<1>5. CASE MakeOrder /\ FeedOnly
  <2>1. /\ outgoing = NoOrder /\ levels # << >> /\ Head(levels).level # Malformed
        /\ outgoing' = OrderOf(Head(levels), nextOrderId)
        /\ levels' = Tail(levels) /\ offered' = offered
    BY <1>5 DEF MakeOrder
  <2>2. levels \in Seq(Visits) /\ nextOrderId \in Nat
    BY DEF SystemInv, FeedTypeOK
  <2>3. /\ Len(levels') = l - 1 /\ Head(levels) \in Visits
    BY <2>1, <2>2, HeadTailProperties DEF l
  <2>4. p = 0 /\ Offering' = 1 /\ Len(offered') = a
    BY <2>1, <2>2, <2>3, OrderOfType DEF Offering, p, a
  <2>5. ToDo' < ToDo
    BY <1>1, <1>3, <2>3, <2>4
  <2> QED  BY <2>1, <2>5
<1>6. CASE Push
  <2>1. /\ outgoing # NoOrder /\ outgoing' = NoOrder
        /\ levels' = levels /\ offered' = offered
    BY <1>6 DEF Push, Pushed
  <2>2. p = 1 /\ Offering' = 0 /\ Len(offered') = a /\ Len(levels') = l
    BY <2>1 DEF Offering, p, a, l
  <2>3. ToDo' < ToDo
    BY <1>1, <1>3, <2>2
  <2> QED  BY <2>1, <2>3
<1>7. ~ Fail /\ ~ Throw
  BY DEF Fail, Throw
<1> QED  BY <1>4, <1>5, <1>6, <1>7 DEF Receive, Visit, a

(* A step of the consumer's thread. *)
LEMMA ConsumerToDo ==
  ASSUME SystemInv, ExP!ExchangeInv, ExP!ExchangeInv', ExP!BalanceInv,
         ConsumerTypeOK, LoggerInv, Consumer
  PROVE  offered' = offered /\ ToDo' < ToDo
<1> DEFINE a == Len(offered)
           n == Len(received)
           l == Len(levels)
           p == Offering
           w == ExP!EngineWork
           c == Cardinality(ExP!Rested)
           i == Calling
           h == HeldBack
           x == ExP!EngineWork'
           y == Cardinality(ExP!Rested')
           j == Calling'
           k == HeldBack'
<1>1. /\ a \in Nat /\ n \in Nat /\ l \in Nat /\ p \in {0, 1}
      /\ w \in {0, 1, 2} /\ c \in Nat /\ measured \in Nat /\ h \in Nat
      /\ 2 * w - i \in {0, 1, 3}
  BY ToDoTypes
<1>2. UNCHANGED << offered, levels, outgoing >>
  BY DEF Consumer, Consume, Work, Flush, Measure, feedVars
<1>3. /\ ToDo = 5 * (a - n) + 2 * l + p + (2 * w - i) + 2 * c + (n - measured) + h
      /\ ToDo' = 5 * (a - Len(received')) + 2 * l + p + (2 * x - j) + 2 * y
                   + (Len(received') - measured') + k
  <2>1. a = Len(offered') /\ l = Len(levels') /\ p = Offering'
    BY <1>2 DEF Offering
  <2> QED  BY <2>1, ToDoParts
<1>4. CASE Consume
  <2>1. /\ measured = n /\ measured' = measured /\ queue # << >>
        /\ Ex!ProcessOrder(Head(queue)) /\ received' = Append(received, Head(queue))
    BY <1>4 DEF Consume, Ring!Take, Ex!ProcessOrder
  <2>2. queue \in Seq(Order) /\ received \in Seq(Order)
    BY DEF SystemInv
  <2>3. Head(queue) \in Order
    BY <2>1, <2>2, HeadTailProperties
  <2>4. Len(received') = n + 1
    BY <2>1, <2>2, <2>3, AppendProperties
  <2>5. Head(queue) \in ExP!Order
    BY <2>3 DEF Order, Side, SymbolName, OrderType, Status, ExP!Order, ExP!Side,
       ExP!SymbolName, ExP!OrderType, ExP!Status
  <2>6. ExP!ProcessOrder(Head(queue))
    <3>1. Ex!Reject(Head(queue)) => ExP!Reject(Head(queue))
      BY SameExchangeOperators, Zenon DEF Ex!Reject, ExP!Reject
    <3>2. Ex!Dispatch(Head(queue)) => ExP!Dispatch(Head(queue))
      BY SameExchangeOperators, Zenon DEF Ex!Dispatch, ExP!Dispatch
    <3> QED  BY <2>1, <3>1, <3>2, Zenon DEF Ex!ProcessOrder, ExP!ProcessOrder
  <2>7. w = 0 /\ x \in {0, 1, 2} /\ ExP!Rested' = ExP!Rested
    BY <2>5, <2>6, ExP!ProcessOrderWork, ExchangeAssumed, ExP!ExchangeAssumption,
       OrderIdsAssumed, ExP!OrderIdsAssumption,
       NoLocationAssumed, ExP!NoLocationAssumption
  <2>8. y = c
    BY <2>7
  <2>9. /\ w = 0 /\ x \in {0, 1, 2} /\ measured = n /\ measured' = n
        /\ i = 0 /\ j = IF running' = "" THEN 0 ELSE 1
    BY <2>1, <2>7 DEF Ex!ProcessOrder, Calling
  <2>10. (x = 2 => j = 1) /\ h = 0 /\ k \in {0, 1} /\ (k = 1 => x = 0)
    <3>1. unflushed = NoLines /\ Put /\ unflushed \in LogLines
      <4>1. unflushed = NoLines
        BY <2>1, IdleLogger
      <4>2. Put
        BY <1>4 DEF Consume
      <4> QED  BY <4>1, <4>2, NoLinesType
    <3>2. h = 0
      BY <3>1 DEF HeldBack, NoLines
    <3>3. CASE Ex!Reject(Head(queue))
      <4>1. running' = "" /\ trades' = trades
        BY <2>1, <3>3 DEF Ex!Reject, Ex!ProcessOrder
      <4>2. PICK e : errors' = Append(errors, e)
        BY <3>3 DEF Ex!Reject
      <4>3. unflushed' = [trades |-> << >>, errors |-> << e >>]
        BY <3>1, <4>1, <4>2, PutError
      <4>4. k = 1
        BY <4>3 DEF HeldBack
      <4>5. x = 0
        BY <4>1 DEF ExP!EngineWork
      <4> QED  BY <3>2, <4>4, <4>5
    <3>4. CASE Ex!Dispatch(Head(queue))
      <4>1. UNCHANGED << trades, errors >>
        BY <3>4 DEF Ex!Dispatch
      <4>2. unflushed' = NoLines
        BY <3>1, <4>1, PutNothing DEF loggerVars
      <4>3. k = 0
        BY <4>2 DEF HeldBack, NoLines
      <4>4. x = 2 => running' # ""
        <5>1. 0 # 2
          OBVIOUS
        <5> QED  BY <5>1, Zenon DEF ExP!EngineWork
      <4>5. running' # "" => j = 1
        BY <2>9, Zenon
      <4>6. x = 2 => j = 1
        BY <4>4, <4>5, Zenon
      <4> QED  BY <3>2, <4>3, <4>6
    <3> QED  BY <2>1, <3>3, <3>4 DEF Ex!ProcessOrder
  <2> HIDE DEF a, n, l, p, w, c, i, h, x, y, j, k
  <2>11. 2 * x - j + k <= 3 /\ x \in Int /\ j \in Int /\ k \in Int
    <3>1. j \in {0, 1} /\ x \in {0, 1, 2} /\ k \in {0, 1}
      BY <2>9, <2>10
    <3> QED  BY <2>10, <3>1
  <2>12. /\ ToDo = 5 * (a - n) + 2 * l + p + 2 * c
         /\ ToDo' = 5 * (a - (n + 1)) + 2 * l + p + (2 * x - j) + 2 * c + 1 + k
    <3>1. n - n = 0 /\ (n + 1) - n = 1 /\ 2 * 0 - 0 = 0
      BY <1>1
    <3>2. /\ ToDo = 5 * (a - n) + 2 * l + p + 0 + 2 * c + 0 + 0
          /\ ToDo' = 5 * (a - (n + 1)) + 2 * l + p + (2 * x - j) + 2 * c + 1 + k
      BY <1>3, <2>4, <2>8, <2>9, <2>10, <3>1, Zenon
    <3> QED  BY <1>1, <3>2
  <2>13. ToDo' < ToDo
    BY <1>1, <2>11, <2>12
  <2> QED  BY <1>2, <2>13
<1>5. CASE Work
  <2>1. /\ measured' = measured /\ received' = received /\ Ex!Loop
    BY <1>5 DEF Work, Ex!Loop, Ex!Rest, Ex!Expire, Ex!ExecuteTrade, Ex!Return
  <2>2. ExP!Loop
    <3>1. Ex!Rest => ExP!Rest
      BY SameExchangeOperators, Zenon DEF Ex!Rest, ExP!Rest
    <3>2. Ex!Expire => ExP!Expire
      BY SameExchangeOperators, Zenon DEF Ex!Expire, ExP!Expire
    <3>3. Ex!ExecuteTrade => ExP!ExecuteTrade
      BY SameExchangeOperators, Zenon DEF Ex!ExecuteTrade, ExP!ExecuteTrade
    <3>4. Ex!Return => ExP!Return
      BY SameExchangeOperators, Zenon DEF Ex!Return, ExP!Return
    <3> QED  BY <2>1, <3>1, <3>2, <3>3, <3>4, Zenon DEF Ex!Loop, ExP!Loop
  <2>3. x \in Nat /\ y \in Nat /\ x + y < w + c
    <3>1. /\ ExP!EngineWork' \in Nat /\ ExP!Cardinality(ExP!Rested') \in Nat
          /\ ExP!EngineWork' + ExP!Cardinality(ExP!Rested')
               < ExP!EngineWork + ExP!Cardinality(ExP!Rested)
      BY <2>2, ExP!LoopWork, ExchangeAssumed, ExP!ExchangeAssumption,
         OrderIdsAssumed, ExP!OrderIdsAssumption,
         NoLocationAssumed, ExP!NoLocationAssumption
    <3> QED  BY <3>1, SameCardinality, Zenon
  <2>4. Len(received') = n
    BY <2>1
  <2>5. measured' = measured
    BY <2>1
  <2>6. i = 1 /\ h = 0 /\ j \in {0, 1} /\ k \in {0, 1} /\ j + 1 > k
        /\ (j = 1 => k = 1)
    <3>1. unflushed = NoLines /\ Put /\ running # "" /\ unflushed \in LogLines
      <4>1. unflushed = NoLines /\ Put /\ Ex!Loop
        BY <1>5 DEF Work
      <4>2. running # ""
        BY <4>1 DEF Ex!Loop, Ex!Rest, Ex!Expire, Ex!ExecuteTrade, Ex!Return
      <4> QED  BY <4>1, <4>2, NoLinesType
    <3>2. i = 1 /\ h = 0
      <4>1. i = 1
        BY <3>1 DEF Calling
      <4>2. unflushed = NoLines
        BY <3>1
      <4>3. h = 0
        BY <4>2 DEF HeldBack, NoLines
      <4> QED  BY <4>1, <4>3
    <3>3. CASE Ex!ExecuteTrade
      <4>1. errors' = errors /\ running' = running
        BY <3>3 DEF Ex!ExecuteTrade
      <4> PICK e : trades' = Append(trades, e)
        BY <3>3 DEF Ex!ExecuteTrade
      <4>2. unflushed' = [trades |-> << e >>, errors |-> << >>]
        BY <3>1, <4>1, PutTrade
      <4>3. k = 1
        BY <4>2 DEF HeldBack
      <4>4. j = 1
        BY <3>1, <4>1 DEF Calling
      <4> QED  BY <3>2, <4>3, <4>4
    <3>4. CASE Ex!Rest \/ Ex!Expire \/ Ex!Return
      <4>1. UNCHANGED << trades, errors >> /\ running' = ""
        BY <3>4 DEF Ex!Rest, Ex!Expire, Ex!Return
      <4>2. unflushed' = NoLines
        BY <3>1, <4>1, PutNothing DEF loggerVars
      <4>3. k = 0
        BY <4>2 DEF HeldBack, NoLines
      <4>4. j = 0
        BY <4>1 DEF Calling
      <4> HIDE DEF i, h, j, k
      <4> QED  BY <3>2, <4>3, <4>4
    <3> QED  BY <2>1, <3>3, <3>4 DEF Ex!Loop
  <2> HIDE DEF a, n, l, p, w, c, i, h, x, y, j, k
  <2>7. 2 * x - j + 2 * y + k < 2 * w - i + 2 * c
    BY <1>1, <2>3, <2>6
  <2>8. ToDo' < ToDo
    BY <1>1, <1>3, <2>3, <2>4, <2>5, <2>6, <2>7
  <2> QED  BY <1>2, <2>8
<1>6. CASE Measure
  <2>1. /\ measured' = measured + 1 /\ received' = received
        /\ UNCHANGED << books, orders, running, unflushed >>
    BY <1>6 DEF Measure, loggerVars
  <2>2. x = w /\ ExP!Rested' = ExP!Rested /\ Len(received') = n
    BY <2>1 DEF ExP!EngineWork, ExP!Rested
  <2>3. /\ y = c /\ measured' = measured + 1 /\ x = w /\ Len(received') = n
        /\ i = j /\ h = k
    BY <2>1, <2>2 DEF Calling, HeldBack
  <2> HIDE DEF a, n, l, p, w, c, i, h, x, y, j, k
  <2>4. ToDo' < ToDo
    BY <1>1, <1>3, <2>3
  <2> QED  BY <1>2, <2>4
<1>7. CASE Flush
  <2>1. /\ UNCHANGED << books, orders, running, received, measured >>
        /\ unflushed # NoLines /\ unflushed' = NoLines
    BY <1>7 DEF Flush, consumerVars
  <2>2. /\ ExP!Rested' = ExP!Rested /\ x = w /\ i = j
    BY <2>1 DEF ExP!EngineWork, ExP!Rested, Calling
  <2>3. y = c /\ Len(received') = n /\ x = w /\ i = j /\ measured' = measured
    BY <2>1, <2>2
  <2>4. k = 0
    BY <2>1 DEF HeldBack, NoLines
  <2>5. h = 1
    <3>1. PICK e : \/ unflushed = [trades |-> << e >>, errors |-> << >>]
                   \/ unflushed = [trades |-> << >>, errors |-> << e >>]
      BY <2>1 DEF LoggerInv, NothingHeldBack, TradeHeldBack, ErrorHeldBack
    <3>2. CASE unflushed = [trades |-> << e >>, errors |-> << >>]
      BY <3>2 DEF HeldBack
    <3>3. CASE unflushed = [trades |-> << >>, errors |-> << e >>]
      BY <3>3 DEF HeldBack
    <3> QED  BY <3>1, <3>2, <3>3
  <2> HIDE DEF a, n, l, p, w, c, i, h, x, y, j, k
  <2>6. ToDo' < ToDo
    BY <1>1, <1>3, <2>3, <2>4, <2>5
  <2> QED  BY <1>2, <2>6
<1> QED  BY <1>4, <1>5, <1>6, <1>7 DEF Consumer

(* What the server sends costs a bounded number of steps of both threads,  *)
(* at most seven for each level (processLevel, push, consumerLoop, the     *)
(* iterations of the matching loop, flushes included), in any interleaving: *)
(* the measure is a natural number and every step but a read takes from it. *)
THEOREM WorkIsBounded == Spec => BoundedWork /\ [](ToDo \in Nat)
<1>1. SystemInv /\ ExP!ExchangeInv /\ ExP!ExchangeInv' /\ ExP!BalanceInv
      /\ ConsumerTypeOK /\ LoggerInv /\ [Next]_vars
        => [alive /\ alive' =>
              IF offered' = offered THEN ToDo' < ToDo
              ELSE ToDo' = ToDo + 7 * (Len(offered') - Len(offered))]_vars
  <2> SUFFICES ASSUME SystemInv, ExP!ExchangeInv, ExP!ExchangeInv', ExP!BalanceInv,
                      ConsumerTypeOK, LoggerInv, Next, vars' # vars, alive, alive'
               PROVE  IF offered' = offered THEN ToDo' < ToDo
                      ELSE ToDo' = ToDo + 7 * (Len(offered') - Len(offered))
    OBVIOUS
  <2>1. ~ Restart
    BY DEF Restart
  <2> QED  BY <2>1, FeedToDo, ConsumerToDo DEF Next
<1>2. SystemInv /\ ExP!BalanceInv /\ ConsumerTypeOK /\ LoggerInv => ToDo \in Nat
  BY ToDoNat
<1> QED
  BY <1>1, <1>2, InitInOrder, SystemInductive, ExchangeKept, BalanceKept,
     InitConsumerType, ConsumerTypeInductive, LoggerKept, PTL DEF Spec, BoundedWork
==============================================================================
