-------------------------- MODULE RingBufferProofs --------------------------
(***************************************************************************)
(* The safety of the ring buffer for every power of two, every set of      *)
(* orders and every number of pushes: types, no data race, and each step   *)
(* a step of the bounded queue.                                            *)
(***************************************************************************)
EXTENDS RingBuffer, NumberFacts, SequenceTheorems, TLAPS

LEMMA SizeType == SIZE \in Nat \ {0} /\ SIZE > 1
BY RingAssumption

(* The slot that the n-th value stored in head or in tail names. *)
Slot(n) == (n - 1) % SIZE

(* The stores of each atomic walk round the slots. *)
Rounds ==
  /\ \A n \in 1 .. Len(head) : head[n] = Slot(n)
  /\ \A n \in 1 .. Len(tail) : tail[n] = Slot(n)

(* What each thread has seen of the other is at most a ring away: the      *)
(* consumer never passes the tail it saw, nor the producer the head.       *)
Apart ==
  /\ Len(head) >= 1 /\ Len(head) <= seenTail
  /\ Len(tail) <= seenHead + SIZE - 1
  /\ producer # "idle" => Len(tail) <= seenHead + SIZE - 2
  /\ consumer # "idle" => Len(head) < seenTail

(* The slots between head and tail hold whole orders, and the threads'     *)
(* own copies agree with theirs.                                           *)
Held ==
  /\ \A n \in Len(head) .. Len(tail) - 1 : buffer[Slot(n)] \in Messages
  /\ producer # "idle" => incoming \in Messages
  /\ producer = "written" => buffer[Slot(Len(tail))] = incoming
  /\ consumer = "read" => copy = buffer[Slot(Len(head))]

(* The inductive invariant. *)
RingInv == TypeOK /\ Rounds /\ Apart /\ Held
----------------------------------------------------------------------------
(* The slots of the ring. *)

LEMMA SlotType ==
  ASSUME NEW n \in Nat \ {0}
  PROVE  Slot(n) \in Indices
BY SizeType, DivMod, n - 1 \in Nat DEF Slot, Indices

(* Two stores less than SIZE apart name different slots. *)
LEMMA SlotsDiffer ==
  ASSUME NEW m \in Nat \ {0}, NEW n \in Nat \ {0}, m < n, n - m < SIZE
  PROVE  Slot(m) # Slot(n)
<1>1. m - 1 \in Nat /\ n - 1 \in Nat /\ m - 1 <= n - 1 /\ (n - 1) - (m - 1) < SIZE
  BY SizeType
<1>2. Slot(m) = Slot(n) => n - 1 = m - 1
  BY <1>1, SizeType, SameRemainder DEF Slot
<1>. QED  BY <1>2

(* Counting on from the slot of one store. *)
LEMMA SlotAhead ==
  ASSUME NEW n \in Nat \ {0}, NEW k \in Nat
  PROVE  (Slot(n) + k) % SIZE = Slot(n + k)
<1> DEFINE a == n - 1
<1>1. a \in Nat /\ (n + k) - 1 = a + k
  OBVIOUS
<1> HIDE DEF a
<1>2. ((a % SIZE) + k) % SIZE = (a + k) % SIZE
  BY <1>1, SizeType, AddRemainder
<1>. QED  BY <1>1, <1>2 DEF Slot, a

LEMMA NextSlot ==
  ASSUME NEW n \in Nat \ {0}
  PROVE  NextIndex(Slot(n)) = Slot(n + 1)
BY SlotAhead DEF NextIndex

(* A whole round later the slot is the same. *)
LEMMA SlotRound ==
  ASSUME NEW n \in Nat \ {0}
  PROVE  Slot(n + SIZE) = Slot(n)
<1> DEFINE a == n - 1
           y == a + SIZE
           d == (y \div SIZE) - (a \div SIZE) - 1
           e == (a % SIZE) - (y % SIZE)
<1>1. a \in Nat /\ y \in Nat /\ (n + SIZE) - 1 = y
  BY SizeType
<1>2. a \div SIZE \in Nat /\ a % SIZE \in 0 .. SIZE - 1
      /\ a = SIZE * (a \div SIZE) + (a % SIZE)
  BY <1>1, SizeType, DivMod
<1>3. y \div SIZE \in Nat /\ y % SIZE \in 0 .. SIZE - 1
      /\ y = SIZE * (y \div SIZE) + (y % SIZE)
  BY <1>1, SizeType, DivMod
<1>4. d \in Int /\ e \in Int /\ -SIZE < e /\ e < SIZE
  BY <1>2, <1>3, SizeType
<1>5. SIZE * d = e
  BY <1>1, <1>2, <1>3, SizeType
<1> HIDE DEF d, e
<1>6. e = 0
  BY <1>4, <1>5, SizeType, NoMultiple
<1>7. a % SIZE = y % SIZE
  BY <1>2, <1>3, <1>6 DEF e
<1>. QED  BY <1>1, <1>7 DEF Slot
----------------------------------------------------------------------------
(* What the invariant says of the two indices. *)
LEMMA Indexed ==
  ASSUME RingInv
  PROVE  /\ Len(head) \in Nat \ {0} /\ Len(tail) \in Nat \ {0}
         /\ seenHead \in Nat \ {0} /\ seenTail \in Nat \ {0}
         /\ seenHead <= Len(head) /\ Len(head) <= seenTail
         /\ seenTail <= Len(tail) /\ Len(tail) - Len(head) < SIZE
         /\ Current(head) = Slot(Len(head)) /\ Current(tail) = Slot(Len(tail))
BY SizeType DEF RingInv, TypeOK, Rounds, Apart, Current

(* When push finds room, the order goes to a slot that is not in use. *)
LEMMA Room ==
  ASSUME RingInv, NEW i \in seenHead .. Len(head), ~ Full(head[i])
  PROVE  Len(tail) <= i + SIZE - 2
<1>1. i \in Nat \ {0} /\ Len(tail) <= i + SIZE - 1
  BY Indexed, SizeType DEF RingInv, Apart
<1>2. head[i] = Slot(i)
  BY <1>1, Indexed DEF RingInv, Rounds
<1>3. NextIndex(Current(tail)) = Slot(Len(tail) + 1)
  BY Indexed, NextSlot
<1>4. Len(tail) + 1 # i + SIZE
  BY <1>1, <1>2, <1>3, SlotRound DEF Full
<1>. QED  BY <1>1, <1>4, Indexed, SizeType

(* When pop does not find the ring empty, an order is there. *)
LEMMA Available ==
  ASSUME RingInv, NEW i \in seenTail .. Len(tail), ~ Empty(tail[i])
  PROVE  Len(head) < i
<1>1. i \in Nat \ {0} /\ Len(head) <= i
  BY Indexed
<1>2. tail[i] = Slot(i)
  BY <1>1, Indexed DEF RingInv, Rounds
<1>. QED  BY <1>1, <1>2, Indexed DEF Empty

(* The producer writes no slot that holds a waiting order. *)
LEMMA OtherSlot ==
  ASSUME RingInv, NEW n \in Len(head) .. Len(tail) - 1
  PROVE  Slot(n) # Slot(Len(tail)) /\ Slot(n) \in Indices
<1>1. /\ n \in Nat \ {0} /\ Len(tail) \in Nat \ {0}
      /\ n < Len(tail) /\ Len(tail) - n < SIZE
  BY Indexed, SizeType
<1>. QED  BY <1>1, SlotsDiffer, SlotType

(* Storing the next index takes an atomic one slot on. *)
LEMMA StoreNext ==
  ASSUME NEW a \in Seq(Indices), Len(a) >= 1,
         \A n \in 1 .. Len(a) : a[n] = Slot(n)
  PROVE  /\ Append(a, NextIndex(Current(a))) \in Seq(Indices)
         /\ Len(Append(a, NextIndex(Current(a)))) = Len(a) + 1
         /\ \A n \in 1 .. Len(a) + 1 :
              Append(a, NextIndex(Current(a)))[n] = Slot(n)
<1>1. NextIndex(Current(a)) = Slot(Len(a) + 1)
  BY NextSlot DEF Current
<1>2. Slot(Len(a) + 1) \in Indices
  BY SlotType
<1>. QED  BY <1>1, <1>2 DEF Current

LEMMA InitInv == Init => RingInv
<1> SUFFICES ASSUME Init PROVE RingInv
  OBVIOUS
<1>1. 0 \in Indices /\ Slot(1) = 0
  <2>1. 0 % SIZE = 0
    BY SizeType, SlotType, DivMod, NoMultiple
  <2>. QED  BY <2>1, SizeType DEF Slot, Indices
<1>2. TypeOK
  BY <1>1 DEF Init, TypeOK
<1>3. Rounds
  BY <1>1 DEF Init, Rounds
<1>4. Apart
  BY SizeType DEF Init, Apart
<1>5. Held
  BY DEF Init, Held
<1>. QED  BY <1>2, <1>3, <1>4, <1>5 DEF RingInv

(* The steps of push. *)
LEMMA PushKeeps ==
  ASSUME RingInv, Push
  PROVE  RingInv'
<1> DEFINE h == Len(head)
           t == Len(tail)
<1>1. ASSUME NEW i \in seenHead .. Len(head), PushFull(i)
      PROVE  RingInv'
  <2>1. TypeOK'
    BY <1>1, Indexed DEF RingInv, TypeOK, PushFull, consumerVars
  <2>2. Rounds' /\ Held'
    BY <1>1 DEF RingInv, Rounds, Held, PushFull, consumerVars
  <2>3. Apart'
    BY <1>1, Indexed, SizeType DEF RingInv, Apart, PushFull, consumerVars
  <2>. QED  BY <2>1, <2>2, <2>3 DEF RingInv
<1>2. ASSUME NEW i \in seenHead .. Len(head), NEW m \in Messages, BeginWrite(m, i)
      PROVE  RingInv'
  <2>1. t <= i + SIZE - 2 /\ i <= h
    BY <1>2, Room DEF BeginWrite
  <2>2. TypeOK'
    BY <1>2, Indexed, SlotType DEF RingInv, TypeOK, BeginWrite, consumerVars
  <2>3. Rounds'
    BY <1>2 DEF RingInv, Rounds, BeginWrite, consumerVars
  <2>4. Apart'
    BY <1>2, <2>1, Indexed, SizeType DEF RingInv, Apart, BeginWrite, consumerVars
  <2>5. \A n \in h .. t - 1 : buffer'[Slot(n)] = buffer[Slot(n)]
    <3> TAKE n \in h .. t - 1
    <3>1. Slot(n) # Slot(t) /\ Slot(n) \in Indices
      BY OtherSlot
    <3>. QED  BY <1>2, <3>1, Indexed DEF BeginWrite, RingInv, TypeOK
  <2>6. consumer = "read" => buffer'[Slot(h)] = buffer[Slot(h)]
    BY <2>5, Indexed DEF RingInv, Apart
  <2>7. Held'
    BY <1>2, <2>5, <2>6 DEF RingInv, Held, BeginWrite, consumerVars
  <2>. QED  BY <2>2, <2>3, <2>4, <2>7 DEF RingInv
<1>3. ASSUME EndWrite
      PROVE  RingInv'
  <2>1. incoming \in Messages /\ Slot(t) \in Indices /\ Current(tail) = Slot(t)
    BY <1>3, Indexed, SlotType DEF EndWrite, RingInv, Held
  <2>2. TypeOK'
    BY <1>3, <2>1 DEF RingInv, TypeOK, EndWrite, consumerVars
  <2>3. Rounds'
    BY <1>3 DEF RingInv, Rounds, EndWrite, consumerVars
  <2>4. Apart'
    BY <1>3 DEF RingInv, Apart, EndWrite, consumerVars
  <2>5. \A n \in h .. t - 1 : buffer'[Slot(n)] = buffer[Slot(n)]
    <3> TAKE n \in h .. t - 1
    <3>1. Slot(n) # Slot(t) /\ Slot(n) \in Indices
      BY OtherSlot
    <3>. QED  BY <1>3, <3>1, <2>1 DEF EndWrite, RingInv, TypeOK
  <2>6. consumer = "read" => buffer'[Slot(h)] = buffer[Slot(h)]
    BY <2>5, Indexed DEF RingInv, Apart
  <2>7. buffer'[Slot(t)] = incoming
    BY <1>3, <2>1 DEF EndWrite, RingInv, TypeOK
  <2>8. Held'
    BY <1>3, <2>1, <2>5, <2>6, <2>7 DEF RingInv, Held, EndWrite, consumerVars
  <2>. QED  BY <2>2, <2>3, <2>4, <2>8 DEF RingInv
<1>4. ASSUME StoreTail
      PROVE  RingInv'
  <2>0. /\ tail \in Seq(Indices) /\ Len(tail) >= 1
        /\ \A n \in 1 .. Len(tail) : tail[n] = Slot(n)
    BY Indexed DEF RingInv, TypeOK, Rounds
  <2>1. /\ tail' \in Seq(Indices) /\ Len(tail') = t + 1
        /\ \A n \in 1 .. Len(tail') : tail'[n] = Slot(n)
    BY <1>4, <2>0, StoreNext DEF StoreTail
  <2>2. TypeOK'
    BY <1>4, <2>1, Indexed DEF RingInv, TypeOK, StoreTail, consumerVars
  <2>3. Rounds'
    BY <1>4, <2>1 DEF RingInv, Rounds, StoreTail, consumerVars
  <2>4. Apart'
    BY <1>4, <2>1, Indexed, SizeType DEF RingInv, Apart, StoreTail, consumerVars
  <2>5. Held'
    BY <1>4, <2>1, Indexed DEF RingInv, Held, StoreTail, consumerVars
  <2>. QED  BY <2>2, <2>3, <2>4, <2>5 DEF RingInv
<1>. QED  BY <1>1, <1>2, <1>3, <1>4 DEF Push

(* The steps of pop. *)
LEMMA PopKeeps ==
  ASSUME RingInv, Pop
  PROVE  RingInv'
<1> DEFINE h == Len(head)
           t == Len(tail)
<1>1. ASSUME NEW i \in seenTail .. Len(tail), PopEmpty(i)
      PROVE  RingInv'
  <2>1. TypeOK'
    BY <1>1, Indexed DEF RingInv, TypeOK, PopEmpty, producerVars
  <2>2. Rounds' /\ Held'
    BY <1>1 DEF RingInv, Rounds, Held, PopEmpty, producerVars
  <2>3. Apart'
    BY <1>1, Indexed DEF RingInv, Apart, PopEmpty, producerVars
  <2>. QED  BY <2>1, <2>2, <2>3 DEF RingInv
<1>2. ASSUME NEW i \in seenTail .. Len(tail), BeginRead(i)
      PROVE  RingInv'
  <2>1. h < i
    BY <1>2, Available DEF BeginRead
  <2>2. TypeOK'
    BY <1>2, Indexed DEF RingInv, TypeOK, BeginRead, producerVars
  <2>3. Rounds' /\ Held'
    BY <1>2 DEF RingInv, Rounds, Held, BeginRead, producerVars
  <2>4. Apart'
    BY <1>2, <2>1, Indexed DEF RingInv, Apart, BeginRead, producerVars
  <2>. QED  BY <2>2, <2>3, <2>4 DEF RingInv
<1>3. ASSUME EndRead
      PROVE  RingInv'
  <2>1. Current(head) = Slot(h) /\ buffer[Slot(h)] \in Messages
    BY <1>3, Indexed DEF EndRead, RingInv, Apart, Held
  <2>2. TypeOK'
    BY <1>3, <2>1 DEF RingInv, TypeOK, EndRead, producerVars
  <2>3. Rounds' /\ Held'
    BY <1>3, <2>1 DEF RingInv, Rounds, Held, EndRead, producerVars
  <2>4. Apart'
    BY <1>3 DEF RingInv, Apart, EndRead, producerVars
  <2>. QED  BY <2>2, <2>3, <2>4 DEF RingInv
<1>4. ASSUME StoreHead
      PROVE  RingInv'
  <2>0. /\ head \in Seq(Indices) /\ Len(head) >= 1
        /\ \A n \in 1 .. Len(head) : head[n] = Slot(n)
    BY Indexed DEF RingInv, TypeOK, Rounds
  <2>1. /\ head' \in Seq(Indices) /\ Len(head') = h + 1
        /\ \A n \in 1 .. Len(head') : head'[n] = Slot(n)
    BY <1>4, <2>0, StoreNext DEF StoreHead
  <2>2. h < seenTail /\ copy \in Messages
    BY <1>4, Indexed DEF StoreHead, RingInv, Apart, Held
  <2>3. TypeOK'
    BY <1>4, <2>1, <2>2, Indexed DEF RingInv, TypeOK, StoreHead, producerVars
  <2>4. Rounds'
    BY <1>4, <2>1 DEF RingInv, Rounds, StoreHead, producerVars
  <2>5. Apart'
    BY <1>4, <2>1, <2>2, Indexed DEF RingInv, Apart, StoreHead, producerVars
  <2>6. Held'
    BY <1>4, <2>1, Indexed DEF RingInv, Held, StoreHead, producerVars
  <2>. QED  BY <2>3, <2>4, <2>5, <2>6 DEF RingInv
<1>. QED  BY <1>1, <1>2, <1>3, <1>4 DEF Pop

LEMMA NextInv == RingInv /\ [Next]_vars => RingInv'
<1>1. RingInv /\ UNCHANGED vars => RingInv'
  BY DEF RingInv, TypeOK, Rounds, Apart, Held, vars, producerVars, consumerVars
<1>. QED  BY <1>1, PushKeeps, PopKeeps DEF Next
----------------------------------------------------------------------------
(* Each step of the ring is a step of the bounded queue, or none. *)

LEMMA WaitingIs ==
  RingInv =>
    /\ Waiting \in Seq(Messages \cup {NoMessage, Torn})
    /\ Len(Waiting) = Len(tail) - Len(head)
    /\ \A n \in 1 .. Len(tail) - Len(head) :
         Waiting[n] = buffer[Slot(Len(head) + (n - 1))]
<1>. HAVE RingInv
<1>1. \A n \in 1 .. Len(tail) - Len(head) :
        /\ (Current(head) + (n - 1)) % SIZE = Slot(Len(head) + (n - 1))
        /\ Slot(Len(head) + (n - 1)) \in Indices
  <2> TAKE n \in 1 .. Len(tail) - Len(head)
  <2>1. n - 1 \in Nat /\ Len(head) + (n - 1) \in Nat \ {0}
    BY Indexed
  <2>. QED  BY <2>1, Indexed, SlotAhead, SlotType
<1>2. Len(tail) - Len(head) \in Nat
  BY Indexed
<1>3. \A i \in Indices : buffer[i] \in Messages \cup {NoMessage, Torn}
  BY DEF RingInv, TypeOK
<1>. QED  BY <1>1, <1>2, <1>3 DEF Waiting

(* The same, after a step. *)
LEMMA NextWaitingIs ==
  ASSUME RingInv'
  PROVE  /\ Waiting' \in Seq(Messages \cup {NoMessage, Torn})
         /\ Len(Waiting') = Len(tail') - Len(head')
         /\ \A n \in 1 .. Len(tail') - Len(head') :
              Waiting'[n] = buffer'[Slot(Len(head') + (n - 1))]
<1>1. (RingInv =>
         /\ Waiting \in Seq(Messages \cup {NoMessage, Torn})
         /\ Len(Waiting) = Len(tail) - Len(head)
         /\ \A n \in 1 .. Len(tail) - Len(head) :
              Waiting[n] = buffer[Slot(Len(head) + (n - 1))])'
  BY WaitingIs, PTL
<1>. QED  BY <1>1

(* A step that leaves both indices and the waiting orders' slots alone     *)
(* leaves the queue alone.                                                 *)
LEMMA SameWaiting ==
  ASSUME RingInv, RingInv', UNCHANGED << head, tail >>,
         \A n \in Len(head) .. Len(tail) - 1 : buffer'[Slot(n)] = buffer[Slot(n)]
  PROVE  Waiting' = Waiting
<1>1. /\ Waiting' \in Seq(Messages \cup {NoMessage, Torn})
      /\ Len(Waiting') = Len(tail) - Len(head)
      /\ \A n \in 1 .. Len(tail) - Len(head) :
           Waiting'[n] = buffer'[Slot(Len(head) + (n - 1))]
  BY NextWaitingIs
<1>2. \A n \in 1 .. Len(tail) - Len(head) :
        Len(head) + (n - 1) \in Len(head) .. Len(tail) - 1
  BY Indexed
<1>3. \A n \in 1 .. Len(tail) - Len(head) : Waiting'[n] = Waiting[n]
  BY <1>1, <1>2, WaitingIs
<1>. QED  BY <1>1, <1>3, WaitingIs, SeqEqual

(* The store of tail puts the order of push in the queue. *)
LEMMA StoreTailPuts ==
  ASSUME RingInv, RingInv', StoreTail
  PROVE  Queue!Put(incoming) /\ incoming \in Messages
<1> DEFINE S == Messages \cup {NoMessage, Torn}
<1>1. /\ incoming \in Messages /\ buffer[Slot(Len(tail))] = incoming
      /\ Len(tail) <= seenHead + SIZE - 2
  BY DEF StoreTail, RingInv, Held, Apart
<1>2. /\ Len(tail') = Len(tail) + 1 /\ buffer' = buffer
      /\ head' = head /\ delivered' = delivered
  BY DEF StoreTail, RingInv, TypeOK, consumerVars
<1>3. Waiting \in Seq(S) /\ Waiting' \in Seq(S) /\ Append(Waiting, incoming) \in Seq(S)
  BY <1>1, WaitingIs, NextWaitingIs
<1>4. /\ Len(Append(Waiting, incoming)) = Len(Waiting')
      /\ Len(Waiting') = Len(tail) - Len(head) + 1
  BY <1>2, <1>3, Indexed, WaitingIs, NextWaitingIs
<1>5. ASSUME NEW n \in 1 .. Len(Waiting')
      PROVE  Append(Waiting, incoming)[n] = Waiting'[n]
  <2>1. Waiting'[n] = buffer[Slot(Len(head) + (n - 1))]
    BY <1>2, <1>4, Indexed, NextWaitingIs
  <2>2. CASE n <= Len(tail) - Len(head)
    BY <2>1, <2>2, <1>3, WaitingIs
  <2>3. CASE n = Len(tail) - Len(head) + 1
    <3>1. Len(head) + (n - 1) = Len(tail)
      BY <2>3, Indexed
    <3>2. n = Len(Waiting) + 1
      BY <2>3, WaitingIs
    <3>3. Append(Waiting, incoming)[n] = incoming
      BY <3>2, <1>3
    <3>. QED  BY <2>1, <3>1, <3>3, <1>1
  <2>. QED  BY <2>2, <2>3, <1>4, Indexed
<1>6. Waiting' = Append(Waiting, incoming)
  BY <1>3, <1>4, <1>5, SeqEqual
<1>7. Len(Waiting) < SIZE - 1
  BY <1>1, Indexed, WaitingIs, SizeType
<1>. QED  BY <1>1, <1>2, <1>6, <1>7 DEF Queue!Put

(* The store of head takes the oldest order from the queue. *)
LEMMA StoreHeadTakes ==
  ASSUME RingInv, RingInv', StoreHead
  PROVE  Queue!Take
<1> DEFINE S == Messages \cup {NoMessage, Torn}
<1>1. copy = buffer[Slot(Len(head))] /\ Len(head) < Len(tail)
  BY Indexed DEF StoreHead, RingInv, Held, Apart
<1>2. /\ Len(head') = Len(head) + 1 /\ buffer' = buffer
      /\ tail' = tail /\ delivered' = Append(delivered, copy)
  BY DEF StoreHead, RingInv, TypeOK, producerVars
<1>3. /\ Waiting \in Seq(S) /\ Waiting' \in Seq(S)
      /\ Len(Waiting) = Len(tail) - Len(head)
      /\ Len(Waiting') = Len(tail) - Len(head) - 1
  <2>1. Waiting \in Seq(S) /\ Len(Waiting) = Len(tail) - Len(head)
    BY WaitingIs
  <2>2. Waiting' \in Seq(S) /\ Len(Waiting') = Len(tail') - Len(head')
    BY NextWaitingIs
  <2>3. Len(tail') - Len(head') = Len(tail) - Len(head) - 1
    BY <1>2, Indexed
  <2>. QED  BY <2>1, <2>2, <2>3
<1>4. Waiting # << >> /\ Head(Waiting) = copy
  BY <1>1, <1>3, Indexed, WaitingIs
<1>5. /\ Tail(Waiting) \in Seq(S) /\ Len(Tail(Waiting)) = Len(Waiting')
      /\ \A n \in 1 .. Len(Waiting') : Tail(Waiting)[n] = Waiting[n + 1]
  BY <1>3, <1>4, Indexed, HeadTailProperties
<1>6. ASSUME NEW n \in 1 .. Len(Waiting')
      PROVE  Tail(Waiting)[n] = Waiting'[n]
  <2>1. Waiting'[n] = buffer[Slot(Len(head) + 1 + (n - 1))]
    BY <1>2, <1>3, Indexed, NextWaitingIs
  <2>2. n + 1 \in 1 .. Len(tail) - Len(head)
    BY <1>3, Indexed
  <2>3. Waiting[n + 1] = buffer[Slot(Len(head) + ((n + 1) - 1))]
    BY <2>2, WaitingIs
  <2>4. Len(head) + ((n + 1) - 1) = Len(head) + 1 + (n - 1)
    BY Indexed
  <2>. QED  BY <1>5, <2>1, <2>3, <2>4
<1>7. Waiting' = Tail(Waiting)
  BY <1>3, <1>5, <1>6, SeqEqual
<1>. QED  BY <1>2, <1>4, <1>7 DEF Queue!Take

LEMMA StepMaps ==
  RingInv /\ RingInv' /\ [Next]_vars => [Queue!Next]_(Queue!vars)
<1> SUFFICES ASSUME RingInv, RingInv', [Next]_vars
             PROVE  [Queue!Next]_(Queue!vars)
  OBVIOUS
<1>1. CASE StoreTail
  BY <1>1, StoreTailPuts DEF Queue!Next
<1>2. CASE StoreHead
  BY <1>2, StoreHeadTakes DEF Queue!Next
<1>3. ASSUME UNCHANGED << head, tail, delivered >>,
             \A n \in Len(head) .. Len(tail) - 1 : buffer'[Slot(n)] = buffer[Slot(n)]
      PROVE  UNCHANGED Queue!vars
  BY <1>3, SameWaiting DEF Queue!vars
<1>4. ASSUME UNCHANGED << buffer, head, tail, delivered >>
      PROVE  UNCHANGED Queue!vars
  BY <1>3, <1>4
<1>5. ASSUME NEW e, buffer' = [buffer EXCEPT ![Current(tail)] = e],
             UNCHANGED << head, tail, delivered >>
      PROVE  UNCHANGED Queue!vars
  <2>1. \A n \in Len(head) .. Len(tail) - 1 : buffer'[Slot(n)] = buffer[Slot(n)]
    BY <1>5, OtherSlot, Indexed DEF RingInv, TypeOK
  <2>. QED  BY <1>3, <1>5, <2>1
<1>6. CASE \E i \in seenHead .. Len(head) :
             PushFull(i) \/ \E m \in Messages : BeginWrite(m, i)
  BY <1>4, <1>5, <1>6 DEF PushFull, BeginWrite, consumerVars
<1>7. CASE EndWrite
  BY <1>5, <1>7 DEF EndWrite, consumerVars
<1>8. CASE (\E i \in seenTail .. Len(tail) : PopEmpty(i) \/ BeginRead(i)) \/ EndRead
  BY <1>4, <1>8 DEF PopEmpty, BeginRead, EndRead, producerVars
<1>9. CASE UNCHANGED vars
  BY <1>4, <1>9 DEF vars, producerVars, consumerVars
<1>. QED  BY <1>1, <1>2, <1>6, <1>7, <1>8, <1>9 DEF Next, Push, Pop

LEMMA InitMaps == Init => Queue!Init
<1> SUFFICES ASSUME Init PROVE Queue!Init
  OBVIOUS
<1>1. Waiting = << >>
  BY DEF Init, Waiting
<1>. QED  BY <1>1 DEF Init, Queue!Init
----------------------------------------------------------------------------
LEMMA RingInvariant == Spec => []RingInv
BY InitInv, NextInv, PTL DEF Spec

(* The indices never leave the ring and pop never returns anything but a   *)
(* whole order that push was given.                                        *)
THEOREM TypeCorrect == Spec => []TypeOK
<1>1. RingInv => TypeOK
  BY DEF RingInv
<1>. QED  BY <1>1, RingInvariant, PTL

(* push and pop never touch one slot at the same time, whatever the size   *)
(* of the ring, the number of pushes and the age of the indices loaded.    *)
THEOREM RaceFree == Spec => []NoRace
<1>1. RingInv => NoRace
  <2> SUFFICES ASSUME RingInv, producer = "writing", consumer = "reading"
               PROVE  Current(tail) # Current(head)
    BY DEF NoRace
  <2>1. Len(head) < Len(tail)
    BY Indexed DEF RingInv, Apart
  <2>. QED  BY <2>1, Indexed, SlotsDiffer
<1>. QED  BY <1>1, RingInvariant, PTL

(* Without fairness, the ring implements the bounded FIFO queue of         *)
(* SIZE - 1 orders.                                                        *)
THEOREM QueueImplemented == Spec => ImplementsBoundedQueue
<1>1. Init => Queue!Init
  BY InitMaps
<1>2. RingInv /\ RingInv' /\ [Next]_vars => [Queue!Next]_(Queue!vars)
  BY StepMaps
<1>. QED  BY <1>1, <1>2, RingInvariant, PTL DEF Spec, ImplementsBoundedQueue, Queue!Spec
=============================================================================
