----------------------------- MODULE RingBuffer -----------------------------
(***************************************************************************)
(* The single-producer single-consumer ring (src/ringbuffer.h,             *)
(* src/ringbuffer.cpp) under the C++ memory model.  head and tail are      *)
(* atomics: each is the sequence of the values stored in it, its           *)
(* modification order, of which the owner always loads the last and the    *)
(* other thread loads any that is not older than what it loaded before.    *)
(* Copying an Order is not atomic: a slot is torn while it is written.     *)
(***************************************************************************)
EXTENDS Integers, Sequences

CONSTANTS
  Messages,    \* the orders pushed
  SIZE,        \* slots of the ring
  NoMessage,   \* the contents of a slot, or of the caller's order, at first
  Torn,        \* the contents of a slot half written
  MaxPushes    \* bound: pushes that find room

(* x & (SIZE - 1) is x % SIZE only for a power of two. *)
ASSUME RingAssumption ==
  /\ SIZE \in Nat /\ SIZE > 1 /\ \E k \in 1 .. 10 : SIZE = 2 ^ k
  /\ MaxPushes \in Nat
  /\ NoMessage \notin Messages /\ Torn \notin Messages

Indices == 0 .. SIZE - 1

VARIABLES
  buffer,     \* the slots
  head,       \* every value stored in head, oldest first
  tail,       \* every value stored in tail, oldest first
  seenHead,   \* position in head of what the producer loaded last
  seenTail,   \* position in tail of what the consumer loaded last
  producer,   \* where push is: "idle", "writing" or "written"
  incoming,   \* the order passed to push
  consumer,   \* where pop is: "idle", "reading" or "read"
  copy,       \* the order pop fills in
  delivered   \* history: what pop has returned

producerVars == << tail, seenHead, producer, incoming >>
consumerVars == << head, seenTail, consumer, copy, delivered >>
vars == << buffer, producerVars, consumerVars >>

(* Both atomics hold indices of slots, and pop never returns a torn order  *)
(* or one that no push wrote.                                              *)
TypeOK ==
  /\ buffer \in [Indices -> Messages \cup {NoMessage, Torn}]
  /\ head \in Seq(Indices) /\ tail \in Seq(Indices)
  /\ seenHead \in 1 .. Len(head) /\ seenTail \in 1 .. Len(tail)
  /\ producer \in {"idle", "writing", "written"}
  /\ incoming \in Messages \cup {NoMessage}
  /\ consumer \in {"idle", "reading", "read"}
  /\ copy \in Messages \cup {NoMessage}
  /\ delivered \in Seq(Messages)

Init ==
  /\ buffer = [i \in Indices |-> NoMessage]
  /\ head = << 0 >> /\ tail = << 0 >>
  /\ seenHead = 1 /\ seenTail = 1
  /\ producer = "idle" /\ incoming = NoMessage
  /\ consumer = "idle" /\ copy = NoMessage
  /\ delivered = << >>
----------------------------------------------------------------------------
(* What the thread that stores in an atomic loads from it. *)
Current(stores) == stores[Len(stores)]

(* Mutant of NextIndex: no mask. *)
NextIndex_Unmasked(i) == i + 1

NextIndex(i) == (i + 1) % SIZE

(* Mutant of Full: the mask is forgotten. *)
Full_Unmasked(h) == Current(tail) + 1 = h

(* The ring is full when one slot is left. *)
Full(h) == NextIndex(Current(tail)) = h

(* Mutant of Empty: as full leaves one slot, empty leaves one order. *)
Empty_LeavesOne(t) == t \in {Current(head), NextIndex(Current(head))}

Empty(t) == Current(head) = t

(* push loads head, finds the ring full and returns false. *)
PushFull(i) ==
  /\ producer = "idle"
  /\ Full(head[i])
  /\ seenHead' = i
  /\ UNCHANGED << buffer, tail, producer, incoming, consumerVars >>

(* push loads head, finds room and starts to copy the order to its slot. *)
BeginWrite(m, i) ==
  /\ producer = "idle"
  /\ Len(tail) <= MaxPushes
  /\ ~ Full(head[i])
  /\ seenHead' = i
  /\ buffer' = [buffer EXCEPT ![Current(tail)] = Torn]
  /\ producer' = "writing"
  /\ incoming' = m
  /\ UNCHANGED << tail, consumerVars >>

EndWrite ==
  /\ producer = "writing"
  /\ buffer' = [buffer EXCEPT ![Current(tail)] = incoming]
  /\ producer' = "written"
  /\ UNCHANGED << tail, seenHead, incoming, consumerVars >>

(* Mutant of StoreTail: a relaxed store, seen before the slot is written. *)
StoreTail_Relaxed ==
  /\ producer = "writing"
  /\ tail' = Append(tail, NextIndex(Current(tail)))
  /\ producer' = "idle"
  /\ UNCHANGED << buffer, seenHead, incoming, consumerVars >>

(* The release store: who loads this tail sees the slot written. *)
StoreTail ==
  /\ producer = "written"
  /\ tail' = Append(tail, NextIndex(Current(tail)))
  /\ producer' = "idle"
  /\ UNCHANGED << buffer, seenHead, incoming, consumerVars >>

(* pop loads tail, finds the ring empty and returns false. *)
PopEmpty(i) ==
  /\ consumer = "idle"
  /\ Empty(tail[i])
  /\ seenTail' = i
  /\ UNCHANGED << buffer, head, consumer, copy, delivered, producerVars >>

(* pop loads tail, finds an order and starts to copy it out. *)
BeginRead(i) ==
  /\ consumer = "idle"
  /\ ~ Empty(tail[i])
  /\ seenTail' = i
  /\ consumer' = "reading"
  /\ UNCHANGED << buffer, head, copy, delivered, producerVars >>

EndRead ==
  /\ consumer = "reading"
  /\ copy' = buffer[Current(head)]
  /\ consumer' = "read"
  /\ UNCHANGED << buffer, head, seenTail, delivered, producerVars >>

(* The release store that gives the slot back to the producer. *)
StoreHead ==
  /\ consumer = "read"
  /\ head' = Append(head, NextIndex(Current(head)))
  /\ delivered' = Append(delivered, copy)
  /\ consumer' = "idle"
  /\ UNCHANGED << buffer, seenTail, copy, producerVars >>

Push ==
  \/ \E i \in seenHead .. Len(head) :
       PushFull(i) \/ \E m \in Messages : BeginWrite(m, i)
  \/ EndWrite \/ StoreTail

Pop ==
  \/ \E i \in seenTail .. Len(tail) : PopEmpty(i) \/ BeginRead(i)
  \/ EndRead \/ StoreHead

Next == Push \/ Pop

Spec == Init /\ [][Next]_vars

(* A push that found room completes; the consumer spins on pop for ever    *)
(* (main.cpp:17), and sooner or later loads the newest tail.               *)
FairSpec ==
  /\ Spec
  /\ WF_vars(EndWrite \/ StoreTail)
  /\ WF_vars(BeginRead(Len(tail)) \/ EndRead \/ StoreHead)
----------------------------------------------------------------------------
(* push and pop never touch one slot at the same time, however old the     *)
(* index each loaded of the other: the code has no lock, so two accesses   *)
(* of one Order, a struct with a string, would be a data race.             *)
NoRace ==
  ~ (producer = "writing" /\ consumer = "reading"
       /\ Current(tail) = Current(head))

(* The orders in the ring, oldest first. *)
Waiting ==
  [n \in 1 .. Len(tail) - Len(head) |-> buffer[(Current(head) + (n - 1)) % SIZE]]

(* The ring is a FIFO queue of SIZE - 1 orders: from the store of tail to  *)
(* the store of head an order waits in its slot untouched; nothing is      *)
(* lost, repeated, reordered or torn.                                      *)
Queue == INSTANCE BoundedQueue WITH Capacity <- SIZE - 1, queue <- Waiting

ImplementsBoundedQueue == Queue!Spec

(* Every order for which push returned true is popped, however late the    *)
(* consumer sees the tail move: no order stays behind in the ring.         *)
EveryOrderDelivered ==
  \A n \in 1 .. MaxPushes : (Len(tail) > n) ~> (Len(delivered) >= n)
=============================================================================
