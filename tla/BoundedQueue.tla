---------------------------- MODULE BoundedQueue ----------------------------
(***************************************************************************)
(* What the ring buffer promises the two threads that share it: a FIFO     *)
(* queue of bounded capacity, from which everything put is delivered.      *)
(***************************************************************************)
EXTENDS Integers, Sequences

CONSTANTS
  Messages,   \* what is queued: the orders of the feed
  Capacity    \* the most the queue holds

VARIABLES
  queue,      \* what has been put and not yet been taken
  delivered   \* history: what has been taken, in that order

vars == << queue, delivered >>

Init == queue = << >> /\ delivered = << >>

Put(m) ==
  /\ Len(queue) < Capacity
  /\ queue' = Append(queue, m)
  /\ UNCHANGED delivered

Take ==
  /\ queue # << >>
  /\ queue' = Tail(queue)
  /\ delivered' = Append(delivered, Head(queue))

Next == Take \/ \E m \in Messages : Put(m)

Spec == Init /\ [][Next]_vars

FairSpec == Spec /\ WF_vars(Take)
=============================================================================
