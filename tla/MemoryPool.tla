----------------------------- MODULE MemoryPool -----------------------------
(***************************************************************************)
(* MemoryPool (src/memorypool.h, src/memorypool.cpp): slots of equal size, *)
(* the free ones linked through their own first word.  A slot that is      *)
(* handed out is the caller's to write, the first word included.  The      *)
(* callers are those of pool_benchmark.cpp: they return what they got,     *)
(* once.                                                                   *)
(***************************************************************************)
EXTENDS Integers

CONSTANTS
  POOL_SIZE,   \* slots of the pool
  Null         \* nullptr

Slots == 0 .. POOL_SIZE - 1

(* A slot is at least as large as the word that links it (slotSize is the  *)
(* size of an Order), so that two slots never share a word.                *)
ASSUME PoolAssumption == POOL_SIZE \in Nat \ {0} /\ Null \notin Slots

Word == Slots \cup {Null}

VARIABLES
  memory,         \* the first word of each slot
  freeListHead,
  returned,       \* what allocate returned last
  held            \* history: the slots handed out and not returned

vars == << memory, freeListHead, returned, held >>

(* Every link leads to a slot of the pool or nowhere. *)
TypeOK ==
  /\ memory \in [Slots -> Word]
  /\ freeListHead \in Word
  /\ returned \in Word
  /\ held \subseteq Slots

(* Mutants of Linked: the last slot is linked to the first; the loop of    *)
(* the constructor does not stop before the last slot.                     *)
Linked_Cyclic(i) == (i + 1) % POOL_SIZE

Linked_PastEnd(i) == i + 1

(* The word the constructor puts in slot i. *)
Linked(i) == IF i = POOL_SIZE - 1 THEN Null ELSE i + 1

Init ==
  /\ memory = [i \in Slots |-> Linked(i)]
  /\ freeListHead = 0
  /\ returned = Null
  /\ held = {}
----------------------------------------------------------------------------
AllocateNone ==
  /\ freeListHead = Null
  /\ returned' = Null
  /\ UNCHANGED << memory, freeListHead, held >>

(* Mutant of AllocateSlot: the head moves to the neighbour of the slot. *)
AllocateSlot_Neighbour ==
  /\ freeListHead # Null
  /\ returned' = freeListHead
  /\ freeListHead' = Linked(freeListHead)
  /\ held' = held \cup {freeListHead}
  /\ UNCHANGED memory

AllocateSlot ==
  /\ freeListHead # Null
  /\ returned' = freeListHead
  /\ freeListHead' = memory[freeListHead]
  /\ held' = held \cup {freeListHead}
  /\ UNCHANGED memory

(* A caller writes to its slot, a stale address for instance. *)
Write(p, w) ==
  /\ p \in held
  /\ memory' = [memory EXCEPT ![p] = w]
  /\ UNCHANGED << freeListHead, returned, held >>

(* Mutant of Deallocate: the slot is not linked to the old head. *)
Deallocate_Unlinked(p) ==
  /\ p \in held
  /\ freeListHead' = p
  /\ held' = held \ {p}
  /\ UNCHANGED << memory, returned >>

Deallocate(p) ==
  /\ p \in held
  /\ memory' = [memory EXCEPT ![p] = freeListHead]
  /\ freeListHead' = p
  /\ held' = held \ {p}
  /\ UNCHANGED returned

Next ==
  \/ AllocateNone \/ AllocateSlot
  \/ \E p \in Slots : Deallocate(p) \/ \E w \in Word : Write(p, w)

Spec == Init /\ [][Next]_vars
----------------------------------------------------------------------------
(* The pool never hands out a slot that is held, whatever its holders      *)
(* write, and returns nullptr only when every slot is held: no slot is     *)
(* lost between the words of the free list.                                *)
Pool == INSTANCE SlotPool

ImplementsSlotPool == Pool!Spec

(* f lists the slots that are not held, each once, in the order in which   *)
(* the links lead from freeListHead to nullptr.                            *)
Lists(f, n) ==
  LET Link(i) == IF i < n THEN f[i + 1] ELSE Null
  IN  /\ \A p \in Slots : p \notin held <=> \E i \in 1 .. n : f[i] = p
      /\ \A i, j \in 1 .. n : f[i] = f[j] => i = j
      /\ freeListHead = Link(0)
      /\ \A i \in 1 .. n : memory[f[i]] = Link(i)

(* The free list visits every slot that is not held exactly once and ends, *)
(* in whatever order slots came back and whatever their holders wrote.     *)
FreeListIntact ==
  \E n \in 0 .. POOL_SIZE : \E f \in [1 .. n -> Slots] : Lists(f, n)
=============================================================================
