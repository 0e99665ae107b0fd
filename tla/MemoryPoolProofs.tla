-------------------------- MODULE MemoryPoolProofs --------------------------
(***************************************************************************)
(* The memory pool for every number of slots: the free list stays intact,  *)
(* and every step is a step of the abstract pool.                          *)
(***************************************************************************)
EXTENDS MemoryPool, FiniteSetTheorems, TLAPS

PoolInv == TypeOK /\ FreeListIntact

LEMMA SlotsType ==
  POOL_SIZE \in Nat /\ POOL_SIZE >= 1 /\ Null \notin 0 .. POOL_SIZE - 1
BY PoolAssumption DEF Slots

(* A list of different slots is no longer than the pool. *)
LEMMA NoLongerThanPool ==
  ASSUME NEW n \in Nat, NEW f \in [1 .. n -> Slots],
         \A i, j \in 1 .. n : f[i] = f[j] => i = j
  PROVE  n <= POOL_SIZE
<1>1. IsFiniteSet(Slots) /\ Cardinality(Slots) = POOL_SIZE
  BY FS_Interval, SlotsType DEF Slots
<1>2. IsFiniteSet(1 .. n) /\ Cardinality(1 .. n) = n
  BY FS_Interval
<1>3. CASE POOL_SIZE < n
  <2>1. \E i, j \in 1 .. n : i # j /\ f[i] = f[j]
    BY <1>1, <1>2, <1>3, FS_PigeonHole
  <2>. QED  BY <2>1
<1>. QED  BY <1>3, SlotsType

(* The constructor links all slots in the order of their addresses. *)
LEMMA InitIntact == Init => PoolInv
<1>. SUFFICES ASSUME Init PROVE PoolInv
  OBVIOUS
<1>. USE SlotsType DEF Init
<1>1. TypeOK
  BY DEF TypeOK, Word, Linked, Slots
<1>2. FreeListIntact
  <2> DEFINE f == [i \in 1 .. POOL_SIZE |-> i - 1]
  <2>1. f \in [1 .. POOL_SIZE -> Slots]
    BY DEF Slots
  <2>2. \A p \in Slots : p + 1 \in 1 .. POOL_SIZE /\ f[p + 1] = p
    BY DEF Slots
  <2>3. \A i, j \in 1 .. POOL_SIZE : f[i] = f[j] => i = j
    OBVIOUS
  <2>4. /\ freeListHead = f[1]
        /\ \A i \in 1 .. POOL_SIZE :
             memory[f[i]] = IF i < POOL_SIZE THEN f[i + 1] ELSE Null
    <3>1. \A i \in 1 .. POOL_SIZE : f[i] = i - 1 /\ i - 1 \in Slots
      BY DEF Slots
    <3>2. \A i \in 1 .. POOL_SIZE : memory[i - 1] = Linked(i - 1)
      BY <3>1
    <3>3. \A i \in 1 .. POOL_SIZE :
            Linked(i - 1) = IF i < POOL_SIZE THEN f[i + 1] ELSE Null
      BY <3>1 DEF Linked
    <3>4. freeListHead = f[1]
      BY <3>1
    <3>. HIDE DEF f
    <3>. QED  BY <3>1, <3>2, <3>3, <3>4
  <2>. HIDE DEF f
  <2>5. Lists(f, POOL_SIZE)
    BY <2>2, <2>3, <2>4 DEF Lists
  <2>. QED  BY <2>1, <2>5 DEF FreeListIntact
<1>. QED  BY <1>1, <1>2 DEF PoolInv

LEMMA AllocateSlotIntact == PoolInv /\ AllocateSlot => PoolInv'
<1>. SUFFICES ASSUME PoolInv, AllocateSlot PROVE PoolInv'
  OBVIOUS
<1>. USE SlotsType DEF AllocateSlot
<1>0. PICK n \in 0 .. POOL_SIZE : \E f \in [1 .. n -> Slots] : Lists(f, n)
  BY DEF PoolInv, FreeListIntact
<1>1. PICK f \in [1 .. n -> Slots] : Lists(f, n)
  BY <1>0
<1>2. n >= 1 /\ freeListHead = f[1] /\ f[1] \in Slots \ held
  BY <1>1 DEF Lists
<1>3. TypeOK'
  BY <1>2 DEF PoolInv, TypeOK, Word
<1>4. FreeListIntact'
  <2> DEFINE m == n - 1
             g == [i \in 1 .. m |-> f[i + 1]]
  <2>1. m \in 0 .. POOL_SIZE /\ g \in [1 .. m -> Slots]
    BY <1>2
  <2>2. \A p \in Slots : p \notin held' <=> \E i \in 1 .. m : g[i] = p
    <3>1. \A i \in 1 .. m : g[i] = f[i + 1] /\ f[i + 1] # f[1]
                              /\ f[i + 1] \in Slots \ held
      BY <1>1, <1>2 DEF Lists
    <3>2. \A j \in 1 .. n : j = 1 \/ (j - 1 \in 1 .. m /\ g[j - 1] = f[j])
      OBVIOUS
    <3>3. ASSUME NEW p \in Slots, p \notin held'
          PROVE  \E i \in 1 .. m : g[i] = p
      <4>1. PICK j \in 1 .. n : p = f[j]
        BY <1>1, <3>3 DEF Lists
      <4>. QED  BY <1>2, <3>2, <3>3, <4>1
    <3>4. ASSUME NEW p \in Slots, NEW i \in 1 .. m, g[i] = p
          PROVE  p \notin held'
      BY <1>2, <3>1, <3>4
    <3>. QED  BY <3>3, <3>4
  <2>3. \A i, j \in 1 .. m : g[i] = g[j] => i = j
    BY <1>1 DEF Lists
  <2>4. freeListHead' = IF 0 < m THEN g[1] ELSE Null
    BY <1>1, <1>2 DEF Lists
  <2>5. \A i \in 1 .. m : memory'[g[i]] = IF i < m THEN g[i + 1] ELSE Null
    BY <1>1 DEF Lists
  <2>. HIDE DEF m, g
  <2>6. Lists(g, m)'
    BY <2>2, <2>3, <2>4, <2>5 DEF Lists
  <2>. QED  BY <2>1, <2>6 DEF FreeListIntact
<1>. QED  BY <1>3, <1>4 DEF PoolInv

LEMMA DeallocateIntact ==
  ASSUME PoolInv, NEW p \in Slots, Deallocate(p)
  PROVE  PoolInv'
<1>. USE SlotsType DEF Deallocate
<1>0. PICK n \in 0 .. POOL_SIZE : \E f \in [1 .. n -> Slots] : Lists(f, n)
  BY DEF PoolInv, FreeListIntact
<1>1. PICK f \in [1 .. n -> Slots] : Lists(f, n)
  BY <1>0
<1>2. TypeOK'
  BY DEF PoolInv, TypeOK, Word
<1>3. FreeListIntact'
  <2> DEFINE m == n + 1
             g == [i \in 1 .. m |-> IF i = 1 THEN p ELSE f[i - 1]]
  <2>1. m \in Nat /\ g \in [1 .. m -> Slots] /\ g[1] = p
    OBVIOUS
  <2>2. \A i \in 1 .. n : f[i] # p /\ g[i + 1] = f[i]
    BY <1>1 DEF Lists
  <2>3. \A q \in Slots : q \notin held' <=> \E i \in 1 .. m : g[i] = q
    <3>1. \A j \in 1 .. m : j = 1 \/ (j - 1 \in 1 .. n /\ g[j] = f[j - 1])
      OBVIOUS
    <3>2. ASSUME NEW q \in Slots, q \notin held'
          PROVE  \E i \in 1 .. m : g[i] = q
      <4>1. CASE q = p
        BY <2>1, <4>1
      <4>2. CASE q # p
        <5>1. PICK j \in 1 .. n : q = f[j]
          BY <1>1, <3>2, <4>2 DEF Lists
        <5>2. j + 1 \in 1 .. m /\ g[j + 1] = q
          BY <5>1, <2>2
        <5>. QED  BY <5>2
      <4>. QED  BY <4>1, <4>2
    <3>3. ASSUME NEW q \in Slots, NEW j \in 1 .. m, g[j] = q
          PROVE  q \notin held'
      BY <1>1, <2>1, <3>1, <3>3 DEF Lists
    <3>. QED  BY <3>2, <3>3
  <2>4. \A i, j \in 1 .. m : g[i] = g[j] => i = j
    BY <1>1, <2>2 DEF Lists
  <2>5. m <= POOL_SIZE
    BY <2>1, <2>4, NoLongerThanPool
  <2>6. freeListHead' = IF 0 < m THEN g[1] ELSE Null
    OBVIOUS
  <2>7. \A i \in 1 .. m : memory'[g[i]] = IF i < m THEN g[i + 1] ELSE Null
    <3>1. memory'[p] = freeListHead /\ \A q \in Slots \ {p} : memory'[q] = memory[q]
      BY DEF PoolInv, TypeOK
    <3>2. memory'[g[1]] = IF 1 < m THEN g[2] ELSE Null
      BY <1>1, <2>1, <3>1 DEF Lists
    <3>3. \A i \in 1 .. n : memory'[f[i]] = IF i < n THEN f[i + 1] ELSE Null
      BY <1>1, <2>2, <3>1 DEF Lists
    <3>. QED  BY <3>2, <3>3
  <2>. HIDE DEF m, g
  <2>8. Lists(g, m)'
    BY <2>3, <2>4, <2>6, <2>7 DEF Lists
  <2>. QED  BY <2>1, <2>5, <2>8 DEF FreeListIntact
<1>. QED  BY <1>2, <1>3 DEF PoolInv

(* What a holder writes is in no slot of the list. *)
LEMMA WriteIntact ==
  ASSUME PoolInv, NEW p \in Slots, NEW w \in Word, Write(p, w)
  PROVE  PoolInv'
<1>. USE SlotsType DEF Write
<1>0. PICK n \in 0 .. POOL_SIZE : \E f \in [1 .. n -> Slots] : Lists(f, n)
  BY DEF PoolInv, FreeListIntact
<1>1. PICK f \in [1 .. n -> Slots] : Lists(f, n)
  BY <1>0
<1>2. TypeOK'
  BY DEF PoolInv, TypeOK
<1>3. \A i \in 1 .. n : f[i] # p /\ memory'[f[i]] = memory[f[i]]
  BY <1>1 DEF Lists, PoolInv, TypeOK
<1>4. Lists(f, n)'
  BY <1>1, <1>3 DEF Lists
<1>. QED  BY <1>2, <1>4 DEF PoolInv, FreeListIntact

LEMMA NextIntact == PoolInv /\ [Next]_vars => PoolInv'
<1>. SUFFICES ASSUME PoolInv, [Next]_vars PROVE PoolInv'
  OBVIOUS
<1>1. CASE UNCHANGED << memory, freeListHead, held >> /\ returned' \in Word
  BY <1>1 DEF PoolInv, TypeOK, FreeListIntact, Lists
<1>2. CASE AllocateNone
  BY <1>1, <1>2 DEF AllocateNone, Word
<1>3. CASE AllocateSlot
  BY <1>3, AllocateSlotIntact
<1>4. CASE \E p \in Slots : Deallocate(p)
  BY <1>4, DeallocateIntact
<1>5. CASE \E p \in Slots : \E w \in Word : Write(p, w)
  BY <1>5, WriteIntact
<1>6. CASE UNCHANGED vars
  BY <1>1, <1>6 DEF vars, PoolInv, TypeOK
<1>. QED  BY <1>2, <1>3, <1>4, <1>5, <1>6 DEF Next

(* Every slot that is free is on the list once, whatever its callers       *)
(* return and write, for pools of every size.                              *)
THEOREM FreeListCorrect == Spec => []FreeListIntact
<1>1. PoolInv => FreeListIntact
  BY DEF PoolInv
<1>. QED  BY InitIntact, NextIntact, <1>1, PTL DEF Spec

(* Every link of a pool leads to a slot of it or nowhere. *)
THEOREM TypeCorrect == Spec => []TypeOK
<1>1. PoolInv => TypeOK
  BY DEF PoolInv
<1>. QED  BY InitIntact, NextIntact, <1>1, PTL DEF Spec

LEMMA StepRefines ==
  PoolInv /\ [Next]_vars => [Pool!Next]_<< held, returned >>
<1>. SUFFICES ASSUME PoolInv, [Next]_vars
              PROVE  Pool!Next \/ UNCHANGED << held, returned >>
  OBVIOUS
<1>0. PICK n \in 0 .. POOL_SIZE : \E f \in [1 .. n -> Slots] : Lists(f, n)
  BY DEF PoolInv, FreeListIntact
<1>1. PICK f \in [1 .. n -> Slots] : Lists(f, n)
  BY <1>0
<1>2. CASE AllocateNone
  <2>1. n = 0
    BY <1>1, <1>2, SlotsType DEF AllocateNone, Lists, Slots
  <2>2. \A p \in Slots : p \in held
    BY <1>1, <2>1, SlotsType DEF Lists
  <2>3. held = Slots
    BY <2>2 DEF PoolInv, TypeOK
  <2>. QED  BY <1>2, <2>3 DEF AllocateNone, Pool!Next, Pool!Exhausted
<1>3. CASE AllocateSlot
  <2>1. freeListHead \in Slots \ held
    BY <1>1, <1>3 DEF AllocateSlot, Lists
  <2>. QED  BY <1>3, <2>1 DEF AllocateSlot, Pool!Next, Pool!Allocate
<1>4. CASE \E p \in Slots : Deallocate(p)
  BY <1>4 DEF Deallocate, Pool!Next, Pool!Deallocate
<1>5. CASE \E p \in Slots : \E w \in Word : Write(p, w)
  BY <1>5 DEF Write
<1>6. CASE UNCHANGED vars
  BY <1>6 DEF vars
<1>. QED  BY <1>2, <1>3, <1>4, <1>5, <1>6 DEF Next

(* The pool implements the abstract one: a slot handed out is nobody       *)
(* else's, and nullptr means that all are held.                            *)
THEOREM PoolImplemented == Spec => ImplementsSlotPool
<1>1. Init => Pool!Init
  BY DEF Init, Pool!Init
<1>. QED
  BY <1>1, InitIntact, NextIntact, StepRefines, PTL
  DEF Spec, ImplementsSlotPool, Pool!Spec
=============================================================================
