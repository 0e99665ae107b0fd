--------------------------- MODULE LatencyTracker ---------------------------
(***************************************************************************)
(* LatencyTracker (src/latencytracker.h, src/latencytracker.cpp) as        *)
(* consumerLoop uses it: a ring of the last CAPACITY samples, from which   *)
(* three percentiles are printed every so many calls.                      *)
(***************************************************************************)
EXTENDS Integers, Sequences, FiniteSets

CONSTANTS
  CAPACITY,    \* samples the ring holds
  Samples,     \* the latencies measured
  PrintEvery,  \* calls between two reports (20, main.cpp:27)
  MaxSamples   \* bound: calls of addLatency

(* x & (CAPACITY - 1) is x % CAPACITY only for a power of two. *)
ASSUME TrackerAssumption ==
  /\ CAPACITY \in Nat \ {0} /\ \E k \in 0 .. 17 : CAPACITY = 2 ^ k
  /\ Samples \subseteq Int
  /\ PrintEvery \in Nat \ {0} /\ MaxSamples \in Nat

Percents == {50, 90, 99}

VARIABLES
  latencies,     \* the ring
  latencyCount,  \* calls of addLatency
  report,        \* what printStats printed last, per percentile
  samples        \* history: everything measured

vars == << latencies, latencyCount, report, samples >>

(* The ring has CAPACITY elements, latencies that were measured and zeros, *)
(* and no sample has been stored outside it.                               *)
TypeOK ==
  /\ latencies \in [0 .. CAPACITY - 1 -> Samples \cup {0}]
  /\ latencyCount \in Nat
  /\ samples \in Seq(Samples)

Init ==
  /\ latencies = [i \in 0 .. CAPACITY - 1 |-> 0]
  /\ latencyCount = 0
  /\ report = << >>
  /\ samples = << >>
----------------------------------------------------------------------------
(* Mutants of Slot: the index is not masked; the mask is CAPACITY. *)
Slot_Unmasked(n) == n

Slot_MaskOffByOne(n) == IF (n \div CAPACITY) % 2 = 0 THEN 0 ELSE CAPACITY

Slot(n) == n % CAPACITY

(* Mutant of Kept: the ring is always taken for full. *)
Kept_Full(n) == CAPACITY

(* std::min(latencyCount, CAPACITY). *)
Kept(n) == IF n < CAPACITY THEN n ELSE CAPACITY

(* Kept(n) * 0.99 and so on, truncated: what the doubles give for every    *)
(* count up to 131072.                                                     *)
Index(n, percent) == (Kept(n) * percent) \div 100

(* What std::sort does: each element goes behind those that come before it *)
(* (which of two equal ones is the first does not show).                   *)
Before(s, i) == {j \in DOMAIN s : s[j] < s[i] \/ (s[j] = s[i] /\ j < i)}

Sorted(s) ==
  [k \in DOMAIN s |->
     s[CHOOSE i \in DOMAIN s : Cardinality(Before(s, i)) = k - 1]]

(* The part of the ring that is in use. *)
InUse(l, n) == [i \in 1 .. Kept(n) |-> l[i - 1]]

(* The percentiles printStats prints of the ring l after n samples: it     *)
(* copies the ring, sorts the part in use and indexes it from 0.           *)
Percentiles(l, n) ==
  [percent \in Percents |-> Sorted(InUse(l, n))[Index(n, percent) + 1]]

(* An assignment to an element of a std::vector, which does not check the  *)
(* index: outside the vector it writes to memory that is not the ring's.   *)
Store(l, i, ns) == [j \in DOMAIN l \cup {i} |-> IF j = i THEN ns ELSE l[j]]

AddLatency(ns) ==
  /\ latencies' = Store(latencies, Slot(latencyCount), ns)
  /\ latencyCount' = latencyCount + 1

PrintStats ==
  report' = IF latencyCount' = 0 THEN report
            ELSE Percentiles(latencies', latencyCount')

(* Two calls of the tracker in one iteration of consumerLoop; its counter  *)
(* goes with latencyCount.                                                 *)
Measure(ns) ==
  /\ latencyCount < MaxSamples
  /\ AddLatency(ns)
  /\ samples' = Append(samples, ns)
  /\ IF latencyCount' % PrintEvery = 0 THEN PrintStats ELSE UNCHANGED report

Next == \E ns \in Samples : Measure(ns)

Spec == Init /\ [][Next]_vars
----------------------------------------------------------------------------
(* The samples that count: the last CAPACITY of all there were. *)
Window == {i \in DOMAIN samples : i > Len(samples) - CAPACITY}

(* The ring holds the last CAPACITY samples and no older one, however      *)
(* often it has wrapped, and printStats may take its first Kept elements   *)
(* for them.                                                               *)
RingHoldsWindow ==
  /\ latencyCount = Len(samples)
  /\ \A i \in Window : latencies[Slot(i - 1)] = samples[i]
  /\ {Slot(i - 1) : i \in Window} = 0 .. Kept(latencyCount) - 1

(* A printed p-th percentile is one by the definition: at most p percent   *)
(* of the samples that count lie below it, and more than p percent do not  *)
(* lie above it.  The index never leaves the samples measured, so that no  *)
(* zero of the empty ring is taken for one.                                *)
ReportsPercentiles ==
  latencyCount > 0 /\ latencyCount % PrintEvery = 0 =>
    \A p \in Percents :
      LET Below    == {i \in Window : samples[i] < report[p]}
          NotAbove == {i \in Window : samples[i] <= report[p]}
      IN  /\ \E i \in Window : samples[i] = report[p]
          /\ 100 * Cardinality(Below) <= p * Cardinality(Window)
          /\ 100 * Cardinality(NotAbove) > p * Cardinality(Window)
=============================================================================
