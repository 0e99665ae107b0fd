--------------------------- MODULE ConversionSweep ---------------------------
(***************************************************************************)
(* Every decimal of some ranges put through the conversion of              *)
(* processLevel.                                                           *)
(***************************************************************************)
EXTENDS DecimalConversion

CONSTANT Ranges   \* what to convert, in units of 1 / scale

(* firstLow is the least number of a range that is rounded down. *)
ASSUME SweepAssumption ==
  \A r \in Ranges :
    /\ r.scale \in Nat \ {0} /\ r.first \in Nat
    /\ r.last \in r.first .. 2 ^ 30 /\ r.firstLow \in r.first .. r.last

VARIABLES
  range,   \* the range that is converted
  units    \* what the text of a level stands for

vars == << range, units >>

(* A range is cut into blocks, so that workers share it. *)
Block == 1000

Init ==
  /\ range \in Ranges
  /\ units \in {range.first + Block * i :
                  i \in 0 .. (range.last - range.first) \div Block}

Next ==
  /\ units < range.last
  /\ (units + 1 - range.first) % Block # 0
  /\ units' = units + 1
  /\ UNCHANGED range

Spec == Init /\ [][Next]_vars
----------------------------------------------------------------------------
(* What processLevel makes of a level is at most one unit below what the   *)
(* level says and never above it, so two prices never change places; a     *)
(* positive quantity never becomes the zero that the exchange rejects; and *)
(* nothing is lost below firstLow.                                         *)
AtMostOneUnitLow ==
  LET i == ToInteger(units, range.scale)
  IN  /\ i \in {units - 1, units}
      /\ units > 0 => i > 0
      /\ units < range.firstLow => i = units

(* README.md:126 of "Integer Price Representation": "Integers guarantee    *)
(* exact math with zero rounding error."  processLevel gets its integers   *)
(* from a product of doubles (marketdata.cpp:113).                         *)
Exact == ToInteger(units, range.scale) = units
=============================================================================
