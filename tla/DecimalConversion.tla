------------------------- MODULE DecimalConversion -------------------------
(***************************************************************************)
(* std::stod(text) * scale stored in an integer (processLevel,             *)
(* src/marketdata.cpp:113-114), exactly as IEEE 754 binary64 computes it.  *)
(* The text is given by the whole number n of units 1/scale it stands for: *)
(* the price "65536.01" is 6553601 units of 1/100.  All numbers here fit   *)
(* in 31 bits.                                                             *)
(***************************************************************************)
EXTENDS Integers

Log2(m) == CHOOSE x \in 0 .. 30 : m \div 2 ^ x = 1

(* The binary exponent of the double nearest to n / scale. *)
Exponent(n, scale) ==
  IF n >= scale THEN Log2(n \div scale)
  ELSE - CHOOSE x \in 1 .. 30 :
           n * 2 ^ x >= scale /\ n * 2 ^ (x - 1) < scale

(* n * 2^k % scale. *)
Remainder(n, k, scale) ==
  LET r[i \in 0 .. k] == IF i = 0 THEN n % scale ELSE (2 * r[i - 1]) % scale
  IN  r[k]

(* By how much stod rounds n / scale down, in units of the last of its 53  *)
(* bits divided by scale; 0 when it rounds up.                             *)
RoundedDown(n, scale) ==
  LET r == Remainder(n, 52 - Exponent(n, scale), scale)
  IN  IF 2 * r < scale THEN r ELSE 0

(* The distance from n to the double below it, in the same units. *)
Spacing(n, scale) ==
  LET gap == 2 ^ (Log2(n) - Exponent(n, scale))
  IN  IF n = 2 ^ Log2(n) THEN gap \div 2 ELSE gap

(* Mutant of ToInteger: the cast binds to stod(text), before the product.  *)
ToInteger_CastFirst(n, scale) == n - (n % scale)

(* The product is rounded to the nearest double: to n, which is one,       *)
(* unless the double below is nearer.  The conversion then truncates.      *)
ToInteger(n, scale) ==
  IF n > 0 /\ 2 * RoundedDown(n, scale) > Spacing(n, scale) THEN n - 1 ELSE n
============================================================================
