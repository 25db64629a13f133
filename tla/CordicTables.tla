---------------------------- MODULE CordicTables ----------------------------
(***************************************************************************)
(* The constants the CORDIC generator scripts compute and print into the   *)
(* hardware they generate: the table of elementary angles, the start value *)
(* that makes up for the gain of the iterations, and the sizes the help    *)
(* script recommends.  The scripts compute in floating point and then      *)
(* truncate or round to the fixed point of the datapath; here the          *)
(* functions are summed as series in fixed point with Frac fraction bits,  *)
(* and the truncation or rounding of the script is kept.                   *)
(*                                                                         *)
(* A design is a record with the arguments of its script: neg and pos, the *)
(* stages in the negative and in the positive direction, prec, the         *)
(* fraction bits, and ans and ang, the widths of the two datapaths.        *)
(***************************************************************************)
EXTENDS Integers, Sequences, FiniteSetsExt

Frac == 20
One == 2^Frac

\* Round half up, as round() does on the values that are met here.
Rounded(v, bits) == (v + 2^(bits - 1)) \div 2^bits
RoundedSqrt(v) == CHOOSE n \in 0..46340 : n * (n - 1) < v /\ v <= n * (n + 1)

\* ln(1 - 2^-n), atanh(1 - 2^-n) and atanh(2^-n).
LogOneMinus(n) == -MapThenSumSet(LAMBDA j : One \div (j * 2^(n * j)), 1..(Frac \div n))
Ln2 == -LogOneMinus(1)
ArtanhOneMinus(n) == ((n + 1) * Ln2 + LogOneMinus(n + 1)) \div 2
Artanh(n) == MapThenSumSet(LAMBDA j : One \div ((2 * j + 1) * 2^(n * (2 * j + 1))), 0..(Frac \div (2 * n)))

-----------------------------------------------------------------------------
(* The hyperbolic scripts.                                                 *)

\* The shift of the k-th negative stage: it rotates by atanh(1 - 2^-shift).
NegativeShift(d, k) == d.neg - k + 2

\* The table, indexed by stage: first the negative stages, then the positive.
lookup_compute(d) ==
  [k \in 0..(d.neg + d.pos) |->
     (IF k <= d.neg THEN ArtanhOneMinus(NegativeShift(d, k)) ELSE Artanh(k - d.neg))
       \div 2^(Frac - d.prec)]

\* What a negative stage and a positive stage multiply the squared gain by;
\* the script takes every iteration once, the repeated one included.
NegativeGain(v, n) == (v * 4^n) \div (2^(n + 1) - 1)
PositiveGain(v, n) == v + v \div (4^n - 1)

\* The square of constant_compute, in units of 4^-prec.
constant_compute(d) ==
  LET negative[n \in 1..(d.neg + 2)] ==
        IF n = 1 THEN 4^d.prec ELSE NegativeGain(negative[n - 1], n)
      positive[n \in 0..d.pos] ==
        IF n = 0 THEN negative[d.neg + 2] ELSE PositiveGain(positive[n - 1], n)
  IN  positive[d.pos]

\* ln(constant_compute), in units of 2^-Frac.
log_constant(d) ==
    MapThenSumSet(LAMBDA n : (n - 1) * Ln2 - LogOneMinus(n + 1), 2..(d.neg + 2))
  - MapThenSumSet(LAMBDA n : LogOneMinus(2 * n), 1..d.pos)

-----------------------------------------------------------------------------
(* The circular scripts: angles in degrees.                                *)

DegreesPerRadian == 60078979

\* atan(2^-n) in degrees; 2^-20 degrees is far below the last angle used.
ArctanDegrees(n) ==
  IF n = 0 THEN 45 * One
  ELSE MapThenSumSet(LAMBDA j : (IF j % 2 = 0 THEN 1 ELSE -1)
                                  * ((DegreesPerRadian \div (2 * j + 1)) \div 2^(n * (2 * j + 1))),
                     0..(11 \div n))

circular_lookup(d) == [k \in 0..d.pos |-> Rounded(ArctanDegrees(k), Frac - d.prec)]

\* The product of the cosines of all stages but the last, with w - 1
\* fraction bits.
circular_constant(d, w) ==
  LET squared[n \in 0..d.pos] ==
        IF n = 0 THEN 4^(w - 1) ELSE squared[n - 1] - squared[n - 1] \div (4^(n - 1) + 1)
  IN  RoundedSqrt(squared[d.pos])

-----------------------------------------------------------------------------
(* bsg_exponential_help.py: the negative stages and the two widths for the *)
(* largest result maxnum.  largest[n + 1] is the largest whole number      *)
(* whose logarithm n negative stages reach, and printed[n + 1] the number  *)
(* whose length the script takes for the width.  logarithms[k] is the      *)
(* least whole number whose logarithm rounds to k.                         *)
largest == <<8, 31, 174, 1385, 15612, 249306, 5635632, 180252643>>
printed == <<8, 31, 175, 1385, 15612, 249307, 5635633, 180252644>>
logarithms == <<2, 5, 13, 34, 91, 245, 666, 1809, 4915, 13360, 36316, 98716,
                268338, 729417, 1982760, 5389699, 14650720, 39824785, 108254988>>

bits(v) == CHOOSE n \in 1..31 : v < 2^n /\ (n = 1 \/ v >= 2^(n - 1))

MutRecommended(maxnum, posprec, precision) ==
  LET m == Cardinality({n \in DOMAIN largest : largest[n] < maxnum})
  IN  [neg |-> m, pos |-> posprec, prec |-> precision,
       ans |-> precision + bits(printed[m + 1]),
       ang |-> precision + bits(Cardinality({k \in DOMAIN logarithms : logarithms[k] <= maxnum})) + 1]
Recommended(maxnum, posprec, precision) ==
  LET m == Cardinality({n \in DOMAIN largest : largest[n] < maxnum})
  IN  [neg |-> m, pos |-> posprec, prec |-> precision,
       ans |-> 1 + precision + bits(printed[m + 1]),
       ang |-> precision + bits(Cardinality({k \in DOMAIN logarithms : logarithms[k] <= maxnum})) + 1]
=============================================================================
