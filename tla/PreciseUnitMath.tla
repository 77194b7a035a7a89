--------------------------- MODULE PreciseUnitMath ---------------------------
(***************************************************************************)
(* Fixed-point arithmetic of the protocol (lib/PreciseUnitMath.sol).  The  *)
(* scale 10^18 is the constant PRECISE_UNIT, so that TLC can use a small   *)
(* one and the proofs hold for every one.  Integers are unbounded: the     *)
(* code uses SafeMath and SignedSafeMath throughout, so an overflow        *)
(* reverts the transaction and no wrapped value is ever stored.            *)
(* Operators named ...Int are the overloads on int256.                     *)
(***************************************************************************)
EXTENDS Integers

CONSTANT PRECISE_UNIT       \* the number one in precise units (10^18)

ASSUME PreciseUnitAssumption == PRECISE_UNIT \in Nat \ {0}

\* SignedSafeMath's division truncates towards zero.
TruncatedDiv(a, b) == IF a >= 0 THEN a \div b ELSE -((-a) \div b)

PreciseMul(a, b) == (a * b) \div PRECISE_UNIT

PreciseMulInt(a, b) == TruncatedDiv(a * b, PRECISE_UNIT)

PreciseMulCeil(a, b) ==
    IF a = 0 \/ b = 0 THEN 0 ELSE (a * b - 1) \div PRECISE_UNIT + 1

PreciseDiv(a, b) == (a * PRECISE_UNIT) \div b

PreciseDivCeil(a, b) == IF a > 0 THEN (a * PRECISE_UNIT - 1) \div b + 1 ELSE 0

\* Every divisor in the protocol is positive (the unit, a multiplier, a supply),
\* so a and b have different signs exactly when a is negative.
DivDown(a, b) ==
    TruncatedDiv(a, b) - (IF a < 0 /\ a % b # 0 THEN 1 ELSE 0)

ConservativePreciseMul(a, b) == DivDown(a * b, PRECISE_UNIT)

ConservativePreciseDiv(a, b) == DivDown(a * PRECISE_UNIT, b)
==============================================================================
