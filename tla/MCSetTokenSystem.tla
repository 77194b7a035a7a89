-------------------------- MODULE MCSetTokenSystem ---------------------------
(***************************************************************************)
(* A SetToken created with one component; an exchange may bring a second.  *)
(* The units are not multiples of the scale, so that every rounding        *)
(* happens.                                                                *)
(***************************************************************************)
EXTENDS SetTokenSystem

CONSTANTS c1, c2

MCInitialComponents == <<c1>>
MCInitialUnits == [c \in Components |-> IF c = c1 THEN 3 ELSE 0]
MCFeeUnits == [c \in Components |-> IF c = c1 THEN 2 ELSE 0]
==============================================================================
