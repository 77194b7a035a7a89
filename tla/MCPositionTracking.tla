------------------------- MODULE MCPositionTracking --------------------------
(***************************************************************************)
(* Two components and two modules with external positions, of either sign, *)
(* with and without data.  The unit is 4.                                  *)
(***************************************************************************)
EXTENDS PositionTracking

CONSTANTS c1, c2

MCInitialComponents == <<c1>>
MCInitialUnits == [c \in Components |-> IF c = c1 THEN 1 ELSE 0]
MCExternalUnits == {-1, 0, 2}
==============================================================================
