----------------------------- MODULE MCSetToken ------------------------------
(***************************************************************************)
(* A SetToken with one component and two modules, of which one refuses to  *)
(* be removed as BasicIssuanceModule does.  Two manager accounts; a unit   *)
(* of 2, so that a multiplier of 1 halves the real units.                  *)
(***************************************************************************)
EXTENDS SetToken, TLC

CONSTANTS c1, m1, m2

MCInitialComponents == <<c1>>
MCInitialUnits == [c \in Components |-> 1]
MCSymmetry == Permutations(Accounts)
==============================================================================
