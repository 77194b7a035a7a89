----------------------- MODULE MCComponentManageModule -----------------------
(***************************************************************************)
(* One component, units below the scale, a manager and another account.    *)
(***************************************************************************)
EXTENDS ComponentManageModule

CONSTANTS c1

MCInitialComponents == <<c1>>
MCInitialUnits == [c \in Components |-> 3]
==============================================================================
