------------------------ MODULE MCNAVIssuanceModule --------------------------
(***************************************************************************)
(* A SetToken of one component; NAV issuance may bring a second, whose     *)
(* token has fewer decimals.  The units are not multiples of the scale.    *)
(***************************************************************************)
EXTENDS NAVIssuanceModule

CONSTANTS c1, c2

MCBaseUnits == [c \in Components |-> IF c = c1 THEN PRECISE_UNIT ELSE 2]
MCInitialComponents == <<c1>>
MCInitialUnits == [c \in Components |-> IF c = c1 THEN 3 ELSE 0]

\* A direct fee or the whole of the manager's fee, in one direction each.
MCModuleFees == {[a \in Actions |-> IF a = "issue" THEN [share |-> 0, direct |-> 2]
                                                   ELSE [share |-> 4, direct |-> 0]],
                 [a \in Actions |-> IF a = "issue" THEN [share |-> 4, direct |-> 0]
                                                   ELSE [share |-> 0, direct |-> 2]]}
==============================================================================
