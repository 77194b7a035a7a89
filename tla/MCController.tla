---------------------------- MODULE MCController -----------------------------
(***************************************************************************)
(* One address that may be a SetToken, factory, module and resource, one   *)
(* that may be a resource, and address(0) where the code lets it in; two   *)
(* resource IDs, one fee type.                                             *)
(***************************************************************************)
EXTENDS Controller

CONSTANTS a1, a2
==============================================================================
