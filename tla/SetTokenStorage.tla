--------------------------- MODULE SetTokenStorage ---------------------------
(***************************************************************************)
(* The positions of one SetToken and the low-level functions that edit     *)
(* them (protocol/SetToken.sol), as operators on a record, so that a       *)
(* module's transaction composes the calls it makes in their order.  A     *)
(* call that may revert has a predicate Can<Call>; who may call is the     *)
(* business of SetToken.tla.                                               *)
(*                                                                         *)
(* Holders of the SetToken are not told apart: ERC20 transfers let any     *)
(* part of the supply reach any account, so a burn of up to the total      *)
(* supply is possible for some holder.  Position data is opaque.           *)
(***************************************************************************)
EXTENDS PreciseUnitMath, AddressArrayUtils

CONSTANTS
    Components,     \* ERC20 tokens a SetToken can hold
    Modules,        \* addresses that can be modules
    Data,           \* contents of an external position's data
    NoData          \* the empty data

ASSUME DataAssumption == NoData \in Data

Storage == [components              : Seq(Components),
            virtualUnit             : [Components -> Int],
            externalPositionModules : [Components -> Seq(Modules)],
            externalVirtualUnit     : [Components -> [Modules -> Int]],
            externalData            : [Components -> [Modules -> Data]],
            positionMultiplier      : Nat \ {0},
            totalSupply             : Nat]

\* The constructor: default positions only, an identity multiplier.
InitialStorage(_components, _units) ==
    [components              |-> _components,
     virtualUnit             |-> _units,
     externalPositionModules |-> [c \in Components |-> << >>],
     externalVirtualUnit     |-> [c \in Components |-> [m \in Modules |-> 0]],
     externalData            |-> [c \in Components |-> [m \in Modules |-> NoData]],
     positionMultiplier      |-> PRECISE_UNIT,
     totalSupply             |-> 0]

-----------------------------------------------------------------------------
(* Views *)

ConvertVirtualToRealUnit(st, unit) == ConservativePreciseMul(unit, st.positionMultiplier)

ConvertRealToVirtualUnit(st, unit) == ConservativePreciseDiv(unit, st.positionMultiplier)

DefaultPositionRealUnit(st, c) == ConvertVirtualToRealUnit(st, st.virtualUnit[c])

ExternalPositionRealUnit(st, c, m) == ConvertVirtualToRealUnit(st, st.externalVirtualUnit[c][m])

IsComponent(st, c) == Contains(st.components, c)

IsExternalPositionModule(st, c, m) == Contains(st.externalPositionModules[c], m)

HasExternalPosition(st, c) == Len(st.externalPositionModules[c]) > 0

\* A position that getPositions reports: a default one when the virtual unit is
\* positive, and one for each external position module, for each listing of c.
ReportsPosition(st, c) ==
    IsComponent(st, c) /\ (st.virtualUnit[c] > 0 \/ HasExternalPosition(st, c))

-----------------------------------------------------------------------------
(* Privileged functions *)

AddComponent(st, c) == [st EXCEPT !.components = Append(@, c)]

CanRemoveComponent(st, c) == IsComponent(st, c)

RemoveComponent(st, c) == [st EXCEPT !.components = Remove(@, c)]

\* The conversion reverts when a positive real unit rounds down to nothing.
CanConvert(st, unit) == ~ (unit > 0 /\ ConvertRealToVirtualUnit(st, unit) = 0)

EditDefaultPositionUnit(st, c, unit) ==
    [st EXCEPT !.virtualUnit[c] = ConvertRealToVirtualUnit(st, unit)]

AddExternalPositionModule(st, c, m) ==
    [st EXCEPT !.externalPositionModules[c] = Append(@, m)]

CanRemoveExternalPositionModule(st, c, m) == IsExternalPositionModule(st, c, m)

\* Mutation: the position's unit and data are not deleted.
RemoveModuleOnly(st, c, m) ==
    [st EXCEPT !.externalPositionModules[c] = Remove(@, m)]

\* Also deletes the position's unit and data.
RemoveExternalPositionModule(st, c, m) ==
    [st EXCEPT !.externalPositionModules[c] = Remove(@, m),
               !.externalVirtualUnit[c][m]  = 0,
               !.externalData[c][m]         = NoData]

EditExternalPositionUnit(st, c, m, unit) ==
    [st EXCEPT !.externalVirtualUnit[c][m] = ConvertRealToVirtualUnit(st, unit)]

EditExternalPositionData(st, c, m, data) == [st EXCEPT !.externalData[c][m] = data]

\* Mutation: the check that the multiplier is positive is dropped.
CanEditToAnyMultiplier(multiplier) == multiplier >= 0

CanEditPositionMultiplier(multiplier) == multiplier > 0

EditPositionMultiplier(st, multiplier) == [st EXCEPT !.positionMultiplier = multiplier]

Mint(st, quantity) == [st EXCEPT !.totalSupply = @ + quantity]

\* Mutation: the holder's balance is not checked.
CanBurnAny(st, quantity) == quantity >= 0

CanBurn(st, quantity) == quantity <= st.totalSupply

Burn(st, quantity) == [st EXCEPT !.totalSupply = @ - quantity]
==============================================================================
