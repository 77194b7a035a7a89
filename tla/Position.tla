------------------------------ MODULE Position -------------------------------
(***************************************************************************)
(* The position library the modules share (protocol/lib/Position.sol), on  *)
(* a SetToken's storage record.  Can<Function> says that no call inside    *)
(* reverts; the operator of the same name is the storage afterwards.       *)
(***************************************************************************)
EXTENDS SetTokenStorage

HasDefaultPosition(st, c) == DefaultPositionRealUnit(st, c) > 0

HasSufficientDefaultUnits(st, c, unit) == DefaultPositionRealUnit(st, c) >= unit

-----------------------------------------------------------------------------
(* editDefaultPosition *)

\* Mutation: external positions are not considered.
TrackIgnoringExternal(st, c, newUnit) ==
    IF ~HasDefaultPosition(st, c) /\ newUnit > 0 THEN AddComponent(st, c)
    ELSE IF HasDefaultPosition(st, c) /\ newUnit = 0 THEN RemoveComponent(st, c)
    ELSE st

\* Mutation: a component is added whenever its new unit is positive.
AlwaysAddComponent(st, c, newUnit) == IF newUnit > 0 THEN AddComponent(st, c) ELSE st

\* Tracking of the component before the unit is stored.
TrackDefaultComponent(st, c, newUnit) ==
    IF HasExternalPosition(st, c) THEN st
    ELSE IF ~HasDefaultPosition(st, c) /\ newUnit > 0 THEN AddComponent(st, c)
    ELSE IF HasDefaultPosition(st, c) /\ newUnit = 0 THEN RemoveComponent(st, c)
    ELSE st

CanEditDefaultPosition(st, c, newUnit) ==
    /\ newUnit >= 0
    /\ HasDefaultPosition(st, c) /\ newUnit = 0 /\ ~HasExternalPosition(st, c)
           => CanRemoveComponent(st, c)
    /\ CanConvert(st, newUnit)

EditDefaultPosition(st, c, newUnit) ==
    EditDefaultPositionUnit(TrackDefaultComponent(st, c, newUnit), c, newUnit)

-----------------------------------------------------------------------------
(* editExternalPosition *)

\* A nonzero unit opens the position, registering the component and the module
\* where they are missing, or updates it.
OpenExternalPosition(st, c, m, newUnit, data) ==
    LET listed     == IF IsComponent(st, c) THEN st ELSE AddComponent(st, c)
        registered == IF IsComponent(st, c) /\ IsExternalPositionModule(st, c, m)
                        THEN listed ELSE AddExternalPositionModule(listed, c, m)
    IN  EditExternalPositionData(
            EditExternalPositionUnit(registered, c, m, newUnit), c, m, data)

\* A zero unit closes a position whose real unit is not zero; the component goes
\* with its last position.
IsLastPosition(st, c) ==
    DefaultPositionRealUnit(st, c) = 0 /\ Len(st.externalPositionModules[c]) = 1

CloseExternalPosition(st, c, m) ==
    IF ExternalPositionRealUnit(st, c, m) = 0 THEN st
    ELSE RemoveExternalPositionModule(
            IF IsLastPosition(st, c) THEN RemoveComponent(st, c) ELSE st, c, m)

CanCloseExternalPosition(st, c, m) ==
    ExternalPositionRealUnit(st, c, m) # 0 =>
        /\ IsLastPosition(st, c) => /\ st.externalPositionModules[c][1] = m
                                    /\ CanRemoveComponent(st, c)
        /\ CanRemoveExternalPositionModule(st, c, m)

CanEditExternalPosition(st, c, m, newUnit, data) ==
    IF newUnit # 0 THEN CanConvert(st, newUnit)
    ELSE data = NoData /\ CanCloseExternalPosition(st, c, m)

EditExternalPosition(st, c, m, newUnit, data) ==
    IF newUnit # 0 THEN OpenExternalPosition(st, c, m, newUnit, data)
    ELSE CloseExternalPosition(st, c, m)

-----------------------------------------------------------------------------
(* Units from balances *)

DefaultTotalNotional(supply, unit) == PreciseMul(supply, unit)

DefaultPositionUnit(supply, notional) == PreciseDiv(notional, supply)

\* What the SetToken holds beyond its units was not deposited through a module
\* and stays out of the new unit.  SafeMath reverts on a negative difference and
\* on an empty supply.
AirdroppedAmount(supply, pre, unit) == pre - PreciseMul(unit, supply)

CanCalculateDefaultEditPositionUnit(supply, pre, post, unit) ==
    /\ supply > 0
    /\ AirdroppedAmount(supply, pre, unit) >= 0
    /\ post >= AirdroppedAmount(supply, pre, unit)

\* Mutation: the airdropped amount is not left out.
WholeBalanceUnit(supply, pre, post, unit) == PreciseDiv(post, supply)

CalculateDefaultEditPositionUnit(supply, pre, post, unit) ==
    PreciseDiv(post - AirdroppedAmount(supply, pre, unit), supply)

CanCalculateAndEditDefaultPosition(st, c, supply, pre, post) ==
    LET unit == DefaultPositionRealUnit(st, c)
    IN  /\ unit >= 0
        /\ CanCalculateDefaultEditPositionUnit(supply, pre, post, unit)
        /\ CanEditDefaultPosition(st, c,
               CalculateDefaultEditPositionUnit(supply, pre, post, unit))

CalculateAndEditDefaultPosition(st, c, supply, pre, post) ==
    EditDefaultPosition(st, c,
        CalculateDefaultEditPositionUnit(supply, pre, post, DefaultPositionRealUnit(st, c)))

-----------------------------------------------------------------------------
(* What the library means to maintain *)

TracksComponents(st) ==
    /\ ~HasDuplicate(st.components)
    /\ \A c \in Components :
        IsComponent(st, c) <=> st.virtualUnit[c] > 0 \/ HasExternalPosition(st, c)

TracksExternalPositions(st) ==
    \A c \in Components :
        /\ ~HasDuplicate(st.externalPositionModules[c])
        /\ \A m \in Modules :
            /\ IsExternalPositionModule(st, c, m) <=> st.externalVirtualUnit[c][m] # 0
            /\ st.externalData[c][m] # NoData => IsExternalPositionModule(st, c, m)
==============================================================================
