--------------------------- MODULE PositionTracking --------------------------
(***************************************************************************)
(* The positions of one SetToken under every sequence of library calls:    *)
(* modules edit default and external positions through Position.sol, and   *)
(* fee modules move the multiplier under them.  The question is whether    *)
(* the components array, the units and the external module arrays, which   *)
(* the library updates in separate calls, keep telling the same story.     *)
(***************************************************************************)
EXTENDS Position

CONSTANTS
    InitialComponents,  \* what SetTokenCreator was given
    InitialUnits,
    DefaultUnits,       \* real units that modules pass to editDefaultPosition
    ExternalUnits,      \* real units that modules pass to editExternalPosition
    Multipliers,        \* multipliers that fee modules set
    MaxLength           \* bound on the length of the components array

\* SetTokenCreator.create's checks: no duplicate, positive units.
ASSUME CreationAssumption ==
    /\ InitialComponents \in Seq(Components)
    /\ ~HasDuplicate(InitialComponents)
    /\ InitialUnits \in [Components -> Nat]
    /\ \A c \in Components : Contains(InitialComponents, c) <=> InitialUnits[c] > 0

ASSUME InputAssumption ==
    /\ DefaultUnits \subseteq Nat /\ ExternalUnits \subseteq Int
    /\ Multipliers \subseteq Nat \ {0}
    /\ MaxLength \in Nat

VARIABLE storage

TypeOK == storage \in Storage

Init == storage = InitialStorage(InitialComponents, InitialUnits)

CallEditDefaultPosition(c, u) ==
    /\ Len(storage.components) < MaxLength
    /\ CanEditDefaultPosition(storage, c, u)
    /\ storage' = EditDefaultPosition(storage, c, u)

\* A module edits its own external position.
CallEditExternalPosition(m, c, u, data) ==
    /\ Len(storage.components) < MaxLength
    /\ CanEditExternalPosition(storage, c, m, u, data)
    /\ storage' = EditExternalPosition(storage, c, m, u, data)

CallEditPositionMultiplier(x) == storage' = EditPositionMultiplier(storage, x)

Next ==
    \/ \E c \in Components :
        \/ \E u \in DefaultUnits : CallEditDefaultPosition(c, u)
        \/ \E m \in Modules, u \in ExternalUnits, data \in Data :
            CallEditExternalPosition(m, c, u, data)
    \/ \E x \in Multipliers : CallEditPositionMultiplier(x)

Spec == Init /\ [][Next]_storage

-----------------------------------------------------------------------------
(* Properties *)

\* The array lists a component exactly once, and exactly while it has a default
\* or an external position: issuance, which loops over the array, then moves
\* each component's unit once.
ComponentsTracked == TracksComponents(storage)

\* A component's external module array lists exactly the modules that have a
\* nonzero unit on it, once each, and a closed position leaves no data behind.
ExternalPositionsTracked == TracksExternalPositions(storage)

\* editDefaultPosition adds a component only for a position that does not exist
\* yet, and otherwise sets its unit: no component is ever listed twice.
ComponentsListedOnce == ~HasDuplicate(storage.components)
==============================================================================
