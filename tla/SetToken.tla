------------------------------ MODULE SetToken -------------------------------
(***************************************************************************)
(* One SetToken (protocol/SetToken.sol): who may call it.  A manager adds  *)
(* and removes modules, a module the manager added initializes itself, an  *)
(* initialized module that the Controller still enables edits positions    *)
(* and supply, and a module may lock the SetToken to have those privileges *)
(* to itself across transactions.  A call that reverts changes nothing and *)
(* is an action that is not enabled.  The modules are any contracts: each  *)
(* privileged function is called here with any argument, in any order.     *)
(*                                                                         *)
(* A call is one step, except removeModule, which calls the module back    *)
(* halfway: it begins, the modules make any calls, and it finishes.        *)
(* Managers and the Controller's owner are not contracts (the scripts and  *)
(* the tests use plain accounts), so their calls are never made inside.    *)
(***************************************************************************)
EXTENDS Position

CONSTANTS
    Accounts,           \* addresses that can send a transaction as a manager
    NoAddress,          \* address(0)
    Removable,          \* modules whose removeModule callback does not revert
    InitialModules,     \* modules given to the constructor
    InitialComponents,  \* components given to the constructor
    InitialUnits,       \* and their units (0 for any other component)
    RealUnits,          \* real units that modules pass in
    Multipliers,        \* position multipliers that modules pass in
    Quantities,         \* quantities that modules mint and burn
    MaxSupply,          \* bound on the supply
    MaxLength           \* bound on the length of an array

ASSUME AddressAssumption == NoAddress \notin Accounts \cup Modules

ASSUME InitialAssumption ==
    /\ Removable \subseteq Modules /\ InitialModules \subseteq Modules
    /\ InitialComponents \in Seq(Components)
    /\ InitialUnits \in [Components -> Nat]

ASSUME InputAssumption ==
    /\ RealUnits \subseteq Int /\ Multipliers \subseteq Nat /\ Quantities \subseteq Nat
    /\ MaxSupply \in Nat /\ MaxLength \in Nat

VARIABLES
    manager,            \* the account in charge, or NoAddress once wound down
    moduleStates,       \* module |-> "NONE", "PENDING" or "INITIALIZED"
    modules,            \* the array of initialized modules
    isLocked,
    locker,             \* the module that holds the lock, or NoAddress
    storage,            \* positions, multiplier and supply
    enabledModules,     \* the Controller's isModule
    removing            \* the module that removeModule is calling back, or NoAddress

vars ==
    <<manager, moduleStates, modules, isLocked, locker, storage, enabledModules, removing>>

TypeOK ==
    /\ manager \in Accounts \cup {NoAddress}
    /\ moduleStates \in [Modules -> {"NONE", "PENDING", "INITIALIZED"}]
    /\ modules \in Seq(Modules)
    /\ isLocked \in BOOLEAN
    /\ locker \in Modules \cup {NoAddress}
    /\ storage \in Storage
    /\ enabledModules \subseteq Modules
    /\ removing \in Modules \cup {NoAddress}

\* SetTokenCreator.create: the constructor's modules are enabled, and pending.
Init ==
    /\ manager \in Accounts
    /\ moduleStates = [m \in Modules |-> IF m \in InitialModules THEN "PENDING" ELSE "NONE"]
    /\ modules = << >>
    /\ isLocked = FALSE
    /\ locker = NoAddress
    /\ storage = InitialStorage(InitialComponents, InitialUnits)
    /\ enabledModules = Modules
    /\ removing = NoAddress

-----------------------------------------------------------------------------
(* Modifiers *)

\* Mutations that the runs must notice: each is a modifier with a check dropped.
AnySender(sender) == sender \in Accounts
InitializedOnly(m) == moduleStates[m] = "INITIALIZED"
EnabledOnly(m) == m \in enabledModules
LockIgnored == TRUE

OnlyManager(sender) == sender = manager

EnabledOnController(m) == m \in enabledModules

OnlyModule(m) == moduleStates[m] = "INITIALIZED" /\ EnabledOnController(m)

OnlyWhenUnlocked == ~isLocked

WhenLockedOnlyLocker(m) == isLocked => m = locker

Privileged(m) == OnlyModule(m) /\ WhenLockedOnlyLocker(m)

-----------------------------------------------------------------------------
(* Functions of the manager *)

\* The one manager function that a lock does not stop.
AddModule(sender, m) ==
    /\ OnlyManager(sender)
    /\ moduleStates[m] = "NONE"
    /\ EnabledOnController(m)
    /\ moduleStates' = [moduleStates EXCEPT ![m] = "PENDING"]
    /\ UNCHANGED <<manager, modules, isLocked, locker, storage, enabledModules, removing>>

\* The first half, up to the module's removeModule callback.  isLocked is tested
\* here only, and the module is still initialized while it is called back: until
\* FinishRemoval it may make any call, lock() included.
RemoveModule(sender, m) ==
    /\ OnlyManager(sender)
    /\ OnlyWhenUnlocked
    /\ moduleStates[m] = "INITIALIZED"
    /\ m \in Removable
    /\ removing' = m
    /\ UNCHANGED <<manager, moduleStates, modules, isLocked, locker, storage, enabledModules>>

\* The second half, once the callback has returned.
FinishRemoval ==
    /\ removing # NoAddress
    /\ moduleStates' = [moduleStates EXCEPT ![removing] = "NONE"]
    /\ modules' = Remove(modules, removing)
    /\ removing' = NoAddress
    /\ UNCHANGED <<manager, isLocked, locker, storage, enabledModules>>

RemovePendingModule(sender, m) ==
    /\ OnlyManager(sender)
    /\ OnlyWhenUnlocked
    /\ moduleStates[m] = "PENDING"
    /\ moduleStates' = [moduleStates EXCEPT ![m] = "NONE"]
    /\ UNCHANGED <<manager, modules, isLocked, locker, storage, enabledModules, removing>>

SetManager(sender, newManager) ==
    /\ OnlyManager(sender)
    /\ OnlyWhenUnlocked
    /\ manager' = newManager
    /\ UNCHANGED <<moduleStates, modules, isLocked, locker, storage, enabledModules, removing>>

-----------------------------------------------------------------------------
(* Functions of the modules *)

\* The Controller is not asked again: a module it has disabled since it was
\* added can still initialize, and then has no privilege.
InitializeModule(m) ==
    /\ OnlyWhenUnlocked
    /\ moduleStates[m] = "PENDING"
    /\ moduleStates' = [moduleStates EXCEPT ![m] = "INITIALIZED"]
    /\ modules' = Append(modules, m)
    /\ UNCHANGED <<manager, isLocked, locker, storage, enabledModules, removing>>

Lock(m) ==
    /\ OnlyModule(m)
    /\ ~isLocked
    /\ isLocked' = TRUE
    /\ locker' = m
    /\ UNCHANGED <<manager, moduleStates, modules, storage, enabledModules, removing>>

Unlock(m) ==
    /\ OnlyModule(m)
    /\ isLocked
    /\ locker = m
    /\ isLocked' = FALSE
    /\ locker' = NoAddress
    /\ UNCHANGED <<manager, moduleStates, modules, storage, enabledModules, removing>>

\* Every privileged edit: a module with the privilege replaces the storage.
Edit(m, newStorage) ==
    /\ Privileged(m)
    /\ storage' = newStorage
    /\ UNCHANGED <<manager, moduleStates, modules, isLocked, locker, enabledModules, removing>>

CallAddComponent(m, c) ==
    /\ Len(storage.components) < MaxLength
    /\ Edit(m, AddComponent(storage, c))

CallRemoveComponent(m, c) ==
    /\ CanRemoveComponent(storage, c)
    /\ Edit(m, RemoveComponent(storage, c))

CallEditDefaultPositionUnit(m, c, u) ==
    /\ CanConvert(storage, u)
    /\ Edit(m, EditDefaultPositionUnit(storage, c, u))

CallAddExternalPositionModule(m, c, p) ==
    /\ Len(storage.externalPositionModules[c]) < MaxLength
    /\ Edit(m, AddExternalPositionModule(storage, c, p))

CallRemoveExternalPositionModule(m, c, p) ==
    /\ CanRemoveExternalPositionModule(storage, c, p)
    /\ Edit(m, RemoveExternalPositionModule(storage, c, p))

CallEditExternalPositionUnit(m, c, p, u) ==
    /\ CanConvert(storage, u)
    /\ Edit(m, EditExternalPositionUnit(storage, c, p, u))

CallEditExternalPositionData(m, c, p, data) ==
    Edit(m, EditExternalPositionData(storage, c, p, data))

CallEditPositionMultiplier(m, multiplier) ==
    /\ CanEditPositionMultiplier(multiplier)
    /\ Edit(m, EditPositionMultiplier(storage, multiplier))

CallMint(m, q) ==
    /\ storage.totalSupply + q <= MaxSupply
    /\ Edit(m, Mint(storage, q))

CallBurn(m, q) ==
    /\ CanBurn(storage, q)
    /\ Edit(m, Burn(storage, q))

-----------------------------------------------------------------------------
(* Governance on the Controller *)

ControllerAddModule(m) ==
    /\ m \notin enabledModules
    /\ enabledModules' = enabledModules \cup {m}
    /\ UNCHANGED <<manager, moduleStates, modules, isLocked, locker, storage, removing>>

ControllerRemoveModule(m) ==
    /\ m \in enabledModules
    /\ enabledModules' = enabledModules \ {m}
    /\ UNCHANGED <<manager, moduleStates, modules, isLocked, locker, storage, removing>>

-----------------------------------------------------------------------------
\* Neither a manager nor governance acts inside a removal.
ManagerCall ==
    /\ removing = NoAddress
    /\ \E sender \in Accounts :
        \/ \E m \in Modules : \/ AddModule(sender, m)
                              \/ RemoveModule(sender, m)
                              \/ RemovePendingModule(sender, m)
        \/ \E a \in Accounts \cup {NoAddress} : SetManager(sender, a)

PositionCall ==
    \E m \in Modules, c \in Components :
        \/ CallAddComponent(m, c)
        \/ CallRemoveComponent(m, c)
        \/ \E u \in RealUnits : CallEditDefaultPositionUnit(m, c, u)
        \/ \E p \in Modules :
            \/ CallAddExternalPositionModule(m, c, p)
            \/ CallRemoveExternalPositionModule(m, c, p)
            \/ \E u \in RealUnits : CallEditExternalPositionUnit(m, c, p, u)
            \/ \E data \in Data : CallEditExternalPositionData(m, c, p, data)

ModuleCall ==
    \E m \in Modules :
        \/ InitializeModule(m)
        \/ Lock(m)
        \/ Unlock(m)
        \/ \E x \in Multipliers : CallEditPositionMultiplier(m, x)
        \/ \E q \in Quantities : CallMint(m, q) \/ CallBurn(m, q)

ControllerCall ==
    /\ removing = NoAddress
    /\ \E m \in Modules : ControllerAddModule(m) \/ ControllerRemoveModule(m)

Next == ManagerCall \/ FinishRemoval \/ ModuleCall \/ PositionCall \/ ControllerCall

Spec == Init /\ [][Next]_vars

-----------------------------------------------------------------------------
(* Properties *)

\* The modules array, which off-chain readers and getModules use, lists each
\* module in the INITIALIZED state exactly once and no other: the array and the
\* mapping, updated by different functions, never disagree.
ModulesMatchStates ==
    /\ ~HasDuplicate(modules)
    /\ Elements(modules) = {m \in Modules : moduleStates[m] = "INITIALIZED"}

\* While locked, nothing a module relies on across its transactions moves: the
\* manager, the set of modules and any pending module stay, no removal begins, and
\* the lock passes to no other module.  Only addModule may run, on a module not
\* yet added; and a lock taken inside a removal does not stop that removal.
GovernanceFrozen ==
    isLocked =>
        /\ manager' = manager
        /\ removing = NoAddress => modules' = modules /\ removing' = NoAddress
        /\ \A m \in Modules \ {removing} :
            moduleStates[m] # "NONE" => moduleStates'[m] = moduleStates[m]
        /\ isLocked' => locker' = locker

LockFreezesGovernance == [][GovernanceFrozen]_vars

\* A lock whose holder is not an initialized module.  unlock refuses the holder.
Stranded == isLocked /\ moduleStates[locker] # "INITIALIZED"

\* There is one way to strand a lock, that a module locks while removeModule calls
\* it back (no module of the repository does), and no way to recover from it: the
\* manager can add the module again, but initializeModule, setManager and every
\* removal ask for no lock, so that positions, supply, modules and manager stand
\* still for good.
LockLost ==
    /\ Stranded' => Stranded \/ removing = locker
    /\ Stranded => Stranded' /\ UNCHANGED <<manager, modules, locker, storage>>

StrandedForever == [][LockLost]_vars

\* While locked, positions and supply change, and the lock ends, only if the
\* Controller enables the locker: when governance disables the module that holds
\* the lock, the SetToken stays frozen until it is enabled again.
LockerMoved ==
    isLocked /\ (storage' # storage \/ ~isLocked') =>
        moduleStates[locker] = "INITIALIZED" /\ locker \in enabledModules

LockedNeedsEnabledLocker == [][LockerMoved]_vars

\* A SetToken whose manager is the null address is wound down for good: no
\* account becomes manager, no module is added and none is removed.
WoundDown ==
    manager = NoAddress =>
        /\ manager' = NoAddress
        /\ \A m \in Modules :
            moduleStates'[m] # moduleStates[m] =>
                moduleStates[m] = "PENDING" /\ moduleStates'[m] = "INITIALIZED"

NullManagerIsFinal == [][WoundDown]_vars

\* With every module that the array lists disabled on the Controller, the SetToken
\* stands still: positions, multiplier, supply and lock.  In particular a module
\* that is initialized after governance disabled it, which initializeModule allows
\* as it does not ask the Controller again, gains nothing by it.
Powerless ==
    Elements(modules) \cap enabledModules = {} =>
        UNCHANGED <<storage, isLocked, locker>>

DisabledModulesPowerless == [][Powerless]_vars
==============================================================================
