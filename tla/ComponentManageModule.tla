------------------------ MODULE ComponentManageModule ------------------------
(***************************************************************************)
(* ComponentManageModule (protocol/modules/ComponentManageModule.sol) on a *)
(* SetToken that issues and redeems: the manager locks the SetToken to     *)
(* edit its components while nobody issues or redeems.  The edits are not  *)
(* reserved to the locked state: with the SetToken unlocked, any account   *)
(* may call them, between any two issuances.                               *)
(***************************************************************************)
EXTENDS SetTokenSystem

SE == INSTANCE SequencesExt

CONSTANTS
    Accounts,       \* accounts that send transactions
    NoAddress,      \* address(0)
    EditQuantities, \* quantities that are added and removed
    MaxLength       \* bound on the length of the components array

ASSUME AccountAssumption == NoAddress \notin Accounts

ASSUME EditAssumption == EditQuantities \subseteq Nat /\ MaxLength \in Nat

VARIABLES
    manager,
    isLocked        \* the module is the only one that locks, so it is the locker

manageVars == <<manager, isLocked>>
allVars == <<vars, manageVars>>

InitManage == Init /\ manager \in Accounts /\ isLocked = FALSE

WhenLockedOnlyManager(sender) == isLocked => sender = manager

\* Mutations: a lock does not stop the manager from handing over, nor mint and burn.
SetManagerAnyTime(newManager) ==
    /\ manager # NoAddress
    /\ manager' = newManager
    /\ UNCHANGED <<vars, isLocked>>
OpenToIssuance == isLocked \in BOOLEAN

\* SetToken.setManager, which a lock stops.
SetManager(newManager) ==
    /\ manager # NoAddress
    /\ ~isLocked
    /\ manager' = newManager
    /\ UNCHANGED <<vars, isLocked>>

LockSetToken(sender) ==
    /\ sender = manager
    /\ ~isLocked
    /\ isLocked' = TRUE
    /\ UNCHANGED <<vars, manager>>

UnlockSetToken(sender) ==
    /\ sender = manager
    /\ isLocked
    /\ isLocked' = FALSE
    /\ UNCHANGED <<vars, manager>>

TotalComponentRealUnits(st, c) ==
    SE!FoldSeq(LAMBDA m, total : total + ExternalPositionRealUnit(st, c, m),
               DefaultPositionRealUnit(st, c), st.externalPositionModules[c])

\* Removing all delists the component and keeps its unit; removing a part makes
\* the removed quantity the unit.  The quantity leaves the balance as it is, not
\* times the supply.
RemoveFromSetToken(sender, c, q) ==
    LET total == TotalComponentRealUnits(storage, c)
    IN  /\ WhenLockedOnlyManager(sender)
        /\ IsComponent(storage, c)
        /\ q <= total /\ q <= balance[c]
        /\ \/ /\ q = total
              /\ storage' = RemoveComponent(storage, c)
           \/ /\ q # total
              /\ CanConvert(storage, q)
              /\ storage' = EditDefaultPositionUnit(storage, c, q)
        /\ balance' = [balance EXCEPT ![c] = @ - q]
        /\ UNCHANGED <<feeVars, issued, manageVars>>

\* Lists the component whether or not it is listed, and replaces its unit.
AddToSetToken(sender, c, q) ==
    /\ WhenLockedOnlyManager(sender)
    /\ q > 0
    /\ balance[c] + q <= MaxBalance /\ Len(storage.components) < MaxLength
    /\ CanConvert(storage, q)
    /\ balance' = [balance EXCEPT ![c] = @ + q]
    /\ storage' = EditDefaultPositionUnit(AddComponent(storage, c), c, q)
    /\ UNCHANGED <<feeVars, issued, manageVars>>

\* mint and burn revert while the SetToken is locked.
OpenToModules == ~isLocked

IssuanceWhenOpen == OpenToModules /\ Issuance /\ UNCHANGED manageVars

ComponentEdit ==
    \E sender \in Accounts, c \in Components, q \in EditQuantities :
        RemoveFromSetToken(sender, c, q) \/ AddToSetToken(sender, c, q)

NextManage ==
    \/ \E sender \in Accounts : LockSetToken(sender) \/ UnlockSetToken(sender)
    \/ \E a \in Accounts \cup {NoAddress} : SetManager(a)
    \/ ComponentEdit
    \/ IssuanceWhenOpen
    \/ (Tick \/ \E c \in Components : Airdrop(c)) /\ UNCHANGED manageVars

SpecManage == InitManage /\ [][NextManage]_allVars

-----------------------------------------------------------------------------
(* Properties *)

\* A locked SetToken has a manager, the only one who can unlock it: whatever the
\* order of handing over and locking, no lock outlives its manager.
LockedHasManager == isLocked => manager # NoAddress

\* From lock to unlock the supply stands still, so that the components change
\* for all holders alike and under one manager.
Standstill ==
    isLocked => Supply' = Supply /\ issued' = issued /\ manager' = manager

LockIsStandstill == [][Standstill]_allVars

\* Removing a quantity of a component, in part or in total, leaves the unit that
\* is not removed (a component removed in total, which was listed once, has none).
UnitLeft(c) == IF IsComponent(storage, c) THEN DefaultPositionRealUnit(storage, c) ELSE 0

RemovalSubtracts ==
    [][\A sender \in Accounts, c \in Components, q \in EditQuantities :
        Times(c) = 1 /\ RemoveFromSetToken(sender, c, q) => UnitLeft(c)' = UnitLeft(c) - q]_allVars
==============================================================================
