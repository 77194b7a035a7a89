---------------------------- MODULE SetTokenProofs ---------------------------
(***************************************************************************)
(* Safety of SetToken for every set of modules, accounts and components.   *)
(*                                                                         *)
(* IInv is inductive.  ModulesMatchStates needs TypeOK (the array is a     *)
(* sequence of modules) and that a removal finishes on a module that is    *)
(* still listed; the action properties need what a removal that is under   *)
(* way leaves alone: the manager, and the state of whoever locked.         *)
(***************************************************************************)
EXTENDS SetToken, PositionProofs

\* The flag and the holder of the lock go together.
LockHasHolder == isLocked <=> locker # NoAddress

\* Inside a removal the module is still initialized, so is whoever has locked, and
\* there is a manager, who called.
RemovalUnderWay ==
    removing # NoAddress =>
        /\ moduleStates[removing] = "INITIALIZED"
        /\ manager # NoAddress
        /\ isLocked => moduleStates[locker] = "INITIALIZED"

IInv == TypeOK /\ ModulesMatchStates /\ LockHasHolder /\ RemovalUnderWay

LEMMA InitIInv == Init => IInv
  <1> SUFFICES ASSUME Init PROVE IInv
    OBVIOUS
  <1>1. InitialUnits \in [Components -> Int]
    BY InitialAssumption
  <1>2. storage \in Storage
    BY <1>1, InitialStorageType, InitialAssumption DEF Init
  <1>3. modules \in Seq(Modules) /\ DOMAIN modules = {}
    <2>1. << >> \in Seq(Modules) /\ Len(<< >>) = 0
      BY EmptySeq
    <2> QED BY <2>1, LenProperties, SMT DEF Init
  <1>4. TypeOK
    BY <1>2, <1>3 DEF Init, TypeOK
  <1>5. ModulesMatchStates
    BY <1>3 DEF Init, ModulesMatchStates, HasDuplicate, Elements
  <1>6. LockHasHolder /\ RemovalUnderWay
    BY DEF Init, LockHasHolder, RemovalUnderWay
  <1> QED BY <1>4, <1>5, <1>6 DEF IInv

-----------------------------------------------------------------------------
(* One lemma for each kind of step *)

\* A step that leaves the module set, the lock and any removal alone.
LEMMA SameModules ==
    ASSUME IInv, TypeOK', UNCHANGED <<moduleStates, modules, isLocked, locker, removing>>,
           removing = NoAddress \/ manager' = manager
    PROVE  IInv'
  BY DEF IInv, ModulesMatchStates, LockHasHolder, RemovalUnderWay

LEMMA AddModuleStep ==
    ASSUME IInv, NEW s \in Accounts, NEW m \in Modules, AddModule(s, m), removing = NoAddress
    PROVE  IInv'
  <1>1. TypeOK'
    BY DEF IInv, TypeOK, AddModule
  <1>2. \A n \in Modules : moduleStates'[n] = "INITIALIZED" <=> moduleStates[n] = "INITIALIZED"
    BY DEF IInv, TypeOK, AddModule
  <1>3. ModulesMatchStates'
    BY <1>2 DEF IInv, ModulesMatchStates, AddModule
  <1>4. LockHasHolder' /\ RemovalUnderWay'
    BY DEF IInv, LockHasHolder, RemovalUnderWay, AddModule
  <1> QED BY <1>1, <1>3, <1>4 DEF IInv

LEMMA RemoveModuleStep ==
    ASSUME IInv, NEW s \in Accounts, NEW m \in Modules, RemoveModule(s, m)
    PROVE  IInv'
  <1>1. TypeOK'
    BY DEF IInv, TypeOK, RemoveModule
  <1>2. ModulesMatchStates' /\ LockHasHolder'
    BY DEF IInv, ModulesMatchStates, LockHasHolder, RemoveModule
  <1>3. RemovalUnderWay'
    BY AddressAssumption DEF RemovalUnderWay, RemoveModule, OnlyManager, OnlyWhenUnlocked
  <1> QED BY <1>1, <1>2, <1>3 DEF IInv

LEMMA FinishRemovalStep ==
    ASSUME IInv, FinishRemoval
    PROVE  IInv'
  <1>1. removing \in Modules /\ moduleStates[removing] = "INITIALIZED"
    BY DEF IInv, TypeOK, RemovalUnderWay, FinishRemoval
  <1>2. modules \in Seq(Modules) /\ ~HasDuplicate(modules) /\ Contains(modules, removing)
    BY <1>1, ContainsElements DEF IInv, TypeOK, ModulesMatchStates
  <1>3. TypeOK'
    BY <1>1, <1>2, RemoveType DEF IInv, TypeOK, FinishRemoval
  <1>4. ModulesMatchStates'
    <2>1. /\ ~HasDuplicate(modules')
          /\ Elements(modules') = Elements(modules) \ {removing}
      BY <1>1, <1>2, RemoveProperties DEF FinishRemoval
    <2>2. \A n \in Modules : moduleStates'[n] = "INITIALIZED"
                                <=> moduleStates[n] = "INITIALIZED" /\ n # removing
      BY DEF IInv, TypeOK, FinishRemoval
    <2> QED BY <2>1, <2>2 DEF IInv, ModulesMatchStates
  <1>5. LockHasHolder' /\ RemovalUnderWay'
    BY DEF IInv, LockHasHolder, RemovalUnderWay, FinishRemoval
  <1> QED BY <1>3, <1>4, <1>5 DEF IInv

LEMMA RemovePendingModuleStep ==
    ASSUME IInv, NEW s \in Accounts, NEW m \in Modules, RemovePendingModule(s, m),
           removing = NoAddress
    PROVE  IInv'
  <1>1. TypeOK'
    BY DEF IInv, TypeOK, RemovePendingModule
  <1>2. \A n \in Modules : moduleStates'[n] = "INITIALIZED" <=> moduleStates[n] = "INITIALIZED"
    BY DEF IInv, TypeOK, RemovePendingModule
  <1>3. ModulesMatchStates'
    BY <1>2 DEF IInv, ModulesMatchStates, RemovePendingModule
  <1>4. LockHasHolder' /\ RemovalUnderWay'
    BY DEF IInv, LockHasHolder, RemovalUnderWay, RemovePendingModule
  <1> QED BY <1>1, <1>3, <1>4 DEF IInv

LEMMA InitializeModuleStep ==
    ASSUME IInv, NEW m \in Modules, InitializeModule(m)
    PROVE  IInv'
  <1>1. modules \in Seq(Modules) /\ ~HasDuplicate(modules) /\ ~Contains(modules, m)
    BY ContainsElements DEF IInv, TypeOK, ModulesMatchStates, InitializeModule
  <1>2. /\ modules' \in Seq(Modules)
        /\ ~HasDuplicate(modules')
        /\ Elements(modules') = Elements(modules) \cup {m}
    BY <1>1, PushProperties DEF InitializeModule
  <1>3. TypeOK'
    BY <1>2 DEF IInv, TypeOK, InitializeModule
  <1>4. \A n \in Modules : moduleStates'[n] = "INITIALIZED"
                                <=> moduleStates[n] = "INITIALIZED" \/ n = m
    BY DEF IInv, TypeOK, InitializeModule
  <1>5. ModulesMatchStates'
    BY <1>2, <1>4 DEF IInv, ModulesMatchStates
  <1>6. LockHasHolder'
    BY DEF IInv, LockHasHolder, InitializeModule
  <1>7. RemovalUnderWay'
    BY <1>4 DEF IInv, TypeOK, RemovalUnderWay, InitializeModule, OnlyWhenUnlocked
  <1> QED BY <1>3, <1>5, <1>6, <1>7 DEF IInv

LEMMA LockStep ==
    ASSUME IInv, NEW m \in Modules, Lock(m) \/ Unlock(m)
    PROVE  IInv'
  <1>1. CASE Lock(m)
    <2>1. m # NoAddress
      BY AddressAssumption
    <2>2. TypeOK' /\ ModulesMatchStates'
      BY <1>1 DEF IInv, TypeOK, ModulesMatchStates, Lock
    <2>3. LockHasHolder' /\ RemovalUnderWay'
      BY <1>1, <2>1 DEF IInv, LockHasHolder, RemovalUnderWay, Lock, OnlyModule
    <2> QED BY <2>2, <2>3 DEF IInv
  <1>2. CASE Unlock(m)
    BY <1>2 DEF IInv, TypeOK, ModulesMatchStates, LockHasHolder, RemovalUnderWay, Unlock
  <1> QED BY <1>1, <1>2

LEMMA EditStep ==
    ASSUME IInv, NEW m \in Modules, NEW st \in Storage, Edit(m, st)
    PROVE  IInv'
  <1>1. TypeOK'
    BY DEF IInv, TypeOK, Edit
  <1> QED BY <1>1, SameModules DEF Edit

LEMMA PositionCallStep ==
    ASSUME IInv, PositionCall
    PROVE  IInv'
  <1>1. storage \in Storage
    BY DEF IInv, TypeOK
  <1>2. PICK m \in Modules, c \in Components :
           \/ CallAddComponent(m, c)
           \/ CallRemoveComponent(m, c)
           \/ \E u \in RealUnits : CallEditDefaultPositionUnit(m, c, u)
           \/ \E p \in Modules :
               \/ CallAddExternalPositionModule(m, c, p)
               \/ CallRemoveExternalPositionModule(m, c, p)
               \/ \E u \in RealUnits : CallEditExternalPositionUnit(m, c, p, u)
               \/ \E data \in Data : CallEditExternalPositionData(m, c, p, data)
    BY DEF PositionCall
  <1>3. CASE CallAddComponent(m, c)
    BY <1>1, <1>3, AddComponentType, EditStep DEF CallAddComponent
  <1>4. CASE CallRemoveComponent(m, c)
    BY <1>1, <1>4, RemoveComponentType, EditStep DEF CallRemoveComponent
  <1>5. ASSUME NEW u \in RealUnits, CallEditDefaultPositionUnit(m, c, u) PROVE IInv'
    BY <1>1, <1>5, EditDefaultPositionUnitType, EditStep, InputAssumption
       DEF CallEditDefaultPositionUnit
  <1>6. ASSUME NEW p \in Modules, CallAddExternalPositionModule(m, c, p) PROVE IInv'
    BY <1>1, <1>6, AddExternalPositionModuleType, EditStep DEF CallAddExternalPositionModule
  <1>7. ASSUME NEW p \in Modules, CallRemoveExternalPositionModule(m, c, p) PROVE IInv'
    BY <1>1, <1>7, RemoveExternalPositionModuleType, EditStep DEF CallRemoveExternalPositionModule
  <1>8. ASSUME NEW p \in Modules, NEW u \in RealUnits, CallEditExternalPositionUnit(m, c, p, u)
        PROVE  IInv'
    BY <1>1, <1>8, EditExternalPositionUnitType, EditStep, InputAssumption
       DEF CallEditExternalPositionUnit
  <1>9. ASSUME NEW p \in Modules, NEW data \in Data, CallEditExternalPositionData(m, c, p, data)
        PROVE  IInv'
    BY <1>1, <1>9, EditExternalPositionDataType, EditStep DEF CallEditExternalPositionData
  <1> QED BY <1>2, <1>3, <1>4, <1>5, <1>6, <1>7, <1>8, <1>9

LEMMA SupplyCallStep ==
    ASSUME IInv, NEW m \in Modules,
           \/ \E x \in Multipliers : CallEditPositionMultiplier(m, x)
           \/ \E q \in Quantities : CallMint(m, q) \/ CallBurn(m, q)
    PROVE  IInv'
  <1>1. storage \in Storage
    BY DEF IInv, TypeOK
  <1>2. ASSUME NEW x \in Multipliers, CallEditPositionMultiplier(m, x) PROVE IInv'
    BY <1>1, <1>2, EditPositionMultiplierType, EditStep, InputAssumption
       DEF CallEditPositionMultiplier
  <1>3. ASSUME NEW q \in Quantities, CallMint(m, q) PROVE IInv'
    BY <1>1, <1>3, SupplyType, EditStep, InputAssumption DEF CallMint
  <1>4. ASSUME NEW q \in Quantities, CallBurn(m, q) PROVE IInv'
    BY <1>1, <1>4, SupplyType, EditStep, InputAssumption DEF CallBurn
  <1> QED BY <1>2, <1>3, <1>4

LEMMA NextIInv == IInv /\ [Next]_vars => IInv'
  <1> SUFFICES ASSUME IInv, [Next]_vars PROVE IInv'
    OBVIOUS
  <1>1. ASSUME NEW s \in Accounts, NEW m \in Modules, AddModule(s, m), removing = NoAddress
        PROVE  IInv'
    BY <1>1, AddModuleStep
  <1>2. ASSUME NEW s \in Accounts, NEW m \in Modules, RemoveModule(s, m) PROVE IInv'
    BY <1>2, RemoveModuleStep
  <1>3. ASSUME NEW s \in Accounts, NEW m \in Modules, RemovePendingModule(s, m),
               removing = NoAddress
        PROVE  IInv'
    BY <1>3, RemovePendingModuleStep
  <1>4. ASSUME NEW s \in Accounts, NEW a \in Accounts \cup {NoAddress}, SetManager(s, a),
               removing = NoAddress
        PROVE  IInv'
    <2>1. TypeOK'
      BY <1>4 DEF IInv, TypeOK, SetManager
    <2> QED BY <1>4, <2>1, SameModules DEF SetManager
  <1>5. ASSUME NEW m \in Modules, InitializeModule(m) PROVE IInv'
    BY <1>5, InitializeModuleStep
  <1>6. ASSUME NEW m \in Modules, Lock(m) \/ Unlock(m) PROVE IInv'
    BY <1>6, LockStep
  <1>7. CASE PositionCall
    BY <1>7, PositionCallStep
  <1>8. ASSUME NEW m \in Modules,
               \/ \E x \in Multipliers : CallEditPositionMultiplier(m, x)
               \/ \E q \in Quantities : CallMint(m, q) \/ CallBurn(m, q)
        PROVE  IInv'
    BY <1>8, SupplyCallStep
  <1>9. ASSUME NEW m \in Modules, ControllerAddModule(m) \/ ControllerRemoveModule(m)
        PROVE  IInv'
    <2>1. TypeOK'
      BY <1>9 DEF IInv, TypeOK, ControllerAddModule, ControllerRemoveModule
    <2> QED BY <1>9, <2>1, SameModules DEF ControllerAddModule, ControllerRemoveModule
  <1>10. CASE UNCHANGED vars
    BY <1>10 DEF vars, IInv, TypeOK, ModulesMatchStates, LockHasHolder, RemovalUnderWay
  <1>11. CASE ManagerCall
    BY <1>1, <1>2, <1>3, <1>4, <1>11 DEF ManagerCall
  <1>12. CASE ModuleCall
    BY <1>5, <1>6, <1>8, <1>12 DEF ModuleCall
  <1>13. CASE ControllerCall
    BY <1>9, <1>13 DEF ControllerCall
  <1>14. CASE FinishRemoval
    BY <1>14, FinishRemovalStep
  <1> QED BY <1>7, <1>10, <1>11, <1>12, <1>13, <1>14 DEF Next

\* The inductive invariant holds in every reachable state.
THEOREM Invariance == Spec => []IInv
  BY InitIInv, NextIInv, PTL DEF Spec

\* Every variable keeps its type: no sequence of calls leaves, for one, a
\* multiplier that is not positive or an array entry that is not an address.
THEOREM TypeCorrect == Spec => []TypeOK
  BY Invariance, PTL DEF IInv

\* The modules array and the state mapping agree in every reachable state.
THEOREM ModulesAlwaysMatchStates == Spec => []ModulesMatchStates
  BY Invariance, PTL DEF IInv

-----------------------------------------------------------------------------
(* What a step may never do *)

\* The use of a privilege: by a listed module that the Controller enables, the
\* locker when there is one.
LEMMA UseMoves ==
    ASSUME IInv, NEW m \in Modules, OnlyModule(m)
    PROVE  Powerless /\ (isLocked /\ locker = m => ~Stranded)
  <1>1. m \in Elements(modules) \cap enabledModules
    BY DEF IInv, ModulesMatchStates, OnlyModule, EnabledOnController
  <1>2. Powerless
    BY <1>1 DEF Powerless
  <1> QED BY <1>2 DEF Stranded, OnlyModule

LEMMA EditMoves ==
    ASSUME IInv, NEW m \in Modules, NEW st, Edit(m, st)
    PROVE  GovernanceFrozen /\ LockLost /\ LockerMoved /\ WoundDown /\ Powerless
  <1>1. GovernanceFrozen /\ WoundDown
    BY DEF Edit, GovernanceFrozen, WoundDown
  <1>2. (isLocked => locker = m) /\ OnlyModule(m)
    BY DEF Edit, Privileged, WhenLockedOnlyLocker
  <1>3. LockerMoved
    BY <1>2 DEF Edit, OnlyModule, EnabledOnController, LockerMoved
  <1>4. Powerless /\ ~Stranded
    BY <1>2, UseMoves DEF Stranded
  <1>5. LockLost
    BY <1>4 DEF Edit, LockLost, Stranded
  <1> QED BY <1>1, <1>3, <1>4, <1>5

LEMMA FinishRemovalMoves ==
    ASSUME IInv, FinishRemoval
    PROVE  GovernanceFrozen /\ LockLost /\ LockerMoved /\ WoundDown /\ Powerless
  <1>1. GovernanceFrozen
    BY DEF IInv, TypeOK, FinishRemoval, GovernanceFrozen
  <1>2. LockerMoved /\ Powerless
    BY DEF FinishRemoval, LockerMoved, Powerless
  <1>3. WoundDown
    BY DEF IInv, RemovalUnderWay, FinishRemoval, WoundDown
  <1>4. LockLost
    <2>1. ~Stranded
      BY DEF IInv, RemovalUnderWay, FinishRemoval, Stranded
    <2>2. ASSUME Stranded' PROVE removing = locker
      <3>1. isLocked /\ locker' = locker /\ moduleStates[locker] = "INITIALIZED"
        BY <2>1, <2>2 DEF FinishRemoval, Stranded
      <3>2. locker \in Modules
        BY <3>1 DEF IInv, TypeOK, LockHasHolder
      <3> QED BY <2>2, <3>1, <3>2 DEF IInv, TypeOK, FinishRemoval, Stranded
    <2> QED BY <2>1, <2>2 DEF LockLost
  <1> QED BY <1>1, <1>2, <1>3, <1>4

\* addModule changes the state of a module that is not initialized.
LEMMA AddModuleMoves ==
    ASSUME IInv, NEW s \in Accounts, NEW m \in Modules, AddModule(s, m)
    PROVE  GovernanceFrozen /\ LockLost /\ LockerMoved /\ WoundDown /\ Powerless
  <1>1. s # NoAddress
    BY AddressAssumption
  <1>2. GovernanceFrozen /\ LockerMoved /\ WoundDown /\ Powerless
    BY <1>1 DEF IInv, TypeOK, AddModule, OnlyManager,
                GovernanceFrozen, LockerMoved, WoundDown, Powerless
  <1>3. Stranded' <=> Stranded
    <2>1. isLocked => locker \in Modules
      BY DEF IInv, TypeOK, LockHasHolder
    <2>2. \A n \in Modules : moduleStates'[n] = "INITIALIZED" <=> moduleStates[n] = "INITIALIZED"
      BY DEF IInv, TypeOK, AddModule
    <2> QED BY <2>1, <2>2 DEF Stranded, AddModule
  <1>4. LockLost
    BY <1>3 DEF LockLost, AddModule
  <1> QED BY <1>2, <1>4

LEMMA StepMoves ==
    IInv /\ [Next]_vars
        => [GovernanceFrozen /\ LockLost /\ LockerMoved /\ WoundDown /\ Powerless]_vars
  <1> DEFINE Good == GovernanceFrozen /\ LockLost /\ LockerMoved /\ WoundDown /\ Powerless
  <1> SUFFICES ASSUME IInv, Next PROVE Good
    OBVIOUS
  <1>1. CASE ManagerCall
    <2>1. PICK s \in Accounts :
             \/ \E m \in Modules : AddModule(s, m) \/ RemoveModule(s, m) \/ RemovePendingModule(s, m)
             \/ \E a \in Accounts \cup {NoAddress} : SetManager(s, a)
      BY <1>1 DEF ManagerCall
    <2>2. s # NoAddress
      BY AddressAssumption
    <2>3. ASSUME NEW m \in Modules, AddModule(s, m) PROVE Good
      BY <2>3, AddModuleMoves
    <2>4. ASSUME NEW m \in Modules, RemoveModule(s, m) PROVE Good
      BY <2>2, <2>4 DEF RemoveModule, OnlyManager, OnlyWhenUnlocked, Stranded,
                        GovernanceFrozen, LockLost, LockerMoved, WoundDown, Powerless
    <2>5. ASSUME NEW m \in Modules, RemovePendingModule(s, m) PROVE Good
      BY <2>2, <2>5 DEF RemovePendingModule, OnlyManager, OnlyWhenUnlocked, Stranded,
                        GovernanceFrozen, LockLost, LockerMoved, WoundDown, Powerless
    <2>6. ASSUME NEW a \in Accounts \cup {NoAddress}, SetManager(s, a) PROVE Good
      BY <2>2, <2>6 DEF SetManager, OnlyManager, OnlyWhenUnlocked, Stranded,
                        GovernanceFrozen, LockLost, LockerMoved, WoundDown, Powerless
    <2> QED BY <2>1, <2>3, <2>4, <2>5, <2>6
  <1>2. CASE ModuleCall
    <2>1. ASSUME NEW m \in Modules, InitializeModule(m) PROVE Good
      BY <2>1 DEF IInv, TypeOK, InitializeModule, OnlyWhenUnlocked, Stranded,
                  GovernanceFrozen, LockLost, LockerMoved, WoundDown, Powerless
    <2>2. ASSUME NEW m \in Modules, Lock(m) PROVE Good
      <3>1. Powerless
        BY <2>2, UseMoves DEF Lock
      <3> QED BY <2>2, <3>1 DEF Lock, OnlyModule, Stranded,
                                GovernanceFrozen, LockLost, LockerMoved, WoundDown
    <2>3. ASSUME NEW m \in Modules, Unlock(m) PROVE Good
      <3>1. Powerless /\ ~Stranded
        BY <2>3, UseMoves DEF Unlock
      <3> QED BY <2>3, <3>1 DEF Unlock, OnlyModule, EnabledOnController, Stranded,
                                GovernanceFrozen, LockLost, LockerMoved, WoundDown
    <2>4. ASSUME NEW m \in Modules,
                 \/ \E x \in Multipliers : CallEditPositionMultiplier(m, x)
                 \/ \E q \in Quantities : CallMint(m, q) \/ CallBurn(m, q)
          PROVE  Good
      BY <2>4, EditMoves DEF CallEditPositionMultiplier, CallMint, CallBurn
    <2> QED BY <1>2, <2>1, <2>2, <2>3, <2>4 DEF ModuleCall
  <1>3. CASE PositionCall
    BY <1>3, EditMoves
       DEF PositionCall, CallAddComponent, CallRemoveComponent, CallEditDefaultPositionUnit,
           CallAddExternalPositionModule, CallRemoveExternalPositionModule,
           CallEditExternalPositionUnit, CallEditExternalPositionData
  <1>4. CASE ControllerCall
    BY <1>4 DEF ControllerCall, ControllerAddModule, ControllerRemoveModule, Stranded,
                GovernanceFrozen, LockLost, LockerMoved, WoundDown, Powerless
  <1>5. CASE FinishRemoval
    BY <1>5, FinishRemovalMoves
  <1> QED BY <1>1, <1>2, <1>3, <1>4, <1>5 DEF Next

\* A lock stops every change of manager and modules.
THEOREM LockAlwaysFreezesGovernance == Spec => LockFreezesGovernance
  <1>1. IInv /\ [Next]_vars => [GovernanceFrozen]_vars
    BY StepMoves
  <1> QED BY <1>1, Invariance, PTL DEF Spec, LockFreezesGovernance

\* A lock is stranded only by a module that locks in its own removal, and then for
\* good.
THEOREM LockStrandedOnlyByCallback == Spec => StrandedForever
  <1>1. IInv /\ [Next]_vars => [LockLost]_vars
    BY StepMoves
  <1> QED BY <1>1, Invariance, PTL DEF Spec, StrandedForever

\* Under a lock only an initialized, enabled locker edits or unlocks.
THEOREM LockedAlwaysNeedsEnabledLocker == Spec => LockedNeedsEnabledLocker
  <1>1. IInv /\ [Next]_vars => [LockerMoved]_vars
    BY StepMoves
  <1> QED BY <1>1, Invariance, PTL DEF Spec, LockedNeedsEnabledLocker

\* Giving the manager up is final.
THEOREM NullManagerAlwaysFinal == Spec => NullManagerIsFinal
  <1>1. IInv /\ [Next]_vars => [WoundDown]_vars
    BY StepMoves
  <1> QED BY <1>1, Invariance, PTL DEF Spec, NullManagerIsFinal

\* With no listed module enabled on the Controller, nothing that takes a privilege
\* happens, whatever modules are added, initialized and removed.
THEOREM DisabledModulesAlwaysPowerless == Spec => DisabledModulesPowerless
  <1>1. IInv /\ [Next]_vars => [Powerless]_vars
    BY StepMoves
  <1> QED BY <1>1, Invariance, PTL DEF Spec, DisabledModulesPowerless
==============================================================================
