------------------------ MODULE PositionTrackingProofs -----------------------
(***************************************************************************)
(* While no fee rescales the units (every multiplier set is one), any      *)
(* sequence of library calls keeps the components array, the units and the *)
(* external module arrays in agreement.  The hypothesis is needed: with a  *)
(* smaller multiplier a run finds a component listed twice.                *)
(***************************************************************************)
EXTENDS PositionTracking, PositionProofs

LEMMA LenPositive ==
    ASSUME NEW S, NEW A \in Seq(S)
    PROVE  /\ Len(A) > 0 <=> Elements(A) # {}
           /\ \A x : Contains(A, x) => Len(A) > 0
  <1>1. Len(A) \in Nat /\ DOMAIN A = 1 .. Len(A)
    BY LenProperties
  <1>2. Len(A) > 0 => 1 \in DOMAIN A
    BY <1>1, SMT
  <1>3. \A i \in DOMAIN A : Len(A) > 0
    BY <1>1, SMT
  <1> QED BY <1>2, <1>3 DEF Elements, Contains

\* Registering the module of a new external position, with its unit and data.
LEMMA OpenTracks ==
    ASSUME NEW st, Unscaled(st), TracksComponents(st), TracksExternalPositions(st),
           NEW c \in Components, NEW m \in Modules, NEW u \in Int, NEW d \in Data, u # 0
    PROVE  LET new == OpenExternalPosition(st, c, m, u, d) IN
           Unscaled(new) /\ TracksComponents(new) /\ TracksExternalPositions(new)
  <1> DEFINE listed     == IF IsComponent(st, c) THEN st ELSE AddComponent(st, c)
             known      == IsComponent(st, c) /\ IsExternalPositionModule(st, c, m)
             registered == IF known THEN listed ELSE AddExternalPositionModule(listed, c, m)
             withUnit   == EditExternalPositionUnit(registered, c, m, u)
             new        == OpenExternalPosition(st, c, m, u, d)
  <1>1. st \in Storage /\ ~HasDuplicate(st.components)
    BY DEF Unscaled, TracksComponents
  <1>2. /\ listed \in Storage
        /\ ~HasDuplicate(listed.components)
        /\ \A e \in Components : IsComponent(listed, e) <=> IsComponent(st, e) \/ e = c
    BY <1>1, AddComponentType, AddedComponent
  <1>3. /\ listed.virtualUnit = st.virtualUnit
        /\ listed.positionMultiplier = st.positionMultiplier
        /\ listed.externalPositionModules = st.externalPositionModules
        /\ listed.externalVirtualUnit = st.externalVirtualUnit
        /\ listed.externalData = st.externalData
    BY <1>1 DEF AddComponent, Storage
  <1> HIDE DEF listed
  <1>4. known <=> IsExternalPositionModule(st, c, m)
    <2>1. IsExternalPositionModule(st, c, m) => HasExternalPosition(st, c)
      BY <1>1, StorageFields, LenPositive DEF IsExternalPositionModule, HasExternalPosition
    <2> QED BY <2>1 DEF TracksComponents
  <1> DEFINE A == st.externalPositionModules[c]
             B == IF known THEN A ELSE Append(A, m)
  <1>5. /\ A \in Seq(Modules) /\ ~HasDuplicate(A)
        /\ B \in Seq(Modules) /\ ~HasDuplicate(B)
        /\ \A n \in Modules : Contains(B, n) <=> Contains(A, n) \/ n = m
    <2>1. A \in Seq(Modules) /\ ~HasDuplicate(A)
      BY <1>1, StorageFields DEF TracksExternalPositions
    <2>2. CASE known
      BY <2>1, <2>2, <1>4 DEF IsExternalPositionModule
    <2>3. CASE ~known
      <3>1. ~Contains(A, m)
        BY <1>4, <2>3 DEF IsExternalPositionModule
      <3> QED BY <2>1, <2>3, <3>1, PushProperties, ContainsElements
    <2> QED BY <2>1, <2>2, <2>3
  <1>6. /\ registered \in Storage
        /\ registered.externalPositionModules = [st.externalPositionModules EXCEPT ![c] = B]
        /\ registered.components = listed.components
        /\ registered.virtualUnit = st.virtualUnit
        /\ registered.positionMultiplier = st.positionMultiplier
        /\ registered.externalVirtualUnit = st.externalVirtualUnit
        /\ registered.externalData = st.externalData
    <2>1. CASE known
      <3>1. [st.externalPositionModules EXCEPT ![c] = A] = st.externalPositionModules
        BY <1>1, StorageFields
      <3> QED BY <1>2, <1>3, <2>1, <3>1
    <2>2. CASE ~known
      <3>1. registered = AddExternalPositionModule(listed, c, m)
        BY <2>2
      <3>2. registered \in Storage
        BY <1>2, <3>1, AddExternalPositionModuleType
      <3> QED BY <1>2, <1>3, <2>2, <3>1, <3>2 DEF AddExternalPositionModule, Storage
    <2> QED BY <2>1, <2>2
  <1> HIDE DEF registered, B
  <1>7. ConvertRealToVirtualUnit(registered, u) = u
    BY <1>6, UnscaledConversions DEF ConvertRealToVirtualUnit, Unscaled
  <1>8. /\ new \in Storage
        /\ new.externalPositionModules = registered.externalPositionModules
        /\ new.components = registered.components
        /\ new.virtualUnit = registered.virtualUnit
        /\ new.positionMultiplier = registered.positionMultiplier
        /\ new.externalVirtualUnit = [registered.externalVirtualUnit EXCEPT ![c][m] = u]
        /\ new.externalData = [registered.externalData EXCEPT ![c][m] = d]
    <2>1. new = EditExternalPositionData(withUnit, c, m, d)
      BY DEF OpenExternalPosition, registered, listed
    <2>2. withUnit \in Storage
      BY <1>6, EditExternalPositionUnitType
    <2>3. /\ withUnit.externalPositionModules = registered.externalPositionModules
          /\ withUnit.components = registered.components
          /\ withUnit.virtualUnit = registered.virtualUnit
          /\ withUnit.positionMultiplier = registered.positionMultiplier
          /\ withUnit.externalVirtualUnit = [registered.externalVirtualUnit EXCEPT ![c][m] = u]
          /\ withUnit.externalData = registered.externalData
      BY <1>6, <1>7 DEF EditExternalPositionUnit, Storage
    <2> HIDE DEF withUnit
    <2>4. new \in Storage
      BY <2>1, <2>2, EditExternalPositionDataType
    <2> QED BY <2>1, <2>2, <2>3, <2>4 DEF EditExternalPositionData, Storage
  <1> HIDE DEF new, withUnit
  <1>9. Unscaled(new)
    BY <1>6, <1>8 DEF Unscaled
  <1>10. \A e \in Components : new.externalPositionModules[e] =
                                IF e = c THEN B ELSE st.externalPositionModules[e]
    BY <1>1, <1>6, <1>8, StorageFields
  <1>11. \A e \in Components : IsComponent(new, e) <=> IsComponent(st, e) \/ e = c
    BY <1>2, <1>6, <1>8 DEF IsComponent
  <1>12. TracksComponents(new)
    <2>1. Len(B) > 0
      BY <1>5, LenPositive
    <2> QED BY <1>2, <1>6, <1>8, <1>10, <1>11, <2>1
            DEF TracksComponents, HasExternalPosition
  <1>13. \A e \in Components, n \in Modules :
            /\ new.externalVirtualUnit[e][n] =
                IF e = c /\ n = m THEN u ELSE st.externalVirtualUnit[e][n]
            /\ new.externalData[e][n] =
                IF e = c /\ n = m THEN d ELSE st.externalData[e][n]
    <2>1. /\ new.externalVirtualUnit = [st.externalVirtualUnit EXCEPT ![c][m] = u]
          /\ new.externalData = [st.externalData EXCEPT ![c][m] = d]
      BY <1>6, <1>8
    <2>2. /\ st.externalVirtualUnit \in [Components -> [Modules -> Int]]
          /\ st.externalData \in [Components -> [Modules -> Data]]
      BY <1>1, StorageFields
    <2>3. ASSUME NEW e \in Components, NEW n \in Modules
          PROVE  new.externalVirtualUnit[e][n] =
                    IF e = c /\ n = m THEN u ELSE st.externalVirtualUnit[e][n]
      BY <2>1, <2>2
    <2>4. ASSUME NEW e \in Components, NEW n \in Modules
          PROVE  new.externalData[e][n] =
                    IF e = c /\ n = m THEN d ELSE st.externalData[e][n]
      BY <2>1, <2>2
    <2> QED BY <2>3, <2>4
  <1>14. TracksExternalPositions(new)
    <2> SUFFICES ASSUME NEW e \in Components
                 PROVE  /\ ~HasDuplicate(new.externalPositionModules[e])
                        /\ \A n \in Modules :
                            /\ Contains(new.externalPositionModules[e], n)
                                    <=> new.externalVirtualUnit[e][n] # 0
                            /\ new.externalData[e][n] # NoData
                                    => Contains(new.externalPositionModules[e], n)
      BY DEF TracksExternalPositions, IsExternalPositionModule
    <2>1. CASE e = c
      BY <1>5, <1>10, <1>13, <2>1 DEF TracksExternalPositions, IsExternalPositionModule
    <2>2. CASE e # c
      BY <1>10, <1>13, <2>2 DEF TracksExternalPositions, IsExternalPositionModule
    <2> QED BY <2>1, <2>2
  <1> QED BY <1>9, <1>12, <1>14 DEF new

\* Removing one entry empties exactly the arrays of one entry.
LEMMA OneFewer ==
    ASSUME NEW n \in Nat, n > 0, NEW k, k = n - 1
    PROVE  k > 0 <=> n # 1
  BY SMT

\* Closing an external position, and the component with its last position.
LEMMA CloseTracks ==
    ASSUME NEW st, Unscaled(st), TracksComponents(st), TracksExternalPositions(st),
           NEW c \in Components, NEW m \in Modules
    PROVE  LET new == CloseExternalPosition(st, c, m) IN
           Unscaled(new) /\ TracksComponents(new) /\ TracksExternalPositions(new)
  <1> DEFINE A      == st.externalPositionModules[c]
             before == IF IsLastPosition(st, c) THEN RemoveComponent(st, c) ELSE st
             new    == RemoveExternalPositionModule(before, c, m)
  <1>1. st \in Storage /\ ~HasDuplicate(st.components) /\ st.virtualUnit[c] \in Nat
    BY UnscaledUnits DEF Unscaled, TracksComponents
  <1>2. A \in Seq(Modules) /\ ~HasDuplicate(A)
    BY <1>1, StorageFields DEF TracksExternalPositions
  <1>3. CASE ExternalPositionRealUnit(st, c, m) = 0
    BY <1>3 DEF CloseExternalPosition
  <1>4. CASE ExternalPositionRealUnit(st, c, m) # 0
    <2>1. Contains(A, m)
      BY <1>4, UnscaledUnits DEF TracksExternalPositions, IsExternalPositionModule
    <2>2. Len(A) \in Nat /\ Len(A) > 0 /\ IsComponent(st, c)
      BY <1>2, <2>1, LenProperties, LenPositive DEF TracksComponents, HasExternalPosition
    <2>3. IsLastPosition(st, c) <=> st.virtualUnit[c] = 0 /\ Len(A) = 1
      BY UnscaledUnits DEF IsLastPosition
    <2>4. /\ before \in Storage
          /\ ~HasDuplicate(before.components)
          /\ \A e \in Components :
                IsComponent(before, e) <=> IsComponent(st, e) /\ ~(e = c /\ IsLastPosition(st, c))
      <3>1. CASE IsLastPosition(st, c)
        BY <1>1, <2>2, <3>1, RemoveComponentType, RemovedComponent DEF CanRemoveComponent
      <3>2. CASE ~IsLastPosition(st, c)
        BY <1>1, <3>2
      <3> QED BY <3>1, <3>2
    <2>5. /\ before.virtualUnit = st.virtualUnit
          /\ before.positionMultiplier = st.positionMultiplier
          /\ before.externalPositionModules = st.externalPositionModules
          /\ before.externalVirtualUnit = st.externalVirtualUnit
          /\ before.externalData = st.externalData
      BY <1>1 DEF RemoveComponent, Storage
    <2> HIDE DEF before
    <2>6. new \in Storage
      BY <2>1, <2>4, <2>5, RemoveExternalPositionModuleType
         DEF CanRemoveExternalPositionModule, IsExternalPositionModule
    <2>7. /\ new.externalPositionModules = [st.externalPositionModules EXCEPT ![c] = Remove(A, m)]
          /\ new.externalVirtualUnit = [st.externalVirtualUnit EXCEPT ![c][m] = 0]
          /\ new.externalData = [st.externalData EXCEPT ![c][m] = NoData]
          /\ new.components = before.components
          /\ new.virtualUnit = st.virtualUnit
          /\ new.positionMultiplier = st.positionMultiplier
      BY <2>4, <2>5 DEF RemoveExternalPositionModule, Storage
    <2> HIDE DEF new
    <2>8. /\ Remove(A, m) \in Seq(Modules) /\ Len(Remove(A, m)) = Len(A) - 1
          /\ ~HasDuplicate(Remove(A, m))
          /\ \A n \in Modules : Contains(Remove(A, m), n) <=> Contains(A, n) /\ n # m
      <3>1. Len(Remove(A, m)) = Len(A) - 1
        BY <1>2, <2>1, IndexOfProperties, PopProperties DEF Remove
      <3> QED BY <1>2, <2>1, <3>1, RemoveType, RemoveProperties, ContainsElements
    <2>9. \A e \in Components : new.externalPositionModules[e] =
                                IF e = c THEN Remove(A, m) ELSE st.externalPositionModules[e]
      BY <1>1, <2>7, StorageFields
    <2>10. Unscaled(new)
      BY <2>6, <2>7 DEF Unscaled
    <2>11. TracksComponents(new)
      <3>1. Len(Remove(A, m)) > 0 <=> Len(A) # 1
        BY <2>2, <2>8, OneFewer
      <3>2. \A e \in Components : IsComponent(new, e)
                <=> IsComponent(st, e) /\ ~(e = c /\ IsLastPosition(st, c))
        BY <2>4, <2>7 DEF IsComponent
      <3>3. IsComponent(new, c) <=> new.virtualUnit[c] > 0 \/ HasExternalPosition(new, c)
        BY <1>1, <2>2, <2>3, <2>7, <2>9, <3>1, <3>2, SMT DEF HasExternalPosition
      <3>4. ASSUME NEW e \in Components, e # c
            PROVE  IsComponent(new, e) <=> new.virtualUnit[e] > 0 \/ HasExternalPosition(new, e)
        BY <2>7, <2>9, <3>2, <3>4 DEF TracksComponents, HasExternalPosition
      <3>5. ~HasDuplicate(new.components)
        BY <2>4, <2>7
      <3> QED BY <3>3, <3>4, <3>5 DEF TracksComponents
    <2>12. \A e \in Components, n \in Modules :
              /\ new.externalVirtualUnit[e][n] =
                  IF e = c /\ n = m THEN 0 ELSE st.externalVirtualUnit[e][n]
              /\ new.externalData[e][n] =
                  IF e = c /\ n = m THEN NoData ELSE st.externalData[e][n]
      BY <1>1, <2>7, StorageFields
    <2>13. TracksExternalPositions(new)
      <3> SUFFICES ASSUME NEW e \in Components
                   PROVE  /\ ~HasDuplicate(new.externalPositionModules[e])
                          /\ \A n \in Modules :
                              /\ Contains(new.externalPositionModules[e], n)
                                      <=> new.externalVirtualUnit[e][n] # 0
                              /\ new.externalData[e][n] # NoData
                                      => Contains(new.externalPositionModules[e], n)
        BY DEF TracksExternalPositions, IsExternalPositionModule
      <3>1. CASE e = c
        BY <2>8, <2>9, <2>12, <3>1 DEF TracksExternalPositions, IsExternalPositionModule
      <3>2. CASE e # c
        BY <2>9, <2>12, <3>2 DEF TracksExternalPositions, IsExternalPositionModule
      <3> QED BY <3>1, <3>2
    <2>14. CloseExternalPosition(st, c, m) = new
      BY <1>4 DEF CloseExternalPosition, new, before
    <2> QED BY <2>10, <2>11, <2>13, <2>14
  <1> QED BY <1>3, <1>4

-----------------------------------------------------------------------------
(* The machine *)

IInv == Unscaled(storage) /\ ComponentsTracked /\ ExternalPositionsTracked

LEMMA InitIInv == Init => IInv
  <1> SUFFICES ASSUME Init PROVE IInv
    OBVIOUS
  <1>1. InitialUnits \in [Components -> Int] /\ storage = InitialStorage(InitialComponents, InitialUnits)
    BY CreationAssumption DEF Init
  <1>2. storage \in Storage
    BY <1>1, InitialStorageType, CreationAssumption
  <1>3. Len(<< >>) = 0 /\ DOMAIN << >> = {}
    <2>1. << >> \in Seq(Modules) /\ Len(<< >>) = 0
      BY EmptySeq
    <2> QED BY <2>1, LenProperties, SMT
  <1>4. Unscaled(storage)
    BY <1>1, <1>2, CreationAssumption DEF Unscaled, InitialStorage
  <1>5. TracksComponents(storage)
    BY <1>1, <1>3, CreationAssumption
       DEF TracksComponents, InitialStorage, IsComponent, HasExternalPosition
  <1>6. TracksExternalPositions(storage)
    BY <1>1, <1>3 DEF TracksExternalPositions, InitialStorage, IsExternalPositionModule,
                      HasDuplicate, Contains
  <1> QED BY <1>4, <1>5, <1>6 DEF IInv, ComponentsTracked, ExternalPositionsTracked

LEMMA NextIInv ==
    ASSUME Multipliers \subseteq {PRECISE_UNIT}
    PROVE  IInv /\ [Next]_storage => IInv'
  <1> SUFFICES ASSUME IInv, [Next]_storage PROVE IInv'
    OBVIOUS
  <1> USE DEF IInv, ComponentsTracked, ExternalPositionsTracked
  <1>1. ASSUME NEW c \in Components, NEW u \in DefaultUnits, CallEditDefaultPosition(c, u)
        PROVE  IInv'
    <2>1. u \in Nat
      BY InputAssumption
    <2>2. /\ Unscaled(storage') /\ TracksComponents(storage')
          /\ storage'.externalPositionModules = storage.externalPositionModules
          /\ storage'.externalVirtualUnit = storage.externalVirtualUnit
          /\ storage'.externalData = storage.externalData
      BY <1>1, <2>1, EditDefaultPositionTracks DEF CallEditDefaultPosition
    <2> QED BY <2>2 DEF TracksExternalPositions, IsExternalPositionModule
  <1>2. ASSUME NEW c \in Components, NEW m \in Modules, NEW u \in ExternalUnits,
               NEW data \in Data, CallEditExternalPosition(m, c, u, data)
        PROVE  IInv'
    <2>1. u \in Int
      BY InputAssumption
    <2>2. CASE u # 0
      BY <1>2, <2>1, <2>2, OpenTracks DEF CallEditExternalPosition, EditExternalPosition
    <2>3. CASE u = 0
      BY <1>2, <2>3, CloseTracks DEF CallEditExternalPosition, EditExternalPosition
    <2> QED BY <2>2, <2>3
  <1>3. ASSUME NEW x \in Multipliers, CallEditPositionMultiplier(x)
        PROVE  IInv'
    <2>1. storage' = storage
      BY <1>3 DEF CallEditPositionMultiplier, EditPositionMultiplier, Unscaled, Storage
    <2> QED BY <2>1
  <1>4. CASE UNCHANGED storage
    BY <1>4
  <1> QED BY <1>1, <1>2, <1>3, <1>4 DEF Next

\* Without fees, each component is listed once and exactly while it has a
\* default or an external position, whatever the modules do.
THEOREM ComponentsAlwaysTracked ==
    ASSUME Multipliers \subseteq {PRECISE_UNIT}
    PROVE  Spec => []ComponentsTracked
  <1>1. IInv => ComponentsTracked
    BY DEF IInv
  <1> QED BY <1>1, InitIInv, NextIInv, PTL DEF Spec

\* Without fees, a component's external module array, units and data agree.
THEOREM ExternalPositionsAlwaysTracked ==
    ASSUME Multipliers \subseteq {PRECISE_UNIT}
    PROVE  Spec => []ExternalPositionsTracked
  <1>1. IInv => ExternalPositionsTracked
    BY DEF IInv
  <1> QED BY <1>1, InitIInv, NextIInv, PTL DEF Spec

\* With any multipliers: no library call breaks the types.
LEMMA NextType == TypeOK /\ [Next]_storage => TypeOK'
  <1> SUFFICES ASSUME TypeOK, [Next]_storage PROVE TypeOK'
    OBVIOUS
  <1> USE DEF TypeOK
  <1>1. ASSUME NEW c \in Components, NEW u \in DefaultUnits, CallEditDefaultPosition(c, u)
        PROVE  TypeOK'
    <2>1. u \in Int
      BY InputAssumption
    <2> QED BY <1>1, <2>1, EditDefaultPositionType DEF CallEditDefaultPosition
  <1>2. ASSUME NEW c \in Components, NEW m \in Modules, NEW u \in ExternalUnits,
               NEW data \in Data, CallEditExternalPosition(m, c, u, data)
        PROVE  TypeOK'
    <2>1. u \in Int
      BY InputAssumption
    <2>2. CASE u # 0
      <3> DEFINE listed     == IF IsComponent(storage, c) THEN storage ELSE AddComponent(storage, c)
                 registered == IF IsComponent(storage, c) /\ IsExternalPositionModule(storage, c, m)
                                 THEN listed ELSE AddExternalPositionModule(listed, c, m)
                 edited     == EditExternalPositionUnit(registered, c, m, u)
      <3>1. listed \in Storage
        BY AddComponentType
      <3>2. registered \in Storage
        BY <3>1, AddExternalPositionModuleType
      <3>3. edited \in Storage
        BY <2>1, <3>2, EditExternalPositionUnitType
      <3>4. EditExternalPositionData(edited, c, m, data) \in Storage
        BY <3>3, EditExternalPositionDataType
      <3>5. storage' = EditExternalPositionData(edited, c, m, data)
        BY <1>2, <2>2 DEF CallEditExternalPosition, EditExternalPosition, OpenExternalPosition
      <3> QED BY <3>4, <3>5
    <2>3. CASE u = 0
      <3> DEFINE before == IF IsLastPosition(storage, c) THEN RemoveComponent(storage, c) ELSE storage
      <3>1. /\ storage' = CloseExternalPosition(storage, c, m)
            /\ CanCloseExternalPosition(storage, c, m)
        BY <1>2, <2>3 DEF CallEditExternalPosition, CanEditExternalPosition, EditExternalPosition
      <3>2. CASE ExternalPositionRealUnit(storage, c, m) = 0
        BY <3>1, <3>2 DEF CloseExternalPosition
      <3>3. CASE ExternalPositionRealUnit(storage, c, m) # 0
        <4>1. before \in Storage
          BY <3>1, <3>3, RemoveComponentType DEF CanCloseExternalPosition
        <4>2. before.externalPositionModules = storage.externalPositionModules
          BY DEF RemoveComponent, Storage
        <4>3. CanRemoveExternalPositionModule(before, c, m)
          BY <3>1, <3>3, <4>2
             DEF CanCloseExternalPosition, CanRemoveExternalPositionModule, IsExternalPositionModule
        <4>4. RemoveExternalPositionModule(before, c, m) \in Storage
          BY <4>1, <4>3, RemoveExternalPositionModuleType
        <4> QED BY <3>1, <3>3, <4>4 DEF CloseExternalPosition
      <3> QED BY <3>2, <3>3
    <2> QED BY <2>2, <2>3
  <1>3. ASSUME NEW x \in Multipliers, CallEditPositionMultiplier(x)
        PROVE  TypeOK'
    <2>1. x \in Nat /\ CanEditPositionMultiplier(x)
      BY InputAssumption, SMT DEF CanEditPositionMultiplier
    <2> QED BY <1>3, <2>1, EditPositionMultiplierType DEF CallEditPositionMultiplier
  <1>4. CASE UNCHANGED storage
    BY <1>4
  <1> QED BY <1>1, <1>2, <1>3, <1>4 DEF Next

\* Every sequence of library calls, under fees too, keeps a multiplier that is
\* positive, arrays of components and modules, and a unit for each.
THEOREM TypeCorrect == Spec => []TypeOK
  <1>1. Init => TypeOK
    BY InitIInv DEF IInv, Unscaled, TypeOK
  <1> QED BY <1>1, NextType, PTL DEF Spec
==============================================================================
