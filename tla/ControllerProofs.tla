-------------------------- MODULE ControllerProofs ---------------------------
(***************************************************************************)
(* The Controller's arrays and flags agree, for every set of addresses and *)
(* whatever arrays initialize was given.  The argument is per registry:    *)
(* Consistent is kept by enlisting and by delisting, and every call does   *)
(* one of the two to one registry.  PositionProofs holds the lemmas about  *)
(* arrays.                                                                 *)
(***************************************************************************)
EXTENDS Controller, PositionProofs

Consistent(r) == r \in Registry /\ r.enabled \subseteq Elements(r.list)

IInv ==
    /\ Consistent(sets) /\ Consistent(factories)
    /\ Consistent(modules) /\ Consistent(resources)
    /\ resourceId \in [ResourceIds -> Addresses]
    /\ fees \in [Addresses -> [FeeTypes -> Nat]]
    /\ feeRecipient \in Addresses
    /\ isInitialized \in BOOLEAN
    /\ ~isInitialized => \A r \in {sets, factories, modules, resources} : r.enabled = {}

LEMMA ConsistentEnabling ==
    ASSUME NEW list \in Seq(Addresses)
    PROVE  Consistent(Enabling(list))
  <1>1. Elements(list) \subseteq Addresses
    BY LenProperties, ElementOfSeq DEF Elements
  <1> QED BY <1>1 DEF Consistent, Enabling, Registry

LEMMA ConsistentEnlist ==
    ASSUME NEW r, Consistent(r), NEW a \in Addresses
    PROVE  Consistent(Enlist(r, a))
  <1>1. r.list \in Seq(Addresses) /\ r.enabled \subseteq Addresses
    BY DEF Consistent, Registry
  <1>2. /\ Append(r.list, a) \in Seq(Addresses)
        /\ Elements(Append(r.list, a)) = Elements(r.list) \cup {a}
    BY <1>1, PushProperties
  <1> QED BY <1>1, <1>2 DEF Consistent, Enlist, Registry

LEMMA ConsistentDelist ==
    ASSUME NEW r, Consistent(r), NEW a, CanDelist(r, a)
    PROVE  Consistent(Delist(r, a))
  <1>1. r.list \in Seq(Addresses) /\ r.enabled \subseteq Addresses
    BY DEF Consistent, Registry
  <1>2. /\ Remove(r.list, a) \in Seq(Addresses)
        /\ Elements(r.list) \ {a} \subseteq Elements(Remove(r.list, a))
    BY <1>1, RemoveType, RemoveKeepsOthers DEF CanDelist
  <1> QED BY <1>1, <1>2 DEF Consistent, Delist, Registry

\* The arrays that initialize is given are arrays of addresses.
LEMMA ListsType ==
    ASSUME NEW S, NEW T, T \subseteq S, NEW list \in Lists(T)
    PROVE  list \in Seq(S)
  <1>1. PICK n \in 0 .. MaxInitial : list \in [1 .. n -> T]
    BY DEF Lists
  <1>2. n \in Nat /\ list \in [1 .. n -> S]
    BY <1>1, ControllerBounds
  <1> QED BY <1>2, SeqDef

LEMMA IInvImplies == IInv => TypeOK
  BY DEF IInv, TypeOK, Consistent

LEMMA InitIInv == Init => IInv
  <1> SUFFICES ASSUME Init PROVE IInv
    OBVIOUS
  <1>1. Consistent(EmptyRegistry)
    <2>1. << >> \in Seq(Addresses)
      BY EmptySeq
    <2> QED BY <2>1 DEF Consistent, EmptyRegistry, Registry
  <1>2. Consistent(sets) /\ Consistent(factories) /\ Consistent(modules) /\ Consistent(resources)
    BY <1>1 DEF Init
  <1>3. resourceId \in [ResourceIds -> Addresses] /\ feeRecipient \in Addresses
    BY AddressAssumption DEF Init
  <1>4. fees \in [Addresses -> [FeeTypes -> Nat]] /\ isInitialized \in BOOLEAN
    BY DEF Init
  <1>5. \A r \in {sets, factories, modules, resources} : r.enabled = {}
    BY DEF Init, EmptyRegistry
  <1> QED BY <1>2, <1>3, <1>4, <1>5 DEF IInv

LEMMA InitializeStep ==
    ASSUME IInv, FirstCall
    PROVE  IInv'
  <1>1. PICK f \in Lists(Factories \ {NoAddress}), m \in Lists(ModuleAddresses \ {NoAddress}),
             r \in ResourceLists : Initialize(f, m, r[1], r[2])
    BY DEF FirstCall
  <1>2. PICK list \in Lists(Resources \ {NoAddress}), ids \in Lists(ResourceIds) :
            r = <<list, ids>> /\ Len(list) = Len(ids)
    BY DEF ResourceLists
  <1>3. f \in Seq(Addresses) /\ m \in Seq(Addresses) /\ list \in Seq(Addresses)
    BY ListsType, AddressAssumption
  <1>4. ids \in Seq(ResourceIds)
    BY ListsType
  <1>5. Initialize(f, m, list, ids)
    BY <1>1, <1>2
  <1>6. \A id \in ResourceIds : Contains(ids, id) => list[IndexOf(ids, id)] \in Addresses
    BY <1>2, <1>3, <1>4, IndexOfProperties, ElementOfSeq
  <1>7. resourceId' \in [ResourceIds -> Addresses]
    BY <1>5, <1>6, AddressAssumption DEF Initialize
  <1> QED BY <1>3, <1>5, <1>7, ConsistentEnabling DEF Initialize, IInv

LEMMA RegistryStep ==
    ASSUME IInv, RegistryCall
    PROVE  IInv'
  <1> USE AddressAssumption DEF IInv
  <1>1. CASE \E s \in SetTokens, caller \in Factories : AddSet(caller, s)
    BY <1>1, ConsistentEnlist DEF AddSet
  <1>2. CASE \E s \in SetTokens : RemoveSet(s)
    BY <1>2, ConsistentDelist DEF RemoveSet
  <1>3. CASE \E f \in Factories : AddFactory(f)
    BY <1>3, ConsistentEnlist DEF AddFactory
  <1>4. CASE \E f \in Factories : RemoveFactory(f)
    BY <1>4, ConsistentDelist DEF RemoveFactory
  <1>5. CASE \E m \in ModuleAddresses : AddModule(m)
    BY <1>5, ConsistentEnlist DEF AddModule
  <1>6. CASE \E m \in ModuleAddresses : RemoveModule(m)
    BY <1>6, ConsistentDelist DEF RemoveModule
  <1>7. CASE \E id \in ResourceIds, r \in Resources : AddResource(r, id)
    BY <1>7, ConsistentEnlist DEF AddResource
  <1>8. CASE \E id \in ResourceIds : RemoveResource(id)
    BY <1>8, ConsistentDelist DEF RemoveResource
  <1> QED BY <1>1, <1>2, <1>3, <1>4, <1>5, <1>6, <1>7, <1>8 DEF RegistryCall

LEMMA FeeStep ==
    ASSUME IInv, FeeCall
    PROVE  IInv'
  <1>1. CASE \E a \in Addresses : EditFeeRecipient(a)
    BY <1>1 DEF IInv, EditFeeRecipient, registries
  <1>2. CASE \E m \in ModuleAddresses, t \in FeeTypes, p \in FeePercentages : SetFee(m, t, p)
    BY <1>2, AddressAssumption, ControllerBounds DEF IInv, SetFee, registries
  <1> QED BY <1>1, <1>2 DEF FeeCall, AddFee, EditFee

LEMMA NextIInv == IInv /\ [Next]_vars => IInv'
  <1> SUFFICES ASSUME IInv, [Next]_vars PROVE IInv'
    OBVIOUS
  <1>1. CASE UNCHANGED vars
    BY <1>1 DEF vars, registries, IInv
  <1> QED BY <1>1, InitializeStep, RegistryStep, FeeStep DEF Next

\* The registries, IDs and fees keep their types whatever the owner's calls.
THEOREM TypeCorrect == Spec => []TypeOK
  <1> QED BY IInvImplies, InitIInv, NextIInv, PTL DEF Spec

-----------------------------------------------------------------------------
(* The resource array and the resource IDs *)

IdsOf(a) == {id \in ResourceIds : resourceId[id] = a}

LEMMA IdsFinite == \A a : IsFiniteSet(IdsOf(a)) /\ Cardinality(IdsOf(a)) \in Nat
  <1> SUFFICES ASSUME NEW a PROVE IsFiniteSet(IdsOf(a)) /\ Cardinality(IdsOf(a)) \in Nat
    OBVIOUS
  <1>1. IsFiniteSet(IdsOf(a))
    BY ResourceIdAssumption, FS_Subset DEF IdsOf
  <1> QED BY <1>1, FS_CardinalityType

\* initialize pairs the resources that it lists with distinct IDs.
LEMMA InitializeListed ==
    ASSUME FirstCall
    PROVE  ResourcesListedPerId'
  <1>1. PICK f \in Lists(Factories \ {NoAddress}), m \in Lists(ModuleAddresses \ {NoAddress}),
             r \in ResourceLists : Initialize(f, m, r[1], r[2])
    BY DEF FirstCall
  <1>2. PICK list \in Lists(Resources \ {NoAddress}), ids \in Lists(ResourceIds) :
            r = <<list, ids>> /\ Len(list) = Len(ids) /\ ~HasDuplicate(ids)
    BY <1>1 DEF ResourceLists
  <1>3. list \in Seq(Addresses) /\ ids \in Seq(ResourceIds)
    BY ListsType, AddressAssumption
  <1>4. /\ resources'.list = list
        /\ resourceId' = [id \in ResourceIds |->
                IF Contains(ids, id) THEN list[IndexOf(ids, id)] ELSE NoAddress]
    BY <1>1, <1>2 DEF Initialize, Enabling
  <1>5. /\ DOMAIN list = 1 .. Len(ids) /\ DOMAIN ids = 1 .. Len(ids) /\ Len(ids) \in Nat
        /\ \A i \in 1 .. Len(ids) : ids[i] \in ResourceIds
    BY <1>2, <1>3, LenProperties, ElementOfSeq
  <1>6. \A i \in 1 .. Len(ids) : Contains(ids, ids[i]) /\ IndexOf(ids, ids[i]) = i
    <2> SUFFICES ASSUME NEW i \in 1 .. Len(ids)
                 PROVE  Contains(ids, ids[i]) /\ IndexOf(ids, ids[i]) = i
      OBVIOUS
    <2>1. Contains(ids, ids[i])
      BY <1>5 DEF Contains
    <2>2. IndexOf(ids, ids[i]) \in 1 .. Len(ids) /\ ids[IndexOf(ids, ids[i])] = ids[i]
      BY <1>3, <2>1, IndexOfProperties
    <2> DEFINE k == IndexOf(ids, ids[i])
    <2> HIDE DEF k
    <2>3. ~(k < i) /\ ~(i < k)
      BY <1>2, <1>5, <2>2 DEF HasDuplicate, k
    <2>4. k = i
      BY <1>5, <2>2, <2>3, SMT DEF k
    <2> QED BY <2>1, <2>4 DEF k
  <1> SUFFICES ASSUME NEW a \in Addresses \ {NoAddress}
               PROVE  Occurrences(list, a) = Cardinality({id \in ResourceIds : resourceId'[id] = a})
    BY <1>4 DEF ResourcesListedPerId
  <1> DEFINE T == {i \in DOMAIN list : list[i] = a}
             U == {id \in ResourceIds : resourceId'[id] = a}
             g == [i \in T |-> ids[i]]
  <1>7. \A i \in T : g[i] \in U
    BY <1>4, <1>5, <1>6
  <1>8. g \in [T -> U]
    BY <1>7
  <1>9. \A i, j \in T : g[i] = g[j] => i = j
    BY <1>5, <1>6
  <1>10. \A id \in U : \E i \in T : g[i] = id
    <2> SUFFICES ASSUME NEW id \in U PROVE \E i \in T : g[i] = id
      OBVIOUS
    <2>1. Contains(ids, id) /\ list[IndexOf(ids, id)] = a
      BY <1>4
    <2>2. IndexOf(ids, id) \in 1 .. Len(ids) /\ ids[IndexOf(ids, id)] = id
      BY <1>3, <2>1, IndexOfProperties
    <2>3. IndexOf(ids, id) \in T /\ g[IndexOf(ids, id)] = id
      BY <1>5, <2>1, <2>2
    <2> QED BY <2>3
  <1>11. IsFiniteSet(T)
    BY <1>3, OccurrencesFinite
  <1> HIDE DEF g, T, U
  <1>12. Cardinality(U) = Cardinality(T)
    BY <1>8, <1>9, <1>10, <1>11, SameSize
  <1> QED BY <1>12 DEF Occurrences, T, U

LEMMA AddResourceListed ==
    ASSUME IInv, ResourcesListedPerId, NEW r \in Resources, NEW id \in ResourceIds,
           AddResource(r, id)
    PROVE  ResourcesListedPerId'
  <1>1. /\ resources.list \in Seq(Addresses) /\ r \in Addresses
        /\ resources'.list = Append(resources.list, r)
        /\ resourceId \in [ResourceIds -> Addresses] /\ resourceId[id] = NoAddress
        /\ resourceId' = [resourceId EXCEPT ![id] = r]
    BY AddressAssumption DEF IInv, Consistent, Registry, AddResource, Enlist
  <1> SUFFICES ASSUME NEW a \in Addresses \ {NoAddress}
               PROVE  Occurrences(resources'.list, a) = Cardinality(IdsOf(a)')
    BY DEF ResourcesListedPerId, IdsOf
  <1>2. Occurrences(resources.list, a) = Cardinality(IdsOf(a))
    BY DEF ResourcesListedPerId, IdsOf
  <1>3. Occurrences(resources'.list, a)
            = Occurrences(resources.list, a) + (IF r = a THEN 1 ELSE 0)
    BY <1>1, OccurrencesAppend
  <1>4. CASE r = a
    <2>1. IdsOf(a)' = IdsOf(a) \cup {id} /\ id \notin IdsOf(a)
      BY <1>1, <1>4 DEF IdsOf
    <2>2. Cardinality(IdsOf(a)') = Cardinality(IdsOf(a)) + 1
      BY <2>1, IdsFinite, FS_AddElement
    <2> QED BY <1>2, <1>3, <1>4, <2>2
  <1>5. CASE r # a
    <2>1. IdsOf(a)' = IdsOf(a)
      BY <1>1, <1>5 DEF IdsOf
    <2>2. Cardinality(IdsOf(a)) \in Nat
      BY IdsFinite
    <2> QED BY <1>2, <1>3, <1>5, <2>1, <2>2
  <1> QED BY <1>4, <1>5

LEMMA RemoveResourceListed ==
    ASSUME IInv, ResourcesListedPerId, NEW id \in ResourceIds, RemoveResource(id)
    PROVE  ResourcesListedPerId'
  <1> DEFINE r == resourceId[id]
  <1>1. /\ resources.list \in Seq(Addresses) /\ Contains(resources.list, r)
        /\ resources'.list = Remove(resources.list, r)
        /\ resourceId \in [ResourceIds -> Addresses]
        /\ resourceId' = [resourceId EXCEPT ![id] = NoAddress]
    BY DEF IInv, Consistent, Registry, RemoveResource, CanDelist, Delist
  <1> SUFFICES ASSUME NEW a \in Addresses \ {NoAddress}
               PROVE  Occurrences(resources'.list, a) = Cardinality(IdsOf(a)')
    BY DEF ResourcesListedPerId, IdsOf
  <1>2. Occurrences(resources.list, a) = Cardinality(IdsOf(a))
    BY DEF ResourcesListedPerId, IdsOf
  <1>3. Occurrences(resources'.list, a)
            = Occurrences(resources.list, a) - (IF r = a THEN 1 ELSE 0)
    BY <1>1, OccurrencesRemove
  <1>4. CASE r = a
    <2>1. IdsOf(a)' = IdsOf(a) \ {id} /\ id \in IdsOf(a)
      BY <1>1, <1>4 DEF IdsOf
    <2>2. Cardinality(IdsOf(a)') = Cardinality(IdsOf(a)) - 1
      BY <2>1, IdsFinite, FS_RemoveElement
    <2> QED BY <1>2, <1>3, <1>4, <2>2
  <1>5. CASE r # a
    <2>1. IdsOf(a)' = IdsOf(a)
      BY <1>1, <1>5 DEF IdsOf
    <2>2. Cardinality(IdsOf(a)) \in Nat
      BY IdsFinite
    <2> QED BY <1>2, <1>3, <1>5, <2>1, <2>2
  <1> QED BY <1>4, <1>5

LEMMA NextListed ==
    ASSUME IInv, ResourcesListedPerId, [Next]_vars
    PROVE  ResourcesListedPerId'
  <1>1. CASE UNCHANGED <<resources, resourceId>>
    BY <1>1 DEF ResourcesListedPerId
  <1>2. CASE UNCHANGED vars
    BY <1>1, <1>2 DEF vars, registries
  <1>3. CASE FeeCall
    BY <1>1, <1>3 DEF FeeCall, EditFeeRecipient, AddFee, EditFee, SetFee, registries
  <1>4. CASE RegistryCall
    <2>1. CASE \E id \in ResourceIds, r \in Resources : AddResource(r, id)
      BY <2>1, AddResourceListed
    <2>2. CASE \E id \in ResourceIds : RemoveResource(id)
      BY <2>2, RemoveResourceListed
    <2> QED BY <1>1, <1>4, <2>1, <2>2
            DEF RegistryCall, AddSet, RemoveSet, AddFactory, RemoveFactory, AddModule, RemoveModule
  <1> QED BY <1>2, <1>3, <1>4, InitializeListed DEF Next

\* The array of resources and the ID mapping count the same: no ID resolves to a
\* delisted resource, so removeResource finds what it is asked to remove.
THEOREM ResourcesAlwaysListedPerId == Spec => []ResourcesListedPerId
  <1>1. Init => ResourcesListedPerId
    <2> SUFFICES ASSUME Init, NEW a \in Addresses \ {NoAddress}
                 PROVE  Occurrences(resources.list, a) = Cardinality(IdsOf(a))
      BY DEF ResourcesListedPerId, IdsOf
    <2>1. resources.list = << >> /\ IdsOf(a) = {}
      BY DEF Init, EmptyRegistry, IdsOf
    <2>2. << >> \in Seq(Addresses) /\ ~HasDuplicate(<< >>) /\ ~Contains(<< >>, a)
      BY EmptySeq, LenProperties DEF HasDuplicate, Contains
    <2> QED BY <2>1, <2>2, OccurrencesUnique, FS_EmptySet
  <1>2. IInv /\ ResourcesListedPerId /\ [Next]_vars => ResourcesListedPerId'
    BY NextListed
  <1> QED BY <1>1, <1>2, InitIInv, NextIInv, PTL DEF Spec

\* What is listed has an ID, and what is enabled is listed.
LEMMA ListedCanBeRemoved ==
    ASSUME IInv, ResourcesListedPerId
    PROVE  EnabledCanBeRemoved
  <1>1. ASSUME NEW r \in {sets, factories, modules, resources}, NEW a \in r.enabled
        PROVE  isInitialized /\ CanDelist(r, a)
    <2>1. r.list \in Seq(Addresses) /\ a \in Elements(r.list) /\ isInitialized
      BY <1>1 DEF IInv, Consistent, Registry
    <2> QED BY <2>1, ContainsElements DEF CanDelist
  <1>2. ASSUME NEW a \in resources.enabled \ {NoAddress}
        PROVE  \E id \in ResourceIds : resourceId[id] = a
    <2>1. resources.list \in Seq(Addresses) /\ Contains(resources.list, a) /\ a \in Addresses
      BY <1>1 DEF CanDelist, IInv, Consistent, Registry
    <2>2. IsFiniteSet({i \in DOMAIN resources.list : resources.list[i] = a})
      BY <2>1, OccurrencesFinite
    <2>3. Occurrences(resources.list, a) # 0
      <3> DEFINE T == {i \in DOMAIN resources.list : resources.list[i] = a}
      <3>1. T # {}
        BY <2>1 DEF Contains
      <3>2. IsFiniteSet(T)
        BY <2>2
      <3> HIDE DEF T
      <3>3. Cardinality(T) # 0
        BY <3>1, <3>2, FS_EmptySet
      <3> QED BY <3>3 DEF Occurrences, T
    <2>4. Cardinality(IdsOf(a)) # 0
      BY <2>1, <2>3 DEF ResourcesListedPerId, IdsOf
    <2>5. IdsOf(a) # {}
      BY <2>4, FS_EmptySet
    <2> QED BY <2>5 DEF IdsOf
  <1> QED BY <1>1, <1>2 DEF EnabledCanBeRemoved

\* Every enabled SetToken, factory and module, and every enabled resource but
\* address(0), passes all the checks of its removal, also after initialize was given
\* duplicates.
THEOREM EnabledCanAlwaysBeRemoved == Spec => []EnabledCanBeRemoved
  <1>1. IInv /\ ResourcesListedPerId => EnabledCanBeRemoved
    BY ListedCanBeRemoved
  <1> QED BY <1>1, InitIInv, NextIInv, ResourcesAlwaysListedPerId, PTL DEF Spec

\* An enabled resource address(0) survives every call.
LEMMA NextNullResource ==
    ASSUME IInv, Next
    PROVE  NullResourceKept
  <1> SUFFICES ASSUME NoAddress \in resources.enabled
               PROVE  NoAddress \in resources'.enabled /\ Contains(resources'.list, NoAddress)
    BY DEF NullResourceKept
  <1>1. /\ resources.list \in Seq(Addresses) /\ resources.enabled \subseteq Addresses
        /\ NoAddress \in Elements(resources.list) /\ isInitialized
    BY DEF IInv, Consistent, Registry
  <1>2. Contains(resources.list, NoAddress)
    BY <1>1, ContainsElements
  <1>3. CASE resources' = resources
    BY <1>2, <1>3
  <1>4. ASSUME NEW r \in Resources, NEW id \in ResourceIds, AddResource(r, id)
        PROVE  NoAddress \in resources'.enabled /\ Contains(resources'.list, NoAddress)
    <2>1. /\ resources'.enabled = resources.enabled \cup {r} /\ r \in Addresses
          /\ resources'.list = Append(resources.list, r)
      BY <1>4, AddressAssumption DEF AddResource, Enlist
    <2>2. /\ resources'.list \in Seq(Addresses)
          /\ Elements(resources'.list) = Elements(resources.list) \cup {r}
      BY <1>1, <2>1, PushProperties
    <2> QED BY <1>1, <2>1, <2>2, ContainsElements
  <1>5. ASSUME NEW id \in ResourceIds, RemoveResource(id)
        PROVE  NoAddress \in resources'.enabled /\ Contains(resources'.list, NoAddress)
    <2>1. /\ resourceId[id] # NoAddress /\ Contains(resources.list, resourceId[id])
          /\ resources'.enabled = resources.enabled \ {resourceId[id]}
          /\ resources'.list = Remove(resources.list, resourceId[id])
      BY <1>5 DEF RemoveResource, CanDelist, Delist
    <2>2. /\ resources'.list \in Seq(Addresses)
          /\ Elements(resources.list) \ {resourceId[id]} \subseteq Elements(resources'.list)
      BY <1>1, <2>1, RemoveType, RemoveKeepsOthers
    <2> QED BY <1>1, <2>1, <2>2, ContainsElements
  <1>6. CASE FirstCall
    BY <1>1, <1>6 DEF FirstCall, Initialize
  <1>7. CASE FeeCall
    BY <1>3, <1>7 DEF FeeCall, EditFeeRecipient, AddFee, EditFee, SetFee, registries
  <1>8. CASE RegistryCall
    BY <1>3, <1>4, <1>5, <1>8
       DEF RegistryCall, AddSet, RemoveSet, AddFactory, RemoveFactory, AddModule, RemoveModule
  <1> QED BY <1>6, <1>7, <1>8 DEF Next

\* No sequence of calls gets rid of the resource address(0).
THEOREM NullResourceAlwaysStays == Spec => NullResourceStays
  <1>1. IInv /\ [Next]_vars => [NullResourceKept]_vars
    BY NextNullResource
  <1> QED BY <1>1, InitIInv, NextIInv, PTL DEF Spec, NullResourceStays
==============================================================================
