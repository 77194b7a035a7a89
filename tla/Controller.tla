----------------------------- MODULE Controller ------------------------------
(***************************************************************************)
(* The protocol's registry (protocol/Controller.sol): which SetTokens,     *)
(* factories, modules and resources are part of the system, under which ID *)
(* a resource is found, and the modules' fees.  The owner, one account     *)
(* whose calls are serialized by the chain, makes every call but addSet.   *)
(* Each registry is an array with a mapping of flags beside it, which the  *)
(* code updates by hand.                                                   *)
(***************************************************************************)
EXTENDS AddressArrayUtils

CONSTANTS
    Addresses,
    NoAddress,      \* address(0), which only some calls refuse
    SetTokens,      \* addresses that calls pass in as SetTokens,
    Factories,      \* as factories,
    ModuleAddresses, \* as modules
    Resources,      \* and as resources
    ResourceIds,
    FeeTypes,
    FeePercentages, \* fees that the owner sets
    MaxInitial,     \* bound on the arrays given to initialize
    MaxLength       \* bound on the length of a registry's array

ASSUME AddressAssumption ==
    /\ NoAddress \in Addresses
    /\ SetTokens \cup Factories \cup ModuleAddresses \cup Resources \subseteq Addresses

\* IDs are 256-bit words.
ASSUME ResourceIdAssumption == IsFiniteSet(ResourceIds)

ASSUME ControllerBounds ==
    FeePercentages \subseteq Nat /\ MaxInitial \in Nat /\ MaxLength \in Nat

VARIABLES
    sets, factories, modules, resources,    \* the registries
    resourceId,                             \* ID |-> resource, or NoAddress
    fees,                                   \* module |-> fee type |-> percentage
    feeRecipient,
    isInitialized

registries == <<sets, factories, modules, resources, resourceId>>
vars == <<registries, fees, feeRecipient, isInitialized>>

-----------------------------------------------------------------------------
(* Registries *)

Registry == [list : Seq(Addresses), enabled : SUBSET Addresses]

EmptyRegistry == [list |-> << >>, enabled |-> {}]

\* initialize takes the array as it is, duplicates included.
Enabling(list) == [list |-> list, enabled |-> Elements(list)]

CanEnlist(r, a) == a \notin r.enabled /\ Len(r.list) < MaxLength

Enlist(r, a) == [list |-> Append(r.list, a), enabled |-> r.enabled \cup {a}]

\* AddressArrayUtils.remove reverts on an address that the array does not list.
CanDelist(r, a) == Contains(r.list, a)

\* One occurrence goes from the array; the flag goes in any case.
Delist(r, a) == [list |-> Remove(r.list, a), enabled |-> r.enabled \ {a}]

-----------------------------------------------------------------------------
TypeOK ==
    /\ {sets, factories, modules, resources} \subseteq Registry
    /\ resourceId \in [ResourceIds -> Addresses]
    /\ fees \in [Addresses -> [FeeTypes -> Nat]]
    /\ feeRecipient \in Addresses
    /\ isInitialized \in BOOLEAN

Init ==
    /\ sets = EmptyRegistry /\ factories = EmptyRegistry
    /\ modules = EmptyRegistry /\ resources = EmptyRegistry
    /\ resourceId = [id \in ResourceIds |-> NoAddress]
    /\ fees = [m \in Addresses |-> [t \in FeeTypes |-> 0]]
    /\ feeRecipient \in Addresses
    /\ isInitialized = FALSE

\* The arrays that initialize may be given.
Lists(S) == UNION {[1 .. n -> S] : n \in 0 .. MaxInitial}

\* Resources and IDs come in pairs; an ID that is given twice reverts.
ResourceLists ==
    {r \in Lists(Resources \ {NoAddress}) \X Lists(ResourceIds) :
        Len(r[1]) = Len(r[2]) /\ ~HasDuplicate(r[2])}

Initialize(factoryList, moduleList, resourceList, ids) ==
    /\ ~isInitialized
    /\ factories' = Enabling(factoryList)
    /\ modules' = Enabling(moduleList)
    /\ resources' = Enabling(resourceList)
    /\ resourceId' = [id \in ResourceIds |->
                        IF Contains(ids, id) THEN resourceList[IndexOf(ids, id)] ELSE NoAddress]
    /\ isInitialized' = TRUE
    /\ UNCHANGED <<sets, fees, feeRecipient>>

\* The caller is a factory.
AddSet(caller, setToken) ==
    /\ isInitialized
    /\ caller \in factories.enabled
    /\ CanEnlist(sets, setToken)
    /\ sets' = Enlist(sets, setToken)
    /\ UNCHANGED <<factories, modules, resources, resourceId, fees, feeRecipient, isInitialized>>

RemoveSet(setToken) ==
    /\ isInitialized
    /\ setToken \in sets.enabled /\ CanDelist(sets, setToken)
    /\ sets' = Delist(sets, setToken)
    /\ UNCHANGED <<factories, modules, resources, resourceId, fees, feeRecipient, isInitialized>>

AddFactory(factory) ==
    /\ isInitialized
    /\ CanEnlist(factories, factory)
    /\ factories' = Enlist(factories, factory)
    /\ UNCHANGED <<sets, modules, resources, resourceId, fees, feeRecipient, isInitialized>>

RemoveFactory(factory) ==
    /\ isInitialized
    /\ factory \in factories.enabled /\ CanDelist(factories, factory)
    /\ factories' = Delist(factories, factory)
    /\ UNCHANGED <<sets, modules, resources, resourceId, fees, feeRecipient, isInitialized>>

AddModule(module) ==
    /\ isInitialized
    /\ CanEnlist(modules, module)
    /\ modules' = Enlist(modules, module)
    /\ UNCHANGED <<sets, factories, resources, resourceId, fees, feeRecipient, isInitialized>>

\* The module's fees stay.
RemoveModule(module) ==
    /\ isInitialized
    /\ module \in modules.enabled /\ CanDelist(modules, module)
    /\ modules' = Delist(modules, module)
    /\ UNCHANGED <<sets, factories, resources, resourceId, fees, feeRecipient, isInitialized>>

\* Mutation: an ID that is taken is overwritten.
AddResourceOver(resource, id) ==
    /\ isInitialized
    /\ CanEnlist(resources, resource)
    /\ resources' = Enlist(resources, resource)
    /\ resourceId' = [resourceId EXCEPT ![id] = resource]
    /\ UNCHANGED <<sets, factories, modules, fees, feeRecipient, isInitialized>>

AddResource(resource, id) ==
    /\ isInitialized
    /\ CanEnlist(resources, resource)
    /\ resourceId[id] = NoAddress
    /\ resources' = Enlist(resources, resource)
    /\ resourceId' = [resourceId EXCEPT ![id] = resource]
    /\ UNCHANGED <<sets, factories, modules, fees, feeRecipient, isInitialized>>

\* Mutation: the flag is asked for, not the ID.
RemoveResourceByFlag(id) ==
    /\ isInitialized
    /\ resourceId[id] \in resources.enabled /\ CanDelist(resources, resourceId[id])
    /\ resources' = Delist(resources, resourceId[id])
    /\ resourceId' = [resourceId EXCEPT ![id] = NoAddress]
    /\ UNCHANGED <<sets, factories, modules, fees, feeRecipient, isInitialized>>

\* Asks for the ID, not for the flag.
RemoveResource(id) ==
    /\ isInitialized
    /\ resourceId[id] # NoAddress /\ CanDelist(resources, resourceId[id])
    /\ resources' = Delist(resources, resourceId[id])
    /\ resourceId' = [resourceId EXCEPT ![id] = NoAddress]
    /\ UNCHANGED <<sets, factories, modules, fees, feeRecipient, isInitialized>>

SetFee(module, feeType, percentage) ==
    /\ fees' = [fees EXCEPT ![module][feeType] = percentage]
    /\ UNCHANGED <<registries, feeRecipient, isInitialized>>

AddFee(module, feeType, percentage) ==
    /\ isInitialized
    /\ module \in modules.enabled
    /\ fees[module][feeType] = 0
    /\ SetFee(module, feeType, percentage)

EditFee(module, feeType, percentage) ==
    /\ isInitialized
    /\ module \in modules.enabled
    /\ fees[module][feeType] # 0
    /\ SetFee(module, feeType, percentage)

EditFeeRecipient(recipient) ==
    /\ isInitialized
    /\ recipient # NoAddress
    /\ feeRecipient' = recipient
    /\ UNCHANGED <<registries, fees, isInitialized>>

-----------------------------------------------------------------------------
FirstCall ==
    \E f \in Lists(Factories \ {NoAddress}), m \in Lists(ModuleAddresses \ {NoAddress}), r \in ResourceLists :
        Initialize(f, m, r[1], r[2])

RegistryCall ==
    \/ \E s \in SetTokens :
        RemoveSet(s) \/ \E caller \in Factories \ {NoAddress} : AddSet(caller, s)
    \/ \E f \in Factories : AddFactory(f) \/ RemoveFactory(f)
    \/ \E m \in ModuleAddresses : AddModule(m) \/ RemoveModule(m)
    \/ \E id \in ResourceIds : RemoveResource(id) \/ \E r \in Resources : AddResource(r, id)

FeeCall ==
    \/ \E a \in Addresses : EditFeeRecipient(a)
    \/ \E m \in ModuleAddresses, t \in FeeTypes, p \in FeePercentages : AddFee(m, t, p) \/ EditFee(m, t, p)

Next == FirstCall \/ RegistryCall \/ FeeCall

Spec == Init /\ [][Next]_vars

-----------------------------------------------------------------------------
(* Properties *)

\* Governance can disable what it enabled: a SetToken, factory or module that is
\* enabled passes every check of its removal, which reverts on an address that the
\* array does not list, and so does a resource, which is removed by an ID that must
\* resolve to it.  The resource address(0) is the exception, see NullResourceStays.
\* An array given with duplicates lists more than what is enabled, never less.
EnabledCanBeRemoved ==
    /\ \A r \in {sets, factories, modules, resources} :
        \A a \in r.enabled : isInitialized /\ CanDelist(r, a)
    /\ \A a \in resources.enabled \ {NoAddress} : \E id \in ResourceIds : resourceId[id] = a

\* addResource accepts address(0), and removeResource then takes its ID for one that
\* is free: enabled once, it is a resource and listed for good, whatever is added
\* under that ID, or any other, and removed again.
NullResourceKept ==
    NoAddress \in resources.enabled =>
        NoAddress \in resources'.enabled /\ Contains(resources'.list, NoAddress)

NullResourceStays == [][NullResourceKept]_vars

\* An array lists a resource once for each ID that resolves to it: no ID resolves
\* to a resource that is delisted, so every ID can be freed, and none is left listed
\* when its last ID goes.  The flag, which removing one of two IDs clears, says less.
ResourcesListedPerId ==
    \A a \in Addresses \ {NoAddress} :
        Occurrences(resources.list, a) = Cardinality({id \in ResourceIds : resourceId[id] = a})
==============================================================================
