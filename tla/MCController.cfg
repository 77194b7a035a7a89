SPECIFICATION Spec
CONSTANTS
    a1 = a1
    a2 = a2
    NoAddress = NoAddress
    Addresses = {a1, a2, NoAddress}
    SetTokens = {a1}
    Factories = {a1}
    ModuleAddresses = {a1, NoAddress}
    Resources = {a1, a2, NoAddress}
    ResourceIds = {0, 1}
    FeeTypes = {0}
    FeePercentages = {0, 1}
    MaxInitial = 2
    MaxLength = 3
INVARIANTS
    TypeOK
    EnabledCanBeRemoved
    ResourcesListedPerId
PROPERTY
    NullResourceStays
