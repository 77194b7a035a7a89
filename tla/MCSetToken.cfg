SPECIFICATION Spec
CONSTANTS
    PRECISE_UNIT = 2
    c1 = c1
    m1 = m1
    m2 = m2
    NoData = NoData
    NoAddress = NoAddress
    Components = {c1}
    Modules = {m1, m2}
    Data = {NoData}
    Accounts = {a1, a2}
    Removable = {m1}
    InitialModules = {m1}
    InitialComponents <- MCInitialComponents
    InitialUnits <- MCInitialUnits
    RealUnits = {0, 1}
    Multipliers = {0, 1, 2}
    Quantities = {1}
    MaxSupply = 1
    MaxLength = 1
SYMMETRY MCSymmetry
INVARIANTS
    TypeOK
    ModulesMatchStates
PROPERTIES
    LockFreezesGovernance
    StrandedForever
    LockedNeedsEnabledLocker
    NullManagerIsFinal
    DisabledModulesPowerless
