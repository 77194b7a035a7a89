SPECIFICATION Spec
CONSTANTS
    PRECISE_UNIT = 4
    c1 = c1
    c2 = c2
    Components = {c1, c2}
    Modules = {m1, m2}
    NoData = NoData
    Data = {NoData, d1}
    InitialComponents <- MCInitialComponents
    InitialUnits <- MCInitialUnits
    DefaultUnits = {0, 1, 3}
    ExternalUnits <- MCExternalUnits
    Multipliers = {4}
    MaxLength = 3
INVARIANTS
    TypeOK
    ComponentsTracked
    ExternalPositionsTracked
