SPECIFICATION Spec
CONSTANTS
    PRECISE_UNIT = 4
    c1 = c1
    c2 = c2
    Components = {c1, c2}
    Modules = {}
    NoData = NoData
    Data = {NoData}
    Installed = {"BasicIssuance", "Trade", "Wrap"}
    InitialComponents <- MCInitialComponents
    InitialUnits <- MCInitialUnits
    ProtocolFees = {0, 1}
    Percentages = {}
    ONE_YEAR = 1
    Quantities = {1, 2, 3}
    Units = {1, 3}
    MaxSupply = 4
    MaxIssued = 6
    MaxBalance = 4
    MaxElapsed = 0
INVARIANTS
    Collateralized
    AlwaysRedeemable
PROPERTIES
    SurplusNeverConsumed
