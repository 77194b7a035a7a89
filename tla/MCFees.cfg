SPECIFICATION Spec
CONSTANTS
    PRECISE_UNIT = 4
    c1 = c1
    Components = {c1}
    c2 = c2
    Modules = {}
    NoData = NoData
    Data = {NoData}
    Installed = {"BasicIssuance", "StreamingFee"}
    InitialComponents <- MCInitialComponents
    InitialUnits <- MCFeeUnits
    ProtocolFees = {0, 1}
    Percentages = {0, 1, 2, 3}
    ONE_YEAR = 2
    Quantities = {1, 2, 4}
    Units = {}
    MaxSupply = 10
    MaxIssued = 8
    MaxBalance = 8
    MaxElapsed = 8
INVARIANTS
    TypeOK
    BoundedShortfall
    ChargedAtRateInForce
    AccruesAsTested
