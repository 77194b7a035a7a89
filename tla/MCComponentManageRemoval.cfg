SPECIFICATION SpecManage
CONSTANTS
    PRECISE_UNIT = 2
    c1 = c1
    Components = {c1}
    Modules = {}
    NoData = NoData
    Data = {NoData}
    Installed = {"BasicIssuance"}
    InitialComponents <- MCInitialComponents
    InitialUnits <- MCInitialUnits
    ProtocolFees = {}
    Percentages = {}
    ONE_YEAR = 1
    Quantities = {1, 2, 4}
    Units = {}
    MaxSupply = 4
    MaxIssued = 8
    MaxBalance = 8
    MaxElapsed = 0
    Accounts = {a1, a2}
    NoAddress = NoAddress
    EditQuantities = {1, 2, 3}
    MaxLength = 2
PROPERTIES
    RemovalSubtracts
