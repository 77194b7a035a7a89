SPECIFICATION Spec
CONSTANTS
    PRECISE_UNIT = 4
    c1 = c1
    c2 = c2
    Components = {c1, c2}
    Modules = {}
    NoData = NoData
    Data = {NoData}
    WETH = c1
    MasterQuoteAsset = c1
    BaseUnits <- MCBaseUnits
    InitialComponents <- MCInitialComponents
    InitialUnits <- MCInitialUnits
    InitialSupply = 2
    Prices = {4, 6}
    ModuleFees <- MCModuleFees
    Percentages = {0, 2, 4}
    MinSupplies = {0, 1}
    Recipients = {r1}
    Quantities = {1, 2}
    MaxSupply = 3
    MaxBalance = 4
    MaxSurplus = 1
    MaxLength = 3
INVARIANTS
    FeesAsDocumented
