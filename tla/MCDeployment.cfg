SPECIFICATION Spec
CONSTANTS
    PRECISE_UNIT = 2
    Components = {1, 2}
    Modules = {}
    NoData = NoData
    Data = {NoData}
    MaxReruns = 1
    Runs <- MCRuns
    MaxCrashes = 1
    MaxCopies = 1
    INITIAL_BALANCE = 40
    MAX_UINT_256 = 1000
INVARIANTS
    TypeOK
    UsesSetOfItsRun
    SetsUseOneStack
    SilentFailures
CHECK_DEADLOCK FALSE
PROPERTIES
    ImplementsIndexToken
    FinishedTakesEffect
    LocalOutcome
