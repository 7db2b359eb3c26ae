CONSTANTS
    Requests = {r1, r2, r3}
    Inputs <- ContentionInputs
    PoolSize = 2
    RndOutcomes = {"answer"}
    Faults = {"pool", "db", "crash"}
    CallIds <- MCCallIds
    Areas <- MCAreas
    Instants <- MCInstants
    AREA_CODE_MAP <- MCAreaCodeMap
    UtcOffset <- MCUtcOffset
    StateRules <- MCStateRules
    DncFile <- MCDncFile
    BlankLine = BlankLine
    NoPayload = NoPayload
    NoOne = NoOne
    NoReason = NoReason
SPECIFICATION FairSpec
INVARIANTS
    NoCircularWait
    IInv
PROPERTIES
    EveryCallAnswered
    EveryCallRecorded
