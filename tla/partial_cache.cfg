CONSTANTS
    Requests = {r1}
    Inputs <- RestartInputs
    PoolSize = 1
    RndOutcomes = {"answer"}
    Faults = {"load"}
    CallIds <- MCCallIds
    Areas <- MCAreas
    Instants <- MCInstants
    AREA_CODE_MAP <- MCAreaCodeMap
    UtcOffset <- MCUtcOffset
    StateRules <- MCStateRules
    DncFile <- MCDncFile
    BlankLine = BlankLine
    NoPayload = NoPayload
    NoOne = NoOne
    NoReason = NoReason
SPECIFICATION Spec
INVARIANT CacheWholeOrEmpty
