CONSTANTS
    Requests = {r1, r2}
    Inputs <- RestartInputs
    PoolSize = 2
    RndOutcomes = {"answer"}
    Faults = {"crash", "power"}
    CallIds <- MCCallIds
    Areas <- MCAreas
    Instants <- MCInstants
    AREA_CODE_MAP <- MCAreaCodeMap
    UtcOffset <- MCUtcOffset
    StateRules <- MCStateRules
    DncFile <- MCDncFile
    BlankLine = BlankLine
    NoPayload = NoPayload
    NoOne = NoOne
    NoReason = NoReason
SPECIFICATION Spec
INVARIANTS
    AllowIsCompliant
    IInv
PROPERTIES
    KeepsPromise
