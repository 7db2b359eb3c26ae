CONSTANTS
    Requests = {r1}
    Inputs <- RuleInputs
    PoolSize = 1
    RndOutcomes = {"answer", "timeout", "error"}
    Faults = {}
    CallIds <- MCCallIds
    Areas <- MCAreas
    Instants <- MCInstants
    AREA_CODE_MAP <- MCAreaCodeMap
    UtcOffset <- PatchyUtcOffset
    StateRules <- MCStateRules
    DncFile <- MCDncFile
    BlankLine = BlankLine
    NoPayload = NoPayload
    NoOne = NoOne
    NoReason = NoReason
SPECIFICATION Spec
INVARIANTS
    AllowIsCompliant
    BlockIsJustified
    MatchesStatuteTable
