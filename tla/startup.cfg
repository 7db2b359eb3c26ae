CONSTANTS
    States <- MCStates
    Seeded <- MCSeeded
    Windows = {w1, w2}
    NoWindow = NoWindow
    CallIds = {c1}
    Faults = {"death"}
    MaxStarts = 3
    MaxRows = 2
SPECIFICATION FairSpec
INVARIANTS
    TypeOK
    OneRulePerState
    OneRowPerCallId
PROPERTIES
    KeepsRuleBook
    EveryStartEnds
CHECK_DEADLOCK FALSE
