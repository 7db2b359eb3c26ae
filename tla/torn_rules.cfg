CONSTANTS
    States <- MCStates
    Seeded <- MCSeeded
    Windows = {w1, w2}
    NoWindow = NoWindow
    CallIds = {c1}
    Faults = {"death", "ddl"}
    MaxStarts = 3
    MaxRows = 2
SPECIFICATION Spec
INVARIANTS
    OneRulePerState
CHECK_DEADLOCK FALSE
