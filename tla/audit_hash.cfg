CONSTANTS
    Chars <- MCChars
    Separator = "|"
    CallIds <- MCCallIds
    Destinations <- MCDestinations
    DecisionTexts <- MCDecisionTexts
    Timestamps <- MCTimestamps
    BlockReasons = {"none", "dnc"}
    NoRow = NoRow
    NotVerified = NotVerified
SPECIFICATION Spec
INVARIANTS
    VerifyIsExact
