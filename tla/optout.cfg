CONSTANTS
    Contents <- MCContents
    Endings = {"reply", "timeout", "failure"}
    NoContent = NoContent
SPECIFICATION Spec
INVARIANTS
    TypeOK
    FailsClosed
    WrappersAreTransparent
PROPERTY EveryTranscriptAnswered
