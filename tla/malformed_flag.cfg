CONSTANTS
    Contents <- MCContents
    Endings = {"reply", "timeout", "failure"}
    NoContent = NoContent
SPECIFICATION Spec
INVARIANT MalformedFlagIsSafe
