CONSTANTS
    Stream <- MCStream
    Target = 2
    MaxRuns = 2
SPECIFICATION FairSpec
INVARIANTS
    TypeOK
    CacheIsGenuine
    FinishedListEnforced
    FileReproducible
PROPERTIES
    GeneratorEnds
