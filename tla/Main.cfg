SPECIFICATION MainFairSpec
CONSTANTS
    CommandLines <- SomeCommandLines
    Files <- SomeFiles
    MaxUnsigned = 7
    DefaultTimeout = 3
    MaxWait = 5
    RoundTime = 5
    Latency = 1
    Jumps <- SomeJumps
    MaxJumps = 1
    MaxFailures = 2
    MaxLost = 1
INVARIANTS
    MainTypeOK
    VerbosityAsGiven
    StartsAsConfigured
    EndsInOrder
    AttemptsBounded
    ClientOutlivesAttempts
    AnnouncedIsTrue
PROPERTIES
    SessionSpec
    RunOpensSession
CHECK_DEADLOCK FALSE
