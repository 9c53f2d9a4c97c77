\* One computer job, two overlapping handlers, two attempts, one crash: any
\* interleaving of the gets and sets.
CONSTANTS
    h1 = h1
    h2 = h2
    None = None
    Jobs <- OneJob
    ComputerJobs <- OneJob
    Handlers <- TwoHandlers
    MaxAttempts <- TwoAttempts
    SweepLimit = 1
    MaxCrashes = 1
    MaxRuns = 3
SPECIFICATION FairSpec
INVARIANTS
    TypeOK
    OutcomeIsEarned
    StrandedOnlyByCrash
    SoleOwner
    RunsWithinAttempts
    ParkedOnNewestTask
    AnnouncedOutcomeStands
PROPERTIES
    TerminalIsFinal
    ResumedByItsTask
    LifecycleSpec
    EventuallyAnnounced
CHECK_DEADLOCK FALSE
