\* A create event delivered twice: one local job.
CONSTANTS
    h1 = h1
    h2 = h2
    None = None
    Jobs <- OneJob
    ComputerJobs <- NoJobs
    Handlers <- TwoHandlers
    MaxAttempts <- TwoAttempts
    SweepLimit = 1
    MaxCrashes = 0
    MaxRuns = 4
SPECIFICATION Spec
INVARIANT RedeliveryDoesNotDoubleExecute
CHECK_DEADLOCK FALSE
