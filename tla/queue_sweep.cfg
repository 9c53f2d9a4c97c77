\* Two local jobs, the first with a second attempt, and a sweep that takes one job
\* at a time; nothing dies.
CONSTANTS
    h1 = h1
    h2 = h2
    None = None
    Jobs <- TwoJobs
    ComputerJobs <- NoJobs
    Handlers <- TwoHandlers
    MaxAttempts <- TwoThenOne
    SweepLimit = 1
    MaxCrashes = 0
    MaxRuns = 9
SPECIFICATION FairSpec
PROPERTY EventuallySettled
CHECK_DEADLOCK FALSE
