\* Three calls of start(), two restarts each.
CONSTANTS
    MaxRestarts = 2
    MaxStarts = 3
SPECIFICATION FairSpec
INVARIANTS SingleGateway StopReachesAll RestartsWithinBudget RunningIsAlive
PROPERTIES QuietAfterStop CrashIsAnswered
