\* Two tasks; two changes by the dashboard or by hand, of which one by hand and
\* one typed; one reconcile that fails half way; three days.
CONSTANTS
    Ids = {t1, t2}
    None = None
    LastDay = 2
    MaxChanges = 2
    MaxHand = 1
    MaxTyped = 1
    MaxFaults = 1
SPECIFICATION FairSpec
INVARIANT NoTaskLost
PROPERTIES KeptOnServer NeverRolledBack Settles
CHECK_DEADLOCK FALSE
