\* One task, marked done on the dashboard.
CONSTANTS
    Ids = {t1}
    None = None
    LastDay = 3
    MaxChanges = 2
    MaxHand = 0
    MaxTyped = 0
    MaxFaults = 0
SPECIFICATION Spec
INVARIANT ArchivedOnce
CHECK_DEADLOCK FALSE
