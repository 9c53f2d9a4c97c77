\* Two calls of any tools, the first perhaps the task the second marks, two
\* addresses, room for one bucket, a burst of two requests.
CONSTANTS
    c1 = c1
    c2 = c2
    Calls = {c1, c2}
    Target = c1
    bridge = bridge
    other = other
    Bridge = bridge
    Clients = {bridge, other}
    None = None
    Capacity = 4
    Unit = 2
    Rate = 1
    MaxKeys = 1
    Times <- Clock
    MaxForward = 2
    KeptNotes = 2
    MaxTries = 2
    MaxLost = 1
SPECIFICATION Spec
INVARIANTS TypeOK RateBound ListsKept
CHECK_DEADLOCK FALSE
