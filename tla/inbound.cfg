\* One event of any content delivered three times, two changes of its sender's
\* identity.
CONSTANTS
    Events = {e1}
    Users = {alice, bob}
    None = None
    MaxDeliveries = 3
    MaxChanges = 2
SPECIFICATION Spec
INVARIANTS OneJobPerEvent AcceptedHasJob RegistryDecides
SYMMETRY Symmetry
CHECK_DEADLOCK FALSE
