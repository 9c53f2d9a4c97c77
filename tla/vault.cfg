\* A daily note, which is a link that leads nowhere, and an append through a link, or
\* one of them and a fault or midnight; two requests and one poll at a time.
CONSTANTS
    note = note
    other = other
    None = None
    Root <- Vault
    Allowed <- Folders
    Links <- Linked
    Dangling <- LostLink
    Backslash <- InName
    NotePath <- NoteFile
    Target <- NoteAndLinked
    Jobs = {note, other}
    ReadJobs = {}
    MaxSlots = 2
    MaxEvents = 2
    Top = 2
SPECIFICATION FairSpec
INVARIANTS ExecutedOnce DoneIsDone StatusAgrees OnlyAllowedTouched
PROPERTIES EveryJobSettles
CHECK_DEADLOCK FALSE
