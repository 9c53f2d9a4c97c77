\* Every document of up to two channels and every window of a day of three minutes;
\* one call of notify(), one change of the preferences.
CONSTANTS
    push = push
    c1 = c1
    None = None
    Calls = {c1}
    Documents <- AnyDocument
    NewDocuments <- NoneOrPush
    Channels <- AllChannels
    Addressed <- Addresses
    Day = 3
    MaxAttempts = 3
    MaxChanges = 1
SPECIFICATION Spec
INVARIANTS QuietHoursKept RightChannel ReportedAsReceived
CHECK_DEADLOCK FALSE
