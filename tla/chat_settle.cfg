\* Two messages, or one message with an escalation and a fault; two requests and
\* one poll at a time.
CONSTANTS
    s1 = s1
    s2 = s2
    p1 = p1
    None = None
    Messages <- TwoMessages
    Slots <- TwoSlots
    Polls <- OnePoll
    MaxJobs = 2
    MaxFeedback = 1
    MaxFaults = 1
    MaxEvents = 4
SPECIFICATION Spec
CHECK_DEADLOCK FALSE
PROPERTY RequestSettlesItsJob
