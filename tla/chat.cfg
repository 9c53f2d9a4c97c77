\* Two messages, or one message with a question and a fault; escalations without
\* end; two requests and one poll at a time.
CONSTANTS
    s1 = s1
    s2 = s2
    p1 = p1
    None = None
    Messages <- TwoMessages
    Slots <- TwoSlots
    Polls <- OnePoll
    MaxJobs = 2
    MaxFeedback = 1
    MaxFaults = 1
    MaxEvents = 4
SPECIFICATION FairSpec
INVARIANTS DoneIsReplied NothingForgotten RepliedOnce
 
CHECK_DEADLOCK FALSE
