SPECIFICATION FairSpec
CONSTANTS
    t1 = t1
    t2 = t2
    NoOne = NoOne
    Threads <- Two
    Pollers <- One
    Readers <- One
    FileUsers <- Other
    Priorities = {1}
    Prio <- MCPrio
    Kinds = {"none", "timed", "forever"}
    Counts = {1, 3}
    MaxData = 3
    MayFail = TRUE
INVARIANTS
    Consistent
    NoLostWakeup
PROPERTIES
    PollTellsTruth
    TimedPollReturns
