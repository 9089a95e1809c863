SPECIFICATION FairQueueSpec
CONSTANTS
    w1 = w1
    w2 = w2
    Commands = {1, 2}
    Workers = {w1, w2}
    Limit = 1
    MaxFaults = 2
    MaxRefused = 1
INVARIANTS HandledOnce
PROPERTIES OutcomeIsFinal EveryCommandTaken
CHECK_DEADLOCK FALSE
