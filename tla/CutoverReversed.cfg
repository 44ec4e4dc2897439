\* Two overlapping calls, no faults.
CONSTANTS
    o1 = o1
    o2 = o2
    tm = tm
    Operators = {o1, o2}
    Timers = {tm}
    MaxCalls = 4
    MaxFaults = 0
SPECIFICATION FairSpec
PROPERTIES FinalizedNotReversed
CHECK_DEADLOCK FALSE
