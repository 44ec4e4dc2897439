\* Calls of the administrator that overlap with the timer, their lost answers and crashes.
CONSTANTS
    o1 = o1
    o2 = o2
    tm = tm
    Operators = {o1}
    Timers = {tm}
    MaxCalls = 4
    MaxFaults = 1
SPECIFICATION FairSpec
INVARIANTS TypeOK OldServesUntilActivation NeverAheadOfTarget
PROPERTIES DecisionStands DeadlineSettles
CHECK_DEADLOCK FALSE
