SPECIFICATION Spec
CONSTANTS
    c1 = c1
    c2 = c2
    Caller = {c1, c2}
    MaxCalls = 2
    MaxBoots = 2
    MaxBeats = 1
    MaxDrops = 1
    MaxLoad = 4
INVARIANTS
    JobTypeOK
    ResultIsTrue
    LostResultRecoverable
    DecidedMeansStopped
PROPERTIES
    RowMovesForward
SYMMETRY CallerSymmetry
CHECK_DEADLOCK FALSE
