SPECIFICATION Spec
CONSTANTS
    c1 = c1
    c2 = c2
    Caller = {c1}
    MaxCalls = 2
    MaxBoots = 2
    MaxBeats = 0
    MaxDrops = 1
    MaxLoad = 4
INVARIANTS
    EffectsAtMostOnce
CHECK_DEADLOCK FALSE
