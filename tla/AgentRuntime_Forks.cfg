SPECIFICATION FairSpec
CONSTANTS
    Runs = {r1, r2}
    Tasks = {t1}
    Jobs = {j1, j2}
    Guidance = {}
    MaxDecisions = 1
    Controls = {k1}
    Faults = {}
CHECK_DEADLOCK FALSE
INVARIANTS OneActivePerTask
PROPERTY ComesToRest
