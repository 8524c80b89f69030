SPECIFICATION Spec
CONSTANTS
    Runs = {r1}
    Tasks = {t1}
    Jobs = {j1}
    Guidance = {g1, g2}
    MaxDecisions = 2
    Controls = {k1, k2}
    Faults = {"break", "restart", "loss"}
SYMMETRY Symmetry
CHECK_DEADLOCK FALSE
INVARIANTS TypeOK EditsNeedApproval NeverStale GuidanceKept SlotWhileActive DiffIsWhatRan
PROPERTY FinishedIsFinal
