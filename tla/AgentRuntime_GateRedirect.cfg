SPECIFICATION FairSpec
CONSTANTS
    Runs = {r1}
    Tasks = {t1}
    Jobs = {j1}
    Guidance = {g1}
    MaxDecisions = 1
    Controls = {k1}
    Faults = {}
CHECK_DEADLOCK FALSE
PROPERTY RedirectAtGateReplans
