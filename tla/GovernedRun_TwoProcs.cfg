SPECIFICATION Spec
CONSTANTS
  Procs = {p1, p2}
  NoProc = NoProc
  Users = {requester, priya, omar}
  Requester = requester
  Approvers = {requester, priya, omar}
  Script <- MCDeliveryScript
  Verdicts <- MCVerdicts
  Operations = {"simulate", "redirect", "APPROVE", "REJECT"}
  MaxRequests = 2
  MaxFaults = 0
INVARIANT OneOpenGate
SYMMETRY MCSymmetry
CHECK_DEADLOCK FALSE
