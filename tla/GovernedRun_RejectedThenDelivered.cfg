SPECIFICATION Spec
CONSTANTS
  Procs = {p1}
  NoProc = NoProc
  Users = {requester, priya, omar}
  Requester = requester
  Approvers = {requester, priya, omar}
  Script <- MCDeliveryScript
  Verdicts <- MCVerdicts
  Operations = {"simulate", "APPROVE", "REJECT"}
  MaxRequests = 3
  MaxFaults = 0
PROPERTY RejectionIsFinal
SYMMETRY MCSymmetry
CHECK_DEADLOCK FALSE
