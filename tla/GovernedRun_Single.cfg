SPECIFICATION FairSpec
CONSTANTS
  Procs = {p1}
  NoProc = NoProc
  Users = {requester, priya, omar}
  Requester = requester
  Approvers = {requester, priya, omar}
  Script <- MCDeliveryScript
  Verdicts <- MCEditedVerdicts
  Operations = {"simulate", "pause", "resume", "cancel", "redirect", "APPROVE", "REJECT"}
  MaxRequests = 3
  MaxFaults = 1
INVARIANTS TypeOK StepsAuthorised StepsInOrder GateHolds
PROPERTY RunMoves
CHECK_DEADLOCK FALSE
