SPECIFICATION MCSpec
CONSTANTS
  Sessions = {"s1", "s2"}
  Events <- MCEvents
  SessionOf <- MCSessionOf
  ReportedBy <- MCReportedBy
  NoStatus = NoStatus
  Member = Member
  Batches <- MCBatches
  Deliveries = {d1, d2, d3}
  MaxMemberRuns = 1
  NRuns = 2
  Paths = {"a"}
  Critical = {}
  ScopeGrowth = 1
  Dismissers = {m1, m2}
  MaxDecisions = 2
  MaxLog = 2
INVARIANTS TypeOK OneActiveRun AcceptedIsRecorded
PROPERTIES ClosedStaysClosed DismissalsHold
SYMMETRY MCSymmetry
CHECK_DEADLOCK FALSE
