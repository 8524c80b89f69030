SPECIFICATION MCSpec
CONSTANTS
  Statuses <- MCStatuses
  TerminalStatuses <- MCTerminal
  NoStatus = NoStatus
  Take = 1
  MaxEvents = 3
  MaxVersions = 2
  MaxBreaks = 1
  NTaskRuns = 2
  MaxWritten = 1
  MaxFetches = 1
  Realtimes = {TRUE, FALSE}
INVARIANTS ShownInOrder DoneIsComplete PanelConverges
PROPERTY EventsArrive
CHECK_DEADLOCK FALSE
