SPECIFICATION Spec
CONSTANTS
  Rules = {1, 2, 3, 4, 5, 6, 7}
  Row <- MCRow
  BuiltIn = {1, 2, 4, 5}
  Profiles = {"standard", "lenient", "foreign"}
  ProfileRow <- MCProfileRow
  Contexts <- MCContexts
  Values <- MCValues
  Filename <- MCFilename
  Room = room
  OtherRoom = otherRoom
  Null = Null
INVARIANTS TypeOK ProfileOnlyTightens SameVerdictEveryTime
CHECK_DEADLOCK FALSE
