SPECIFICATION FairSpec
CONSTANTS
  Nodes = {a, b}
  Commanded = {a}
  Commands = {"START", "STOP", "COLLSTART", "COLLSTOP", "QPS"}
  UICAP = 1
  MaxMoves = 1
  MaxChanges = 2
  Nothing = nothing
INVARIANTS TypeOK OwnRecordAuthoritative
PROPERTIES StatesSettle HistoriesSpread
