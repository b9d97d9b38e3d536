SPECIFICATION FairSpec
CONSTANTS
  Workers = {w1, w2}
  Dbs = {"newdb", "old"}
  FirstDb = "newdb"
  Sessions = {s1, s2}
  NoSession = nil
  Engine = engine
  NoOne = none
INVARIANTS LockExcludes LiveIsOpen LiveIsChosen AtMostOneStaleUpdate
PROPERTIES SwitchCompletes KeepsPromise
\* The process may have ended.
CHECK_DEADLOCK FALSE
