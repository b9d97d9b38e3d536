SPECIFICATION Spec
CONSTANTS
  Workers = {w1, w2}
  Dbs = {"newdb"}
  FirstDb = "newdb"
  Sessions = {s1, s2}
  NoSession = nil
  Engine = engine
  NoOne = none
SYMMETRY Symmetry
INVARIANTS RecoverableErrorsAreSurvived
\* The process may have ended.
CHECK_DEADLOCK FALSE
