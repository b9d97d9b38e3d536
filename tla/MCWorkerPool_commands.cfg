SPECIFICATION Spec
CONSTANTS
  Workers = {w1, w2}
  Feeders = {f1}
  Engine = engine
  Chans = {1, 2, 3, 4}
  Nil = nil
  NumColls = 1
  Commands = {"START", "STOP", "ONCE", "PROCS", "TARGETQPS", "COLLSTART", "COLLSTOP", "EXIT", "DIE"}
  Targets = {1, 2}
  GlobMayFail = TRUE
SYMMETRY Symmetry
INVARIANTS TypeOK CountNeverOverstates AtMostOneLateUpdate
PROPERTIES AdjustReachesTarget KeepsPromise
\* Every goroutine may be blocked, and after EXIT none need run.
CHECK_DEADLOCK FALSE
