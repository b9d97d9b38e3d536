SPECIFICATION ScheduledSpec
CONSTANTS
  Workers = {w1, w2}
  Feeders = {f1}
  Engine = engine
  Chans = {1, 2, 3, 4}
  Nil = nil
  NumColls = 1
  Commands = {"START", "STOP", "PROCS"}
  Targets = {2}
  GlobMayFail = FALSE
PROPERTIES StopQuiesces
\* Every goroutine may be blocked, and after EXIT none need run.
CHECK_DEADLOCK FALSE
