SPECIFICATION FairSpec
CONSTANTS
  Eventers = {e1}
  Others = {o1, o2}
  Engine = engine
  Consumer = consumer
  NoOne = noone
  Sockets = {browser}
  Failures = {"closed", "bad"}
  UICAP = 1
  ENGINECAP = 1
INVARIANTS LocksAreShort NoDeadlock
PROPERTIES ServersGetThrough
\* A bad socket, a lost consumer or ONCE may stop everything, and the process may end.
CHECK_DEADLOCK FALSE
