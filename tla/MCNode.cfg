SPECIFICATION FairSpec
CONSTANTS
  a = a
  b = b
  c = c
  Hosts = {a, b, c}
  Vpc <- MCVpc
  Public = {a, b}
  Seeds = {c}
  Retries = 2
  MaxBoots = 4
  MaxMisses = 1
  Requests <- MCRequests
  KnownTypes <- MCKnownTypes
  None = None
INVARIANTS TypeOK ServingAreTogether DashboardIsServed
PROPERTIES StartEnds ExitEnds
\* Every host may have been booted as often as the bound allows, and have ended.
CHECK_DEADLOCK FALSE
