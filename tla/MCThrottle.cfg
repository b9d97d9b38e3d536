SPECIFICATION FairSpec
CONSTANTS
  Workers = {w1, w2}
  Feeders = {f1}
  Engine = engine
  Second = 1000000000
  Rates = {0, 5000000}
  FirstRate = 100
  Notifiers = {n1}
  MaxTickers = 2
  MaxChans = 2
INVARIANTS TypeOK NeverANilTicker AtMostOneOldTick RateIsTarget SaneRatesAreSafe
PROPERTIES WaitsEnd
\* The process may have ended.
CHECK_DEADLOCK FALSE
