SPECIFICATION FairSpec
CONSTANTS
  HostName = "me"
  Workers = {w1, w2}
  UICAP = 2
  MaxUpdates = 4
  CIRCBUFMAPLEN = 3
INVARIANTS TypeOK NeverOverReports
PROPERTIES ComesToShowZero
