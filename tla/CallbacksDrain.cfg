SPECIFICATION ServerFairSpec
CONSTANTS
  Handlers = {h1, h2}
  Workers = {w1, w2}
  Capacity = 1
  MayStop = TRUE
  DrainTimesOut = TRUE
  Nobody = Nobody
  Scrapes = {s1, s2}
  Keys <- MCKeys
  KeyOf <- MCKeyOf
INVARIANT CallbacksTypeOK
INVARIANT AcceptedIsAttempted
INVARIANT CountedOnce
INVARIANT ScrapeIsOfOneMoment
PROPERTY StopEnds
PROPERTY EveryRequestEnds
CHECK_DEADLOCK FALSE
