SPECIFICATION ChainFairSpec
CONSTANTS
  a1 = a1
  m1 = m1
  m2 = m2
  m3 = m3
  d1 = d1
  Nobody = Nobody
  Accounts = {a1}
  Messages = {m1, m2, m3}
  Owner <- MCOwner
  Cost <- MCCost
  Opening <- MCOpening
  Invalid = {m3}
  WantsCallback = {m1}
  Reports = {d1}
  ReportOn <- MCReportOn
  ReportStatus <- MCReportStatus
  CarrierRetries = TRUE
  Faults = {"billingError", "gatewayError", "carrierTimeout"}
  KeyFaults = {"redisError", "cancel", "crash"}
  Workers = {w1}
  Capacity = 1
  MayStop = FALSE
  DrainTimesOut = FALSE
INVARIANT StoredIsTold
INVARIANT CarriedOnce
INVARIANT ChargedOnce
PROPERTY EveryAttemptAnswered
PROPERTY ReportsApplied
CHECK_DEADLOCK FALSE
