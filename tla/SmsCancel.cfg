SPECIFICATION Spec
CONSTANTS
  a1 = a1
  m1 = m1
  m2 = m2
  m3 = m3
  m4 = m4
  d1 = d1
  Nobody = Nobody
  Accounts = {a1}
  Messages = {m1}
  Owner <- MCOwner
  Cost <- MCCost
  Opening <- MCOpening
  Invalid = {}
  WantsCallback = {m1}
  Reports = {}
  ReportOn <- MCReportOn
  ReportStatus <- MCReportStatus
  CarrierRetries = FALSE
  Faults = {"cancel"}
  Workers = {w1}
  Capacity = 1
  MayStop = FALSE
  DrainTimesOut = FALSE
INVARIANT FailedIsRefunded
CHECK_DEADLOCK FALSE
