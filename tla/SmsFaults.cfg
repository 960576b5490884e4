SPECIFICATION Spec
CONSTANTS
  a1 = a1
  m1 = m1
  m2 = m2
  m3 = m3
  m4 = m4
  d1 = d1
  Nobody = Nobody
  Accounts = {a1}
  Messages = {m1, m2, m3, m4}
  Owner <- MCOwner
  Cost <- MCCost
  Opening <- MCOpening
  Invalid = {m4}
  WantsCallback = {m1, m2}
  Reports = {d1}
  ReportOn <- MCReportOn
  ReportStatus <- MCReportStatus
  CarrierRetries = FALSE
  Faults = {"mongoError", "gatewayError", "carrierTimeout", "emptyCarrierId", "cancel"}
  Workers = {w1}
  Capacity = 1
  MayStop = TRUE
  DrainTimesOut = TRUE
INVARIANT TypeOK
INVARIANT CarriedWasCharged
INVARIANT RefundIsOwed
INVARIANT PaidIffCarried
INVARIANT ErrorsAreFree
PROPERTY SendKeepsReports
CHECK_DEADLOCK FALSE
