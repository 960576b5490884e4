SPECIFICATION FairSpec
CONSTANTS
  Requests = {r1, r2, r3}
  Outcomes = {"ok", "client", "server", "panic"}
  Faults = {"redisError", "cancel", "expire", "crash"}
  Nobody = Nobody
INVARIANT AtMostOneRunning
INVARIANT ReplayIsOfSuccess
INVARIANT OneSuccess
PROPERTY EveryRequestAnswered
CHECK_DEADLOCK FALSE
