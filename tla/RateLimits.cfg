SPECIFICATION Spec
CONSTANTS
  q1 = q1
  q2 = q2
  q3 = q3
  Requests = {q1, q2, q3}
  Limit = 2
  Minute = 3
  Life = 4
  Delay = 1
  Horizon = 8
  Faults = {"redisError", "resend"}
SYMMETRY RequestSymmetry
INVARIANT MinuteLimit
INVARIANT RefusedWhenSpent
CHECK_DEADLOCK FALSE
