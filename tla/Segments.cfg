SPECIFICATION Spec
CONSTANTS
  MaxLength <- ThreeSegments
INVARIANT BilledAsCarried
INVARIANT WithinThreefold
PROPERTY NeverCheaper
CHECK_DEADLOCK FALSE
