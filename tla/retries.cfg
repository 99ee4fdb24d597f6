CONSTANTS
  NONE = NONE
  Rows = {1, 2}
  Replicas = {1, 2}
  Skew <- Around
  Lag = 1
  Second = 2
  MaxAttempts = 3
  Cap = 2
  Horizon = 9
  Slack = 2
SPECIFICATION Spec
INVARIANTS GivenUpInTime RowsAreReadable
CHECK_DEADLOCK FALSE
