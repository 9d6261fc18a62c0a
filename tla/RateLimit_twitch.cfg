\* pleb_rate: 18 messages per 30s and 1.05s apart, in steps of 0.15s.
CONSTANTS
  limit = 18
  period = 200
  min_interval = 7
  TokenSpan = 1024
  Garbage = {0}
  Pauses = {74}
  Delays = {0}
  MaxSends = 30
  MaxPauses = 1
SPECIFICATION Spec
INVARIANT WithinAllowance
CHECK_DEADLOCK FALSE
