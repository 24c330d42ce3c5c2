\* One client IP and one binary connection; 700 a minute is one in 85.7 ms, rounded to 85.
CONSTANTS
  Ips = {i1}
  Connections = {b1}
  RATE_LIMIT_PER_MIN = 700
  RATE_LIMIT_BURST = 2
  BINARY_RATE_LIMIT_PER_MIN = Unset
  BINARY_RATE_LIMIT_BURST = 0
  Unset = Unset
  TimeSteps = {1, 84, 130}
  MaxSteps = 4
  MaxAdmitted = 4
SPECIFICATION Spec
INVARIANTS
  WithinConfiguredRate
  RefusedOnlyAboveRate
