SPECIFICATION LimiterSpec
CONSTANTS
  Calls = {c1, c2}
  Gap = 4
  Backoff = 3
  Deadline = 6
  Late = 1
  MaxAhead = 10
PROPERTIES
  RateKept
  CallsEnd
