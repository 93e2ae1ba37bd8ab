SPECIFICATION LogSpec
CONSTANTS
  MaxEvents = 26
  MaxFaults = 1
  MaxRestarts = 2
  Configured = {5, 10, 12}
INVARIANTS LogTypeOK NewestKept Ceiling
CHECK_DEADLOCK FALSE
