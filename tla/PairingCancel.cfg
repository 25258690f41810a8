CONSTANTS
  c1 = c1
  c2 = c2
  bad = bad
  here = here
  None = None
  Codes <- MCCodes
  Malformed <- MCMalformed
  Sources <- MCSources
  CodeTTL = 2
  ConsoleTTL = 3
  Window = 2
  Attempts = 2
  MaxSessions = 2
  MaxClock = 0
SPECIFICATION Spec
CHECK_DEADLOCK FALSE
INVARIANT LiveDevicesAreListed
