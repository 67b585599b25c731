SPECIFICATION CallSpec
PROPERTY ResolvedAtConnectionTime
CONSTANTS
  RawConfigs <- MCRawConfigs
  Refs = {"r1"}
  Contents = {"absent", "", "s1"}
  Callers = {c1}
  Headers <- MCHeaders
  MaxTime = 2
CHECK_DEADLOCK FALSE
