SPECIFICATION CallSpec
INVARIANTS EngineHearsTheCaller UserIsProven OneIdentityPerStatement
CONSTANTS
  RawConfigs <- MCRawConfigs
  Refs = {"r1"}
  Contents = {"absent", "", "s1"}
  Callers = {c1, c2}
  Headers <- MCHeaders
  MaxTime = 2
CHECK_DEADLOCK FALSE
