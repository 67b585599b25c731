SPECIFICATION Spec
INVARIANTS AcceptedConfigBuilds PasswordsOverTLS EveryEngineReachable
CONSTANTS
  RawConfigs <- MCRawConfigs
  Refs = {"r1", "r2"}
  Contents = {"absent", "", "s1"}
CHECK_DEADLOCK FALSE
