SPECIFICATION Spec
INVARIANTS NoWriteAccepted NoReadRefused
CONSTANTS
  MaxLength = 6
  Typed = {"READ", "EXPLAIN", "OPTION", "WORD", "nl", "cr", "sp", "'", "dq", "--", "/*", "*/", "sep", "(", ")"}
CHECK_DEADLOCK FALSE
