SPECIFICATION Spec
INVARIANT InnerRechecked
CONSTANTS
  MaxLength = 8
  Typed = {"READ", "EXPLAIN", "WORD", "(", ")", "/*", "*/"}
CHECK_DEADLOCK FALSE
