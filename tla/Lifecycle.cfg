SPECIFICATION FairSpec
INVARIANTS TypeOK CleanExitCutsNothing CutHadGrace
PROPERTIES SignalStops ServeNeverStuck
CONSTANTS
  Requests = {c1, c2, s1}
  Streams = {s1}
CHECK_DEADLOCK FALSE
