CONSTANTS
  Base = 1
  MaxBackoff = 5
  TimeoutAfter = 3
  Peers = {p1, p2, p3}
  Silent = {}
  MaxQueue = 4
  Topics = {"a/b", "a.b"}
  BaseOf <- MCBaseOf
  MaxLen = 2
  None = None
  Bodies <- MCBodies
  MaxFrame = 3
  Prefix = 2
  Names <- MCNames
  TextValues <- MCTextValues
  Numbers <- MCNumbers
SPECIFICATION FairSpec
INVARIANT NoOrphan
INVARIANT StatusTruthful
INVARIANT LinesExact
INVARIANT WrittenAsDeclared
PROPERTY SchemasKept
PROPERTY StopEnds
PROPERTY AdapterRecovers
CHECK_DEADLOCK FALSE
