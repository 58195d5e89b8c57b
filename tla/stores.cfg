CONSTANTS
  NoReplay = NoReplay
  Recordings <- MCRecordings
  History = 2
  Speeds = {1, 2}
  Windows = {6}
  MaxTime = 5
  p1 = p1  p2 = p2
  Producers <- MCOne
  Cap = 16
  Margin = 2
  Reordered = 15
  MaxPush = 18
  TsOf <- MCTsOf
  Ops <- MCOps
  Ends = {0, 1, 2, 4, 5}
  ChunkBudget = 3
  CacheCap = 3
  Buckets = 2
  Workers = {2, 3, 4}
SPECIFICATION StoresSpec
INVARIANT PlayheadOnRecording
INVARIANT ReadsExact
INVARIANT OverviewSound
PROPERTY ClocksSteady
PROPERTY LoadEnds
PROPERTY ImplementsLog
PROPERTY ReadEnds
