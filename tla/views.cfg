CONSTANTS
  Waveforms = {"w1", "w2"}
  StateGraphs = {"g"}
  ScreenOf <- MCScreenOf
  Spans = {1, 2}
  MaxClock = 1
  Unset = Unset
  Sizes = {2, 4}
  Windows <- MCWindows
  MaxPosition = 6
  MaxStamps = 4
  Lags = {0, 12}
  MinGap = 3
  MaxGap = 6
  MaxBurst = 3
  Recent = 3
  MaxHidden = 2
  None = None
  Texts = {"a", "b", "c"}
  MaxLines = 2
  MaxPushed = 3
  NoText = NoText
  Values = {0, 1}
  MaxSamples = 5
  MaxJoins = 1
  Buckets = 2
  Names <- MCNames
  Levels = {0, 1}
  W = 2
  MaxNow = 3
  MaxTotal = 4
  MaxShown = 2
SPECIFICATION FairSpec
INVARIANT ReadoutsTruthful
INVARIANT ShownAsWritten
INVARIANT MeasuresTruthful
PROPERTY ViewsKept
 
 
CHECK_DEADLOCK FALSE
