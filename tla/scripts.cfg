CONSTANTS
  i1 = i1  i2 = i2  rms = rms  diff = diff  accel = accel
  Other = Other  Nobody = Nobody
  Ids = {i1, i2}
  Names <- MCNames
  Outputs <- MCOutputs
  Config <- MCConfig
  Static = {accel}
  MaxCommands = 3
  Inputs = 2
  Modes = {"map", "reduce"}
  Window = 2
  Hop = 2
  Strict = TRUE
  MaxRebuilds = 1
  MaxTime = 4
  MaxSamples = 3
  Files <- MCFiles
  Overrides <- MCOverrides
  Existing <- MCExisting
  Returned <- MCReturned
  MaxTicks = 2
  None = None  Absent = Absent  Wrong = Wrong
SPECIFICATION MCSpec
CHECK_DEADLOCK FALSE
INVARIANT OutputsDisjoint
INVARIANT StatusExact
INVARIANT RunnerExact
INVARIANT ReturnedExact
 
