CONSTANTS
  c1 = c1  c2 = c2  engine = engine  reader = reader
  ws = ws  scripts = scripts  bridge = bridge
  accel = accel  temp = temp  int = int  float = float
  Shared = Shared  NoSchema = NoSchema  Nobody = Nobody
  Writers = {engine, c1, c2}
  Slots = {scripts, ws}
  Blocking = {engine}
  SlotOf <- MCSlotOf
  FramesOf <- MCFramesOne
  Topics <- MCTopics
  Seeded <- MCSeeded
  Schemas <- MCSchemas
  Split = FALSE
  Initial = {scripts}
  Late = {ws}
  Removable = {ws}
  MaxSessions = 2
  MaxFrames = 2
  QueueCap = 2
SPECIFICATION FairSpec
INVARIANT StopIsClean
PROPERTY StopEnds
