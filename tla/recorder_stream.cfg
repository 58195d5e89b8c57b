CONSTANTS
  c1 = c1  c2 = c2  engine = engine  reader = reader
  ws = ws  scripts = scripts  bridge = bridge
  accel = accel  temp = temp  int = int  float = float
  Shared = Shared  NoSchema = NoSchema  Nobody = Nobody
  Writers = {c1, reader}
  Slots = {ws, bridge}
  Blocking = {}
  SlotOf <- MCSlotOf
  FramesOf <- MCFramesOf
  Topics <- MCTopics
  Seeded <- MCSeeded
  Schemas <- MCSchemas
  Split = TRUE
  Initial = {ws, bridge}
  Late = {}
  Removable = {}
  MaxSessions = 1
  MaxFrames = 4
  QueueCap = 2
SPECIFICATION Spec
INVARIANT Conservation
INVARIANT PartsDecodable
