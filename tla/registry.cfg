CONSTANTS
  ui = ui  engine = engine  loader = loader
  a = a  b = b  cfg = cfg  int = int  txt = txt
  Nobody = Nobody
  Names <- MCNames
  Types <- MCTypes
  Static <- MCStatic
  Droppers <- MCDroppers
  Scripts <- MCScripts
  Loaders <- MCLoaders
  Wanted <- MCWanted
SPECIFICATION FairSpec
INVARIANT WritesHitOwnSlot
INVARIANT ReadersConsistent
PROPERTY IdsStable
PROPERTY RegistrationCompletes
