CONSTANTS
  None = None
  Size = 4
  MinSize = 1
  Slot = 2
  Steps = {0, 1, 2}
  Centre <- MCCentre
  Configs <- MCConfigs
  NoFrame = NoFrame
  Diagonal = FALSE
  MaxPlaced = 3
  MaxDrags = 2
  Configured = {"c"}
  Dynamic = {"d"}
  Coloured = {"c"}
  ChannelOf <- MCChannelOf
  ArityOf <- MCArityOf
  Recolors = {"waveform"}
  Files <- MCFiles
  MaxPanels = 1
  Paths = {"c", "o"}
  config <- MCconfig
  Kinds = {"zmq"}
  Flags = {"demo", "endpoint"}
  InitFiles <- MCInitFiles
  Words = {"none", "default", "scripts", "own", "c", "d", "o", "", " ", "t", "gray", "yellow", "on", "off", "dial", "hann", "flat", "bar", "vertical", "led", "arc"}
  NoFile = NoFile
  Unreadable = Unreadable
  Malformed = Malformed
  Initial <- MCInitial
  Sorted <- MCSorted
  Alone = ""
  Ids = {"i"}
  Committed <- MCCommitted
  MaxSent = 2
  Tables <- MCTables
  Wrong = Wrong
  Texts = {"", " ", "t"}
  Blanks = {"", " "}
  Numbers = {0, 2}
  Hues = {"gray", "yellow"}
  MaxRows = 2
SPECIFICATION FairSpec
INVARIANT PanelsPlaced
INVARIANT PanelsKept
INVARIANT ReopenRestores
INVARIANT EditorsTruthful
PROPERTY BlockedAtContact
PROPERTY BindingsResolve
PROPERTY FilesKept
