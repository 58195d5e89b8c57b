CONSTANTS
  Size = 4
  MinSize = 1
  Slot = 2
  Steps = {0, 1, 2}
  Centre <- MCCentre
  Configs <- MCConfigs
  NoFrame = NoFrame
  Diagonal = TRUE
  MaxPanels = 2
  MaxDrags = 2
SPECIFICATION Spec
INVARIANT NeverOverlap
