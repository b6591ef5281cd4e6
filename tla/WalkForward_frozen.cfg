\* The frozen scheduler.
SPECIFICATION Spec
CONSTANTS
  MaxRows = 4
  Schedulers <- MCFrozen
  Splitters <- MCSplitters
  Values = {0}
INVARIANTS
  FrozenTrainsOnce
