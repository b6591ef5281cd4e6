\* Two assets, two rows, every configuration of MCConfigs.
SPECIFICATION Spec
CONSTANTS
  Width = 2
  Quotes <- MCQuotes
  Quantities = {}
  InitialCash = 8
  Unit = 2
  MaxRows = 2
  Levels = 2
  Ladders <- MCLadders
  Signals <- MCSignals
  Limits <- MCLimits
  Cancels <- MCCancels
  NoLimit = NoLimit
  Configs <- MCConfigs
INVARIANTS
  PathsAgree
  RowsNeverBreach
  FillsWalkTheLadder
  RestingReconciles
  PositionsAreCapped
