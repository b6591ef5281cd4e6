\* Two assets, three rows, every configuration of MCConfigs.
SPECIFICATION Spec
CONSTANTS
  Width = 2
  Quotes <- MCQuotes
  Quantities <- MCQuantities
  InitialCash = 4
  Unit = 2
  MaxRows = 3
  Limits = {1, 2}
  NoLimit = NoLimit
  Configs <- MCConfigs
INVARIANTS
  GateIsEquity
  FillsNeverBreach
  ReachedOrdersAreFilled
  OrdersExplainPositions
PROPERTIES
  ImplementsLean
