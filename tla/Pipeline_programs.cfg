\* Every program of three sources and two nodes, over three moments.
SPECIFICATION Spec
CONSTANTS
  Feeds <- MCFeeds
  Sources <- MCSources
  Nodes <- MCNodes
  MaxNodes = 5
  Observations <- MCObservations
  MaxRows = 3
  Names <- MCNames
  Stores = {"here"}
INVARIANTS
  AcceptedGraphsExecute
  OrderIsCanonical
  SharedIDsShareFrames
  OutputsAreFinite
  ComponentsStandAlone
  PoliciesCommute
PROPERTIES
  UntaintedIsCausal
CHECK_DEADLOCK FALSE
