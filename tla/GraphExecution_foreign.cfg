\* Every declaration of three nodes, with runs published by other graphs and
\* executors that come with an empty model_dir.
SPECIFICATION Spec
CONSTANTS
  MCNodes = 3
  N = 3
  Programs <- Inferring
  MaxTime = 2
  Foreign <- Published
  Relocates = TRUE
INVARIANTS
  FreshUnlessHit
PROPERTIES
  CachedFramesStand
