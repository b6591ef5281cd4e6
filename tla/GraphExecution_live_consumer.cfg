\* A node is bound to the output of an inference node that trains in its graph.
SPECIFICATION Spec
CONSTANTS
  MCNodes = 3
  N = 3
  Programs <- Declarations
  MaxTime = 2
  Foreign = {}
  Relocates = FALSE
INVARIANTS
  ParentsAreReady
