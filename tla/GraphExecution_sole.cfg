\* A source and a feature, or two sources, with a trainer and one more consumer, or
\* with inference that nothing trains and its consumer, executed again and again on
\* growing data with any node of them materialized.
SPECIFICATION Spec
CONSTANTS
  MCNodes = 4
  N = 4
  Programs <- Pipelines
  MaxTime = 2
  Foreign = {}
  Relocates = FALSE
INVARIANTS
  ParentsAreReady
  FrontierIsDemanded
  InferenceSeesTraining
  TrainedBeforeInference
PROPERTIES
  ExecutionsEnd
