\* One executor, no crash, a budget that splits five rows into four shards.
SPECIFICATION MCSpec
CONSTANTS
  Executors = {e1}
  Lonely = e1
  FrameRows = 5
  ShardCounts = {4}
  MaxCrashes = 1
INVARIANTS
  WriteIsSaved
