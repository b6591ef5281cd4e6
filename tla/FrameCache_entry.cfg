\* One executor, on a directory or on S3, with shard counts that change from run to
\* run (the one that makes a slice raise included) and three crashes; or three
\* executors that share an entry of one shard, and one crash.
SPECIFICATION MCSpec
CONSTANTS
  Executors = {e1, e2, e3}
  Lonely = e1
  FrameRows = 5
  ShardCounts = {1, 2, 3, 4, 5}
  MaxCrashes = 3
INVARIANTS
  HitIsWhole
  ReadsWholeFrame
PROPERTIES
  HitIsNeverWithdrawn
  EventuallyHit
