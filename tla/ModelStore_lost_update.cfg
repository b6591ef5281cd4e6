\* Two processes train the same group at the same time.
SPECIFICATION LostSpec
CONSTANTS
  net = net
  early = early
  line = line
  Lonely = t1
  Trainers = {t1, t2}
  Readers = {}
  Artifacts = {net, early, line}
  Weighted = {}
  Results <- MCResults
  Times = {1, 2}
  RunIds = {nightly}
  MaxCrashes = 0
INVARIANTS
  SavedIsRecorded
