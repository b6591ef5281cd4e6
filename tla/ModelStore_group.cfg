\* One process trains, may be stopped anywhere and trains again while another infers, or
\* two processes train the same group; explicit run ids.
SPECIFICATION MCSpec
CONSTANTS
  net = net
  early = early
  line = line
  Lonely = t1
  Trainers = {t1, t2}
  Readers = {r1}
  Artifacts = {net, early, line}
  Weighted = {net, early}
  Results <- MCResults
  Times = {1, 2}
  RunIds = {nightly}
  MaxCrashes = 1
INVARIANTS
  ManifestIsValid
  SelectedIsLoadable
PROPERTIES
  ImplementsLog
  LoadableStays
  RecordedBecomesLoadable
