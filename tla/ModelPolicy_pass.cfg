\* Frames of up to eight rows, schedulers alone and under any, splitters with
\* counts, fractions, gaps, purged rows and dropped batches; and policies that
\* remember two or four of up to six rows.
SPECIFICATION MCSpec
CONSTANTS
  MaxRows = 8
  PolicyRows = 6
  Histories = {2, 4}
  Schedulers <- MCSchedulers
  Splitters <- MCSplitters
  Values = {0, 1, 2}
INVARIANTS
  RowsArePredictedOnce
  NoLookahead
  ModelsAreRecent
  SplitIsChronological
  HistoryIsRecent
PROPERTIES
  PassEnds
