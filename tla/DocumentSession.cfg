SPECIFICATION FairSpec
CONSTANTS
  d1 = d1
  d2 = d2
  e1 = e1
  e2 = e2
  all = all
  some = some
  bad = bad
  Documents = {d1, d2}
  Events = {e1, e2}
  Queries = {all, some, bad}
  InvalidQueries = {bad}
  DefaultQuery = all
  Matching <- MCMatching
  Projections = {plain, framed}
  ImageProjections = {framed}
  DefaultProjection = plain
  MaxExports = 2
  None = None
INVARIANTS
  CompletionIsPending
  ProgressIsCurrent
  SelectionMatchesQuery
  ResultBelongsToDocument
  CancelReachesItsExport
PROPERTIES
  ClosingStopsExtraction
  OperationsEnd
  DestructionEnds
CHECK_DEADLOCK FALSE
