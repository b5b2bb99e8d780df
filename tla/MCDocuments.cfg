SPECIFICATION FairSpec
CONSTANTS
  Graph = {n}
  Title = title
  Frame = {}
  x = x
  y = y
  Value = {x, y}
  Allowed <- Values
  NULL = NULL
  Agent = {p}
  Fetch = {f}
  Last = {l}
  Poll = {q1}
  Opened <- First
  Kept = 2
  MaxRevision = 2
  MaxGesture = 1
INVARIANTS TypeOK LockedCopyIsCurrent HistoryUndoes UndoRestores
PROPERTIES MergeKeepsTheirs WindowCatchesUp
CHECK_DEADLOCK FALSE
