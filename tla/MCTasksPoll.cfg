SPECIFICATION FairSpec
CONSTANTS
  Created = {t1}
  Owner = {a}
  Proc = {p1, p2}
  Text = {x, y}
  NULL = NULL
  Lease = 0
  Cap = 1
  Calls <- PollCalls
  MaxTime = 1
  MaxRevision = 2
PROPERTIES LapseIsSettled
