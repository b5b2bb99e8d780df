SPECIFICATION Spec
CONSTANTS
  Created = {}
  Owner = {a}
  Proc = {p1, p2}
  Text = {x, y}
  NULL = NULL
  Lease = 1
  Cap = 1
  Calls <- DeclareCalls
  MaxTime = 0
  MaxRevision = 2
SYMMETRY Symmetry
PROPERTIES DoneStaysDone PurposeClosed
