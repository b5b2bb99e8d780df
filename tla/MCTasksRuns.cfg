SPECIFICATION Spec
CONSTANTS
  Created = {t1, t2}
  Owner = {a, b}
  Proc = {p1, p2}
  Text = {x}
  NULL = NULL
  Lease = 1
  Cap = 1
  Calls <- RunCalls
  MaxTime = 2
  MaxRevision = 3
SYMMETRY Symmetry
PROPERTIES StartWithinCap
