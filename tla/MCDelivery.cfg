SPECIFICATION Spec
CONSTANTS
  Session = {a, b}
  Hooked = {b}
  Reader = {a}
  Role = Role
  Header = {Role}
  Message = {m1}
  Call = {c1}
  PageLimit = 1
  MaxDeclares = 2
  NULL = NULL
INVARIANTS TypeOK AcknowledgedWasShown WaitingIsKept OnlyNamed AnsweredIsQuiet
CHECK_DEADLOCK FALSE
