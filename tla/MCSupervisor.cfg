SPECIFICATION Spec
CONSTANTS
  Request = {r1, r2}
  Initialize = Initialize
  Initialized = Initialized
  Prompt = FALSE
  MaxStarts = 4
  MaxInstalls = 1
SYMMETRY Symmetry
INVARIANTS TypeOK AnsweredOnce OneConnector HandshakeFirst
CHECK_DEADLOCK FALSE
