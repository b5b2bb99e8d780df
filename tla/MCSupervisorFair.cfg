SPECIFICATION FairSpec
CONSTANTS
  Request = {r1, r2}
  Initialize = Initialize
  Initialized = Initialized
  Prompt = TRUE
  MaxStarts = 3
  MaxInstalls = 1
INVARIANTS ReplayHidden
PROPERTIES RequestsAnswered InitializeAnswered ConnectorReturns
CHECK_DEADLOCK FALSE
