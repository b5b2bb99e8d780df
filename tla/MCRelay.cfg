SPECIFICATION FairSpec
CONSTANTS
  t1 = t1
  t2 = t2
  d1 = d1
  d2 = d2
  Task = {t1}
  Desktop = {d1, d2}
  KindOf <- Kinds
  Creator <- Creators
  Account <- Accounts
  Serves <- Served
  NULL = NULL
  MaxRetries = 1
  MaxStray = 1
INVARIANTS TypeOK ResultOfClaimant OneAfterWithdrawal NothingRunTwice
PROPERTIES KeepsContract CallerReturns QueuedIsTaken
CHECK_DEADLOCK FALSE
