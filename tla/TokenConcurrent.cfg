SPECIFICATION FairSpec
CONSTANTS
  c1 = c1
  c2 = c2
  c3 = c3
  None = None
  Calls = {c1, c2, c3}
  Window = 2
  MaxLatency = 1
  Undecoded = TRUE
INVARIANTS
  TypeOK
  FreshUnlessRefreshFailed
  WholeUnlessOverlapped
PROPERTIES
  NilOnlyFromOwnRefresh
  HookReturns
