SPECIFICATION Spec
CONSTANTS
  r1 = r1
  r2 = r2
  console = console
  app = app
  NoKey = NoKey
  Requests = {r1, r2}
  Others = {console}
  Names = {app}
  MaxAttempts = 2
  Preexisting <- MCPreexisting
CHECK_DEADLOCK FALSE
INVARIANT
  CreatesOne
