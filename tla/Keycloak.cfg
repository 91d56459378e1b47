SPECIFICATION FairSpec
CONSTANTS
  r1 = r1
  r2 = r2
  r3 = r3
  admin = admin
  app = app
  web = web
  NoName = NoName
  Requests = {r1, r2, r3}
  Others = {admin}
  Names = {app, web}
  Preexisting <- MCPreexisting
CHECK_DEADLOCK FALSE
INVARIANTS
  TypeOK
  LookupUnambiguous
  DeleteLeavesNone
  NotFoundWasTrue
PROPERTIES
  Promise
  EveryRequestEnds
