SPECIFICATION Spec
CONSTANTS
  r1 = r1
  r2 = r2
  admin = admin
  app = app
  web = web
  NoName = NoName
  Requests = {r1, r2}
  Others = {admin}
  Names = {app, web}
  Preexisting <- MCPreexisting
CHECK_DEADLOCK FALSE
INVARIANT
  NotFoundMeansAbsent
