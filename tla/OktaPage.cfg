SPECIFICATION Spec
CONSTANTS
  r1 = r1
  r2 = r2
  admin = admin
  saml = saml
  app = app
  AppName = oidc_client
  NoKey = NoKey
  Requests = {r1, r2}
  Others = {admin, saml}
  Plain = {saml}
  Keys = {NoKey, app}
  PageSize = 1
  Preexisting <- MCPreexisting
CHECK_DEADLOCK FALSE
INVARIANT
  NotFoundMeansAbsent
