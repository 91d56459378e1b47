SPECIFICATION FairSpec
CONSTANTS
  r1 = r1
  r2 = r2
  r3 = r3
  admin = admin
  saml = saml
  app = app
  AppName = oidc_client
  NoKey = NoKey
  Requests = {r1, r2, r3}
  Others = {admin, saml}
  Plain = {saml}
  Keys = {NoKey, app}
  PageSize = 5
  Preexisting <- MCPreexisting
CHECK_DEADLOCK FALSE
INVARIANTS
  TypeOK
  InactiveIsOwed
  RefusedOnlyIfGone
PROPERTY
  Promise
  EveryRequestEnds
