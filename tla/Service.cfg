SPECIFICATION FairServiceSpec
CONSTANTS
  r1 = r1
  r2 = r2
  k1 = k1
  NoKey = NoKey
  x = x
  y = y
  z = z
  Requests = {r1, r2}
  Clients = {x, y, z}
  Keys = {NoKey, k1}
  NameOf <- MCNameOf
  KeysOf <- MCKeysOf
  Preexisting = {x}
  Deployments <- MCDeployments
  Worlds <- MCWorlds
  MaxKills = 1
INVARIANTS
  TypeOK
  ServiceTypeOK
  AnswersHold
  SeenIsTrue
  ServesConfigured
PROPERTIES
  EveryRequestEnds
  EventuallyServes
