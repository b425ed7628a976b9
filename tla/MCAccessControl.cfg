CONSTANTS
  t1 = t1
  t2 = t2
  analyst = analyst
  client = client
  Threads = {t1, t2}
  Users = {analyst}
  DemoAnalyst = analyst
  SeededRole <- SeedAnalyst
  Clients = {client}
  FailureLimit = 2
  DemoLimit = 1
  Window = 2
  TokenLife = 1
  PoolSize = 2
  NoUser = NoUser
  NoToken = NoToken
  NoRoute = NoRoute
  Nobody = Nobody
SYMMETRY AllThreads
SPECIFICATION Spec
INVARIANTS FailuresAreBounded IssuanceIsBounded WritesNeedPassword
