CONSTANTS
  t1 = t1
  t2 = t2
  analyst = analyst
  client = client
  Threads = {t1, t2}
  Users = {analyst}
  DemoAnalyst = analyst
  SeededRole <- SeedAnalyst
  Clients = {}
  FailureLimit = 2
  DemoLimit = 1
  Window = 2
  TokenLife = 1
  PoolSize = 2
  NoUser = NoUser
  NoToken = NoToken
  NoRoute = NoRoute
  Nobody = Nobody
SPECIFICATION Spec
PROPERTIES BlockEnds EveryRequestEnds
