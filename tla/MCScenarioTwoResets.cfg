CONSTANTS
  takeover = takeover
  known = known
  cust = cust
  web = web
  run1 = run1
  run2 = run2
  reset1 = reset1
  reset2 = reset2
  ana = ana
  ScenarioKeys = {takeover}
  BackgroundIncidents = {}
  Customers = {cust}
  CustomerOf <- OneCustomer
  Brings <- TakeoverBrings
  Web = web
  Runners = {run1}
  Resetters = {reset1, reset2}
  Analysts = {ana}
  Flaky = {reset1}
  HeapOrder <- ScanOrder
  MaxResets = 2
  NoRow = NoRow
SPECIFICATION FairSpec
INVARIANTS DeadlockNeedsTwoResets
PROPERTIES EveryRequestEnds ResetRestoresBaseline
