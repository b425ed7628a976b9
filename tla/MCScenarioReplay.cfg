CONSTANTS
  takeover = takeover
  known = known
  cust = cust
  web = web
  run1 = run1
  run2 = run2
  reset1 = reset1
  reset2 = reset2
  ana = ana
  ScenarioKeys = {takeover}
  BackgroundIncidents = {known}
  Customers = {cust}
  CustomerOf <- OneCustomer
  Brings <- TakeoverBrings
  Web = web
  Runners = {run1, run2}
  Resetters = {reset1}
  Analysts = {}
  Flaky = {}
  HeapOrder <- ScanOrder
  MaxResets = 1
  NoRow = NoRow
SPECIFICATION Spec
INVARIANTS ResultStaysReplayable
