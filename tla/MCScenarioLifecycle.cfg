CONSTANTS
  takeover = takeover
  known = known
  cust = cust
  web = web
  run1 = run1
  run2 = run2
  reset1 = reset1
  reset2 = reset2
  ana = ana
  ScenarioKeys = {takeover}
  BackgroundIncidents = {known}
  Customers = {cust}
  CustomerOf <- OneCustomer
  Brings <- TakeoverBrings
  Web = web
  Runners = {run1, run2}
  Resetters = {reset1}
  Analysts = {ana}
  Flaky = {run1, run2, reset1}
  HeapOrder <- ScanOrder
  MaxResets = 2
  NoRow = NoRow
SYMMETRY TwoRunners
SPECIFICATION Spec
INVARIANTS TypeOK DatasetIsConsistent DeadlockNeedsTwoResets
PROPERTIES ResetRestoresBaseline AnswersAreCurrent
