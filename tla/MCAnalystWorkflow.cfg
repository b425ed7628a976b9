CONSTANTS
  i1 = i1
  ghost = ghost
  ana = ana
  bob = bob
  t1 = t1
  t2 = t2
  k1 = k1
  k2 = k2
  none = none
  memo = memo
  IncidentIds = {i1, ghost}
  Incidents = {i1}
  Analysts = {ana, bob}
  Keys = {k1, k2}
  Notes = {none, memo}
  Commands <- RaceCommands
  Threads = {t1, t2}
  NoThread = NoThread
  NoRequest = NoRequest
  NoView = NoView
SYMMETRY RaceThreads
SPECIFICATION Spec
INVARIANTS TypeOK UnbrokenHistory ActsAtMostOnce
PROPERTIES TokenMeansUnchanged OfferedActionIsAccepted RetryIsReplayed ImplementsCase
