CONSTANTS
  j1 = j1
  u1 = u1
  Job = {j1}
  User = {u1}
  Owner <- OneUser
  Content = {j1}
  Wanted <- Apart
  Worker = {w1, w2}
  NoWorker = NoWorker
  NoJob = NoJob
  MaxAttempts = 2
  MaxActive = 1
  MaxGlobal = 1
  MaxPerUser = 1
  MaxStalls = 1
  MaxRetries = 0
  MaxSurvivors = 0
SYMMETRY Slots
SPECIFICATION XSpec
INVARIANT CompletedHasFile
CHECK_DEADLOCK FALSE
