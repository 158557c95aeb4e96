CONSTANTS
  j1 = j1  j2 = j2 
  u1 = u1
  Job = {j1, j2}
  User = {u1}
  Owner <- OneUser
  Content = {j1, j2}
  Wanted <- Apart
  Worker = {w1, w2}
  NoWorker = NoWorker
  NoJob = NoJob
  MaxAttempts = 2
  MaxActive = 2
  MaxGlobal = 1
  MaxPerUser = 1
  MaxStalls = 1
SYMMETRY Interchangeable
SPECIFICATION Spec
PROPERTY PurgesOnlyTerminal
CHECK_DEADLOCK FALSE
