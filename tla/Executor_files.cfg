CONSTANTS
  j1 = j1
  u1 = u1
  Job = {j1}
  User = {u1}
  Owner <- OneUser
  Content = {j1}
  Wanted <- Apart
  Worker = {w1, w2, w3}
  NoWorker = NoWorker
  NoJob = NoJob
  MaxAttempts = 2
  MaxActive = 1
  MaxGlobal = 1
  MaxPerUser = 1
  MaxStalls = 2
  MaxRetries = 2
  MaxSurvivors = 1
SYMMETRY Slots
SPECIFICATION XSpec
INVARIANTS XTypeOK OneProcess CompletedKeepsFile SweepFindsRemains
PROPERTY WorkNotPulledAway
CHECK_DEADLOCK FALSE
