CONSTANTS
  Job = {1, 2}
  NoJob = NoJob
  Server = {s1, s2}
  NoServer = NoServer
  MaxFaults = 1
SYMMETRY Interchangeable
SPECIFICATION Spec
INVARIANTS LegacyTypeOK RunningIsHeld PausedIsStopped PidfileNamesService
PROPERTIES FinalUnlessBlind
CHECK_DEADLOCK FALSE
