CONSTANTS
  Job = {j1, j2, j3}
  Content = {c1, c2, c3}
  NoContent = NoContent
  Key = {k1}
  NoKey = NoKey
  MaxActive = 2
  Request = {r1, r2, r3}
  NoRequest = NoRequest
  NoJob = NoJob
SYMMETRY Interchangeable
SPECIFICATION SSpec
INVARIANTS SubmissionTypeOK ActiveWithinLimit NoDuplicateActive AnswerFits ConflictResolved
PROPERTY AsIfOneByOne
CHECK_DEADLOCK FALSE
