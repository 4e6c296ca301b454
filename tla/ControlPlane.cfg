SPECIFICATION Spec
CONSTANTS
  w1 = w1 w2 = w2 jobA = jobA jobB = jobB runner = runner
  None = None
  Processes = {w1, w2}
  Jobs = {jobA, jobB}
  Subjects = {runner}
  SubjectOf <- MCSubjectOf
  MaxActive = 1
  PolicyExpires = 2
  TTL = 1
  MaxTime = 2
  MaxOperations = 4
  MaxTokens = 2
SYMMETRY Symmetry
INVARIANTS
  OneReset
  TokensKept
  AuditAgrees
PROPERTIES
  IssuedWithinLimit
  CredentialsMoveOn
CHECK_DEADLOCK FALSE
