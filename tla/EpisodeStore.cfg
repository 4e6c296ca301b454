SPECIFICATION Spec
CONSTANTS
  None = None
  t1 = t1  t2 = t2  v0 = v0  v1 = v1  c1 = c1  c2 = c2  e1 = e1
  a = a  b = b  c = c  d = d
  Workers = {w1, w2}
  RunIds = {r1, r2}
  ClientActionIds = {a, b, c, d}
  Requests <- StoreRequests
  Tools = {t1, t2}
  ToolPlan <- MCToolPlan
  ToolOutputs <- MCToolOutputs
  Views = {v0, v1}
  InitialView = v0
  Contents = {c1, c2}
  CaptureOf <- MCCaptureOf
  ContentSize <- MCContentSize
  EvidenceIds = {e1}
  Limit <- MCLimit
  RendersMap = FALSE
  EvaluatesAnswer = TRUE
  EvidenceRequired = FALSE
  DerivationIdentity = FALSE
  ToolsConfigured = TRUE
INVARIANTS
  TypeOK
  ReservationHolds
  DecidedOnce
  TraceReplays
  AnswersAreDurable
PROPERTIES
  DecisionsStand
  AtomicEpisodeSpec
SYMMETRY WorkerSymmetry
