SPECIFICATION Spec
CONSTANTS
  t1 = t1
  t2 = t2
  w1 = w1
  w2 = w2
  None = None
  Task = {t1}
  Worker = {w1}
  Scheduled = {}
  Timed = {t1}
  NoSender = {}
  NoProcessor = {}
  Outcomes = {"ok", "fail", "fatal"}
  MaxRetries = 1
  MaxExec = 3
  MaxPokes = 1
  MaxFaults = 1
  FaultKinds = {"schedCrash", "workerCrash", "lostReport", "txAbort", "execAbort", "submitFail"}
INVARIANTS
  TypeOK
  OneUnsettled
  RestingQuiet
  ActiveHasWork
  PendingBare
  CompleteHasSuccess
  FailedHasCause
  RetryBudget
  NonRetryableIsLast
PROPERTIES
  RestingIsFinal
  SettledIsFinal
  EngineImplementsService
