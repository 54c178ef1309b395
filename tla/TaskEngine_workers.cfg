SPECIFICATION Spec
CONSTANTS
  t1 = t1
  t2 = t2
  w1 = w1
  w2 = w2
  None = None
  Task = {t1, t2}
  Worker = {w1, w2}
  Scheduled = {t1}
  Timed = {}
  NoSender = {t2}
  NoProcessor = {}
  Outcomes = {"ok", "fail"}
  MaxRetries = 0
  MaxExec = 1
  MaxPokes = 1
  MaxFaults = 2
  FaultKinds = {"schedCrash", "workerCrash"}
INVARIANTS
  OneRunner
  OwnedIsRunning
SYMMETRY WorkerSymmetry
