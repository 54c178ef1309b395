SPECIFICATION Spec
CONSTANTS
  t1 = t1
  t2 = t2
  w1 = w1
  w2 = w2
  None = None
  Task = {t1, t2}
  Worker = {w1, w2}
  Scheduled = {t1, t2}
  Timed = {}
  NoSender = {}
  NoProcessor = {t2}
  Outcomes = {"ok", "fail"}
  MaxRetries = 0
  MaxExec = 2
  MaxPokes = 0
  MaxFaults = 2
  FaultKinds = {"staleRead", "txAbort"}
PROPERTIES
  RestingIsFinal
SYMMETRY WorkerSymmetry
