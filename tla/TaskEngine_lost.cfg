SPECIFICATION FairSpec
CONSTANTS
  t1 = t1
  t2 = t2
  w1 = w1
  w2 = w2
  None = None
  Task = {t1}
  Worker = {w1}
  Scheduled = {}
  Timed = {}
  NoSender = {}
  NoProcessor = {}
  Outcomes = {"ok", "fail"}
  MaxRetries = 0
  MaxExec = 1
  MaxPokes = 1
  MaxFaults = 0
  FaultKinds = {}
PROPERTIES
  WorkIsNeverLost
