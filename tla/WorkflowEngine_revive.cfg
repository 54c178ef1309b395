SPECIFICATION Spec
CONSTANTS
  s1 = s1
  s2 = s2
  None = None
  Step = {s1}
  MaxTime = 2
  MaxPokes = 1
  Requests = {"submit", "cancel", "revive"}
  MaxBacklog = 1
  MaxFaults = 2
  FaultKinds = {"schedCrash", "txAbort", "pokeLost", "notifyLost", "republish"}
INVARIANTS
  TypeOK
  EarlierTasksRest
  ResultsHaveTasks
  StatesAgree
