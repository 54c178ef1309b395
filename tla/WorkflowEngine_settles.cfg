SPECIFICATION FairSpec
CONSTANTS
  s1 = s1
  s2 = s2
  None = None
  Step = {s1, s2}
  MaxTime = 1
  MaxPokes = 1
  Requests = {"cancel"}
  MaxBacklog = 1
  MaxFaults = 1
  FaultKinds = {"pokeLost"}
INVARIANTS
  ParentsFirst
PROPERTIES
  RunningSettles
  SettlesInTime
