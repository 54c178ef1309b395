SPECIFICATION Spec
CONSTANTS
  s1 = s1
  s2 = s2
  None = None
  Step = {s1, s2}
  MaxTime = 2
  MaxPokes = 1
  Requests = {"revive"}
  MaxBacklog = 1
  MaxFaults = 0
  FaultKinds = {}
INVARIANTS
  OnlyCancelCancels
