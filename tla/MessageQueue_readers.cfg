SPECIFICATION FairSpec
CONSTANTS
  r1 = r1
  r2 = r2
  None = None
  Reader = {r1, r2}
  ReaderName <- MCReaderName
  MaxSent = 4
  Poison = {2}
  MaxFaults = 3
  FaultKinds = {"crash", "stop", "fatal", "deleteFails", "replyLost"}
INVARIANTS
  TypeOK
  OnePlace
  OwnBuffer
  RedeliveryBounded
PROPERTIES
  LostOnlyInRecovery
  FreshInOrder
  EverySentIsHandled
CHECK_DEADLOCK FALSE
