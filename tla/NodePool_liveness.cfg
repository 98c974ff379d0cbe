SPECIFICATION FairSpec
CONSTANTS
  Pool = {p1, p2}
  None = None
  MaxNodes = 1
  FaultKinds = {"crash", "lostReply", "closeFails", "deleteFails", "callFails", "externalDelete"}
  MaxFaults = 1
CHECK_DEADLOCK FALSE
INVARIANT TypeOK
PROPERTIES DeletionCompletes StatusConverges
