SPECIFICATION Spec
CONSTANTS
  Pool = {p1, p2, p3, p4}
  None = None
  MaxNodes = 0
  FaultKinds = {"crash", "lostReply", "closeFails", "staleRead", "deleteFails", "callFails", "externalDelete"}
  MaxFaults = 3
SYMMETRY Interchangeable
CHECK_DEADLOCK FALSE
INVARIANTS PoolOwned PoolLeakBound FinalizerFirst NeverReadyAndFailed
PROPERTIES ReadyFollowsPhase OwnsPools
