SPECIFICATION Spec
CONSTANTS
  Cluster = {c1, c2, c3}
  Vpc = {v1, v2, v3}
  Eip = {e1, e2, e3}
  None = None
  EndpointAccess = "private"
  Edits <- OpensUp
  Drift <- NoDrift
  FaultKinds = {"crash", "lostReply", "closeFails", "staleRead", "deleteFails", "callFails", "externalDelete"}
  MaxFaults = 2
SYMMETRY Interchangeable
CHECK_DEADLOCK FALSE
INVARIANTS TypeOK ClusterOwned ClusterLeakBound NetworkOwned EipLeakBound FinalizerFirst KubeconfigFirst KubeconfigServer
PROPERTIES OwnsClusters
