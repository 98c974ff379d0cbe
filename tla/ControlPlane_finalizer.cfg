SPECIFICATION Spec
CONSTANTS
  Cluster = {c1, c2}
  Vpc = {v1}
  Eip = {e1}
  None = None
  EndpointAccess = "public"
  Edits <- NoEdits
  Drift <- NoDrift
  FaultKinds = {"deleteFails"}
  MaxFaults = 1
CHECK_DEADLOCK FALSE
INVARIANT FinalizerGuards
