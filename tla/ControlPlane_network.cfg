SPECIFICATION Spec
CONSTANTS
  Cluster = {c1, c2}
  Vpc = {v1}
  Eip = {e1}
  None = None
  EndpointAccess = "public"
  Edits <- NoEdits
  Drift <- NoDrift
  FaultKinds = {}
  MaxFaults = 0
CHECK_DEADLOCK FALSE
INVARIANT NetworkDeleted
