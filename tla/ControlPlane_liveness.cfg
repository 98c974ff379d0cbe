SPECIFICATION FairSpec
CONSTANTS
  Cluster = {c1, c2}
  Vpc = {v1, v2}
  Eip = {e1, e2}
  None = None
  EndpointAccess = "public"
  Edits <- NoEdits
  Drift <- Restless
  FaultKinds = {"crash", "lostReply", "closeFails", "staleRead", "deleteFails", "callFails", "externalDelete"}
  MaxFaults = 1
CHECK_DEADLOCK FALSE
PROPERTIES DeletionCompletes Initializes StatusConverges ReadyFollowsPhase
