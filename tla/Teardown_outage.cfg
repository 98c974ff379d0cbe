SPECIFICATION FairSpec
CONSTANTS
  Cluster = {c1}
  Vpc = {v1}
  Eip = {e1}
  Pool = {p1}
  None = None
  EndpointAccess = "private"
  Drift <- Outages
CHECK_DEADLOCK FALSE
PROPERTIES TeardownCompletes
