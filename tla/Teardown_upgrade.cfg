SPECIFICATION FairSpec
CONSTANTS
  Cluster = {c1, c2}
  Vpc = {v1}
  Eip = {e1}
  Pool = {p1}
  None = None
  EndpointAccess = "private"
  Drift <- Upgrades
CHECK_DEADLOCK FALSE
INVARIANTS PoolsFirst
PROPERTIES NodePoolSpec TeardownCompletes
