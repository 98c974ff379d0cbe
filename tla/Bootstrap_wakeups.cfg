SPECIFICATION FairSpec
CONSTANTS
  None = None
  Endpoint = {url}
  MaxFaults = 1
INVARIANTS TypeOK NoLostWakeup
PROPERTIES Bootstraps ResyncRescues
