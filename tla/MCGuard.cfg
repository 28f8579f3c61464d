SPECIFICATION FairSpec
CONSTANTS
  Ops = {1, 2}
  Kinds = {"backup_export", "activity_sync", "cache_refresh"}
  Viewers = {v1}
  Clients = {101}
  MaxPosted = 1
  MaxWire = 2
INVARIANTS
  BusyMeansJob
PROPERTIES
  JobsAreAlone
  AcceptedIsCurrent
  OpsEnd
CHECK_DEADLOCK FALSE
