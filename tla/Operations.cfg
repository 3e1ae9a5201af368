\* Scheduled tasks, jobs, extra processes, backups, and the upgrade of Caddy.
SPECIFICATION OpsSpec
CONSTANTS
  Executions = {e1, e2}
  CronReqs = {r1, r2}
  FirstReq = r1
  MaxRetries = 1
  MaxStarts = 2
  MaxLive = 1
  CrontabUsers = {u1, u2}
  MaxEdits = 1
  JobReqs = {r1, r2}
  JobRuns = {x1, x2}
  MaxJobStarts = 2
  ExtraNames = {"worker", "queue"}
  MaxInstances = 2
  Backup = {b1, b2}
  Targets = {"local", "s3"}
  ConfigReqs = {r1, r2}
  MaxChanges = 2
  MaxUpgrades = 2
  Channels = {r1, r2}
  Filters <- EvFilters1
  MaxPubs = 1
  Conns = {u1, u2}
  MaxSessions = 1
  FileReqs = {r1, r2}
  FilePaths <- FilePaths1
  CorePaths <- CorePaths1
  Selections <- Selections1
  ArchivePaths <- ArchivePaths1
  DestPaths <- DestPaths1
  Contents = {"x"}
INVARIANTS
  OpsTypeOK
  
  OneRun
  
  
  UpgradeAtomic
PROPERTIES
  CrontabSeen
  HeldIsReleased
CHECK_DEADLOCK FALSE
