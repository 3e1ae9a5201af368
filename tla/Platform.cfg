\* Databases, PHP, apps, tunnels, accounts, alerts, loops and chats.
SPECIFICATION PlatformSpec
SYMMETRY PlatformSymmetry
CONSTANTS
  DbNames = {"shop", "Shop"}
  DbSlugOf <- DbSlugs1
  DbReqs = {r1, r2, r3}
  PhpReqs = {r1, r2}
  PhpExts = {e}
  PhpNames = {"shop", "Shop"}
  PhpSlugOf <- PhpSlugs1
  SiteReqs = {r1, r2}
  Domains = {d1, d2}
  AppReqs = {r1, r2}
  AppIds = {1, 2}
  AppNames = {n1}
  AppDomains = {x1}
  HostIds = {1, 2}
  AppVersions = {0, 1}
  TunnelReqs = {r1, r2}
  TunnelIds = {1, 2}
  Paths = {p1, p2}
  Services = {"s"}
  Hostnames = {"h1", "h2"}
  RuleTargets = {"web", "http_status:404"}
  MaxRules = 3
  Users = {d1, d2}
  AcctReqs = {r1, r2}
  Codes = {c1, c2}
  MaxAccounts = 2
  MaxSecrets = 3
  AlertIds = {a1}
  CollectLoops = {r1, r2}
  Handlers = {d1, d2}
  MaxDuration = 2
  MaxFirings = 2
  LoopIds = {d1, d2}
  Savers = {r1, r2}
  MaxChannels = 3
  Chats = {r1, r2}
  Confirms = {k1, k2}
  ChatUsers = {d1, d2}
  CallIds = {i1}
  Convs = {1}
  MaxRounds = 2
  Facts = {f1, f2}
  MaxMemories = 2
  Headroom = 1
  CatReqs = {r1, r2}
  CatHosts = {r1, r2}
  CatGroups = {g1}
  CatTags = {t1}
  Providers = {d1, d2}
  CatCerts = {c1, c2}
  CertDirs = {d1, d2}
  Presets = {1, 2}
  Customs = {3}
  PartHosts = {d1, d2}
  PartReqs = {r1, r2}
  RoutePaths = {p1}
  MaxParts = 3
  FwZones = {d1, d2}
  FwReqs = {r1, r2}
  ApiTokens = {k1}
  Callers = {c1}
  Permissions <- PermissionLists
INVARIANTS
  PlatformTypeOK
  
  
  
  
  
  

  
CHECK_DEADLOCK FALSE
