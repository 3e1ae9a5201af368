------------------------------ MODULE MCPlatform ------------------------------
(***************************************************************************)
(* The components that a request drives through rows, files, containers    *)
(* and memory: databases, PHP runtimes and sites, the app store, tunnels,  *)
(* accounts, alerts and self-healing, the plugins' loops, chats and        *)
(* memories, the rows that hosts refer to and are made of, the firewall,   *)
(* and the tools by which chats and MCP clients reach all of them.         *)
(* They share no state (but for runtimes and sites), so a run takes them   *)
(* one by one: focus says which one moves, and the state space is the sum  *)
(* of theirs.                                                              *)
(*                                                                         *)
(* Each bound below names what it leaves out. Where the properties except  *)
(* what happens after requests have met, the requests then in progress     *)
(* run to their end and no new one begins.                                 *)
(***************************************************************************)
EXTENDS Databases, PhpSites, AppStore, Tunnels, Accounts, Alerts, Loops, AiChat, Catalog, HostParts,
        Firewall, Tools, TLC

VARIABLE focus

platformVars == <<focus, dbVars, phpVars, siteOwn, appVars, tunnelVars, acctVars, alertVars, lpVars, chatVars,
                  memVars, catVars, partVars, fwVars, toolVars>>

Foci == {"databases", "runtimes", "sites", "apps", "tunnels", "ingress", "accounts", "alerts", "heal", "loops", "chat",
         "memory", "catalog", "parts", "firewall", "tools"}

\* Names of instances and of PHP sites that have one slug.
OneSlug(S) == [n \in S |-> "shop"]
DbSlugs1 == OneSlug(DbNames)
PhpSlugs1 == OneSlug(PhpNames)

\* A token for everything, for reading, for one category, for parts of two.
PermissionLists ==
  {{}, {[category |-> "*", action |-> "read"]}, {[category |-> "deploy"]},
   {[category |-> "files", action |-> "write"], [category |-> "docker", action |-> "read"]}}

\* A component that no request drives keeps these values; runtimes rest in their initial state.
Off == "off"
DbOff == /\ dbRow = Off /\ dbListed = Off /\ dbDir = Off /\ dbCont = Off /\ dbVol = Off
         /\ dbInside = Off /\ dbReq = Off /\ dbUnsure = Off
AppOff == /\ appRow = Off /\ appDir = Off /\ appStack = Off /\ appProject = Off /\ appHost = Off
          /\ appCatalog = Off /\ appReq = Off /\ appUnsure = Off
TunnelOff == /\ tunRow = Off /\ tunFile = Off /\ tunAsked = Off /\ tunBare = Off /\ tunReq = Off
             /\ tunMet = Off
AcctOff == /\ acct = Off /\ acctReq = Off /\ acctIds = Off /\ acctFresh = Off /\ acctVerified = Off
           /\ acctRenewed = Off /\ acctLogins = Off /\ acctFaults = Off /\ acctMet = Off
AlertOff == /\ alertRule = Off /\ alertCount = Off /\ alertCooled = Off /\ alertEval = Off
            /\ alertLock = Off /\ alertStreak = Off /\ alertFaults = Off /\ alertHeal = Off
            /\ healRecent = Off /\ healCycles = Off /\ healMet = Off
LoopOff == /\ lpKind = Off /\ lpEnabled = Off /\ lpBlocked = Off /\ lpWanted = Off
           /\ lpRunning = Off /\ lpChannel = Off /\ lpMade = Off /\ lpClosed = Off /\ lpLoop = Off
           /\ lpSaver = Off /\ lpPanics = Off /\ lpMet = Off
ChatOff == /\ chat = Off /\ chatBuffer = Off /\ chatPending = Off /\ confirm = Off
           /\ chatConvs = Off /\ chatMsgs = Off /\ chatFaults = Off /\ chatMet = Off
MemOff == /\ memories = Off /\ memSaver = Off /\ memMet = Off
CatOff == /\ catHost = Off /\ hostTags = Off /\ catRows = Off /\ catUsed = Off /\ catDefault = Off
          /\ catCert = Off /\ catFiles = Off /\ catExport = Off /\ templates = Off /\ seeding = Off
          /\ seedTorn = Off /\ catReq = Off /\ catMet = Off /\ catOld = Off
PartOff == /\ partHost = Off /\ partIds = Off /\ partReq = Off /\ partMet = Off /\ partCut = Off
FwOff == /\ fwKnown = Off /\ fwDaemon = Off /\ fwDefault = Off /\ fwPerm = Off /\ fwLive = Off
         /\ fwReq = Off /\ fwBehind = Off /\ fwGuarded = Off
ToolOff == apiToken = Off /\ call = Off /\ toolFaults = Off

PlatformInit ==
  /\ focus \in Foci /\ SiteInit
  /\ focus \notin {"runtimes", "sites"} => ~phpRow.there
  /\ focus = "sites" => phpRow.ext = {}
  /\ IF focus = "databases" THEN DbInit ELSE DbOff
  /\ IF focus = "apps" THEN AppInit ELSE AppOff
  /\ IF focus \in {"tunnels", "ingress"} THEN TunnelInit ELSE TunnelOff
  /\ IF focus = "accounts" THEN AcctInit ELSE AcctOff
  /\ IF focus \in {"alerts", "heal"} THEN AlertInit ELSE AlertOff
  /\ IF focus = "loops" THEN LoopInit ELSE LoopOff
  /\ IF focus = "chat" THEN ChatInit ELSE ChatOff
  /\ IF focus = "memory" THEN MemInit ELSE MemOff
  /\ IF focus = "catalog" THEN CatInit ELSE CatOff
  /\ IF focus = "parts" THEN PartInit ELSE PartOff
  /\ IF focus = "firewall" THEN FwInit ELSE FwOff
  /\ IF focus = "tools" THEN ToolInit ELSE ToolOff

Move(f, A, others) == focus = f /\ A /\ UNCHANGED <<focus, others>>

\* Two requests meet when one of them creates or deletes the runtime, or both configure it.
RuntimesNext ==
  LET busy == {r \in PhpReqs : phpReq'[r].step \notin PhpEnded} IN
  /\ PhpNext
  /\ Cardinality(busy) > 1 => \/ \E r \in busy : phpReq'[r].op \in {"create", "delete"}
                              \/ \A r \in busy : phpReq'[r].op = "config"
  /\ phpUnsure => \A r \in PhpReqs : phpReq[r].step \in PhpEnded => phpReq'[r].step \in PhpEnded

\* Of the runtime its creation and deletion, one at a time, without extensions.
SitesNext ==
  LET busy == {r \in PhpReqs : phpReq'[r].step \notin PhpEnded} IN
  /\ SiteNext
  /\ siteUnsure # {} => /\ \A r \in SiteReqs : SiteAt(r, "done") => SiteAt(r, "done")'
                        /\ \A r \in PhpReqs : phpReq[r].step \in PhpEnded => phpReq'[r].step \in PhpEnded
  /\ Cardinality(busy) <= 1
  /\ \A r \in busy : phpReq'[r].op \in {"create", "delete"} /\ phpReq'[r].copy.ext = {}

AppsNext ==
  /\ AppNext
  /\ Cardinality(NamesAtWork') <= 1
  /\ appUnsure # {} => /\ \A r \in AppReqs : AppAt(r, "done") => AppAt(r, "done")'
                       /\ UNCHANGED appCatalog
  /\ appCatalog' # appCatalog => \E i \in AppIds : appRow[i].there

TunnelsNext(Request(_)) ==
  /\ TunPanelDies \/ \E r \in TunnelReqs : Request(r)
  /\ tunMet => \A r \in TunnelReqs : TunAt(r, "done") => TunAt(r, "done")'

AccountsNext ==
  /\ AcctNext
  /\ acctMet => \A r \in AcctReqs : AcctAt(r, "done") => AcctAt(r, "done")'

\* The rules without self-healing, then self-healing with one loop and settled rules.
AlertsNext ==
  /\ AlertNext
  /\ \A i \in AlertIds : alertRule'[i].mode = "notify"

HealNext ==
  /\ AlertNext
  /\ Cardinality({l \in CollectLoops : alertEval'[l].busy}) <= 1
  /\ \A i \in AlertIds : alertRule'[i].duration = 1 /\ (alertRule[i].there => alertRule'[i].mode = alertRule[i].mode)

\* What excuses a second loop ends the behaviour, but for the loops.
OneLoopNext ==
  /\ LoopNext
  /\ lpMet \cap {"busy", "savers"} # {} => UNCHANGED <<lpEnabled, lpSaver>>

\* Two rounds in all turns together, and no new one after a meeting.
ChatsNext ==
  /\ ChatNext
  /\ \A c, d \in Chats : c # d => chat'[c].round + chat'[d].round <= 2
  /\ chatMet # {} => \A c \in Chats : chat[c].step \in {"idle", "asked"} => chat'[c].step \in {chat[c].step, "done"}

\* Hosts refer to rows of one kind, and templates are taken apart; one export.  Three hosts and rows,
\* or two where requests meet.
CatalogNext ==
  /\ CatNext
  /\ catMet => \A r \in CatReqs : CatAt(r, "done") => CatAt(r, "done")'
  /\ catExport' # catExport => catExport = NoExport
  /\ Cardinality(catUsed') + Cardinality({r \in CatReqs : ~CatAt(r, "done")'}) <= 4
  /\ catUsed' # {} => templates = Presets
  /\ Cardinality({k \in {CatGroups, CatTags, Providers, CatCerts} : k \cap catUsed' # {}}) <= 1

\* Requests meet where a route leads somewhere.
PartsNext ==
  /\ PartNext
  /\ partMet' => partMet \/ \E h \in PartHosts, p \in RoutePaths : partHost'[h].routes[p].up # 0
  /\ partMet => \A r \in PartReqs : PartAt(r, "done") => PartAt(r, "done")'

\* Two requests meet in the default zone, with the daemon running and where the port is known.
FirewallNext ==
  LET busy == {r \in FwReqs : ~FwAt(r, "done")'} IN
  /\ FwNext
  /\ ~fwKnown => Cardinality(busy) <= 1
  /\ Cardinality(busy) > 1 =>
       /\ fwDaemon' = "running" /\ fwDefault' = fwDefault
       /\ {fwReq'[r].zone : r \in busy} \subseteq {NoZone, fwDefault}

PlatformNext ==
  \/ Move("databases", DbNext,
          <<phpVars, siteOwn, appVars, tunnelVars, acctVars, alertVars, lpVars, chatVars, memVars, catVars, partVars, fwVars, toolVars>>)
  \/ Move("runtimes", RuntimesNext,
          <<dbVars, siteOwn, appVars, tunnelVars, acctVars, alertVars, lpVars, chatVars, memVars, catVars, partVars, fwVars, toolVars>>)
  \/ Move("sites", SitesNext,
          <<dbVars, appVars, tunnelVars, acctVars, alertVars, lpVars, chatVars, memVars, catVars, partVars, fwVars, toolVars>>)
  \/ Move("apps", AppsNext,
          <<dbVars, phpVars, siteOwn, tunnelVars, acctVars, alertVars, lpVars, chatVars, memVars, catVars, partVars, fwVars, toolVars>>)
  \/ Move("tunnels", TunnelsNext(LAMBDA r : TunnelRows(r)),
          <<dbVars, phpVars, siteOwn, appVars, acctVars, alertVars, lpVars, chatVars, memVars, catVars, partVars, fwVars, toolVars>>)
  \/ Move("ingress", TunnelsNext(LAMBDA r : TunnelIngress(r)),
          <<dbVars, phpVars, siteOwn, appVars, acctVars, alertVars, lpVars, chatVars, memVars, catVars, partVars, fwVars, toolVars>>)
  \/ Move("accounts", AccountsNext,
          <<dbVars, phpVars, siteOwn, appVars, tunnelVars, alertVars, lpVars, chatVars, memVars, catVars, partVars, fwVars, toolVars>>)
  \/ Move("alerts", AlertsNext,
          <<dbVars, phpVars, siteOwn, appVars, tunnelVars, acctVars, lpVars, chatVars, memVars, catVars, partVars, fwVars, toolVars>>)
  \/ Move("heal", HealNext,
          <<dbVars, phpVars, siteOwn, appVars, tunnelVars, acctVars, lpVars, chatVars, memVars, catVars, partVars, fwVars, toolVars>>)
  \/ Move("loops", OneLoopNext,
          <<dbVars, phpVars, siteOwn, appVars, tunnelVars, acctVars, alertVars, chatVars, memVars, catVars, partVars, fwVars, toolVars>>)
  \/ Move("chat", ChatsNext,
          <<dbVars, phpVars, siteOwn, appVars, tunnelVars, acctVars, alertVars, lpVars, memVars, catVars, partVars, fwVars, toolVars>>)
  \/ Move("memory", MemNext,
          <<dbVars, phpVars, siteOwn, appVars, tunnelVars, acctVars, alertVars, lpVars, chatVars, catVars, partVars, fwVars, toolVars>>)
  \/ Move("catalog", CatalogNext,
          <<dbVars, phpVars, siteOwn, appVars, tunnelVars, acctVars, alertVars, lpVars, chatVars, memVars, partVars, fwVars, toolVars>>)
  \/ Move("parts", PartsNext,
          <<dbVars, phpVars, siteOwn, appVars, tunnelVars, acctVars, alertVars, lpVars, chatVars, memVars, catVars, fwVars, toolVars>>)
  \/ Move("firewall", FirewallNext,
          <<dbVars, phpVars, siteOwn, appVars, tunnelVars, acctVars, alertVars, lpVars, chatVars, memVars, catVars, partVars, toolVars>>)
  \/ Move("tools", ToolNext,
          <<dbVars, phpVars, siteOwn, appVars, tunnelVars, acctVars, alertVars, lpVars, chatVars, memVars, catVars, partVars,
            fwVars>>)

PlatformSpec == PlatformInit /\ [][PlatformNext]_platformVars

PlatformSymmetry == Permutations(AcctReqs) \cup Permutations(Users)

PlatformTypeOK ==
  /\ focus \in Foci
  /\ focus = "databases" => DbTypeOK
  /\ focus \in {"runtimes", "sites"} => PhpTypeOK /\ SiteTypeOK
  /\ focus = "apps" => AppTypeOK
  /\ focus \in {"tunnels", "ingress"} => TunnelTypeOK
  /\ focus = "accounts" => AcctTypeOK
  /\ focus \in {"alerts", "heal"} => AlertTypeOK
  /\ focus = "loops" => LoopTypeOK
  /\ focus = "chat" => ChatTypeOK
  /\ focus = "memory" => MemTypeOK
  /\ focus = "catalog" => CatTypeOK
  /\ focus = "parts" => PartTypeOK
  /\ focus = "firewall" => FwTypeOK
  /\ focus = "tools" => ToolTypeOK

\* Database instances, and installed apps.
InstallsWhole == (focus = "databases" => DbWhole) /\ (focus = "apps" => AppsWhole)

\* PHP: files and rows agree, and sites that are listed are served.
PhpWhole == PhpFilesMatch /\ SitesServed

\* What the outside reaches: tunnels and their routes, and the firewall's open ports.
NetworkWhole == (focus \in {"tunnels", "ingress"} => TunnelWhole) /\ (focus = "firewall" => FirewallSound)

\* Rows that refer to each other, with nothing else behind them: accounts and their codes, what
\* hosts refer to, and their routes.
RecordsSound ==
  /\ focus = "accounts" => AccountsSound
  /\ focus = "catalog" => CatalogSound
  /\ focus = "parts" => RoutesKept

\* The tools of chats and of MCP clients.
CallsSound == focus = "tools" => ToolsSound

\* What goes on in memory and in goroutines: alerts and self-healing, the loops that plugins
\* start and stop, the confirmations of chats, and memories.
GoroutinesSound ==
  /\ focus \in {"alerts", "heal"} => AlertsOnce
  /\ focus = "loops" => LoopsSound
  /\ focus = "chat" => ChatsConfirmed
  /\ focus = "memory" => MemoriesKept
=============================================================================
