-------------------------------- MODULE AppStore --------------------------------
(***************************************************************************)
(* Installed apps of the app store plugin (src/plugins/appstore) and the   *)
(* stacks of the docker plugin (src/plugins/docker), which share a table   *)
(* and the namespace of compose projects. An app has a row, a directory of *)
(* its own with a compose file and .env, a row among the stacks, a compose *)
(* project of its stack's name, and perhaps a host in Caddy.               *)
(*                                                                         *)
(* No request takes a lock; each works on the row it read when it began.   *)
(***************************************************************************)
EXTENDS Integers, FiniteSets

CONSTANTS AppReqs,     \* what serves requests, one at a time each
          AppIds,      \* rows of installed apps
          AppNames,    \* names of stacks, after sanitizing
          AppDomains,
          HostIds,     \* numbers of hosts in Caddy that are not used again while referred to
          AppVersions  \* versions of the catalogue's app, 0 .. n

ASSUME AppAssumption ==
  /\ AppIds \subseteq Nat \ {0} /\ HostIds \subseteq Nat \ {0} /\ AppVersions \subseteq Nat /\ 0 \in AppVersions
  /\ "none" \notin AppNames \cup AppDomains

VARIABLES appRow,     \* installed apps: name, status, domain, host and version
          appDir,     \* per app, the domain in .env and the version of the compose file
          appStack,   \* the stacks' rows, per name: 0, TheUser or an app
          appProject, \* per name, whose compose file the containers were started from
          appHost,    \* the hosts' domains
          appCatalog, \* the version in the catalogue
          appReq,
          appUnsure   \* names that two requests, an app and a user's stack, or a failure have met

appVars == <<appRow, appDir, appStack, appProject, appHost, appCatalog, appReq, appUnsure>>

Nil == "none"
TheUser == -1   \* in place of the number of an app
AppSteps == {"done", "insert", "write", "stack", "up", "host", "finish", "unstack", "unhost", "drop",
             "newhost", "save", "env", "mark", "rewrite", "reup", "user"}
AppRow == [there : BOOLEAN, name : AppNames \cup {Nil}, status : {Nil, "installing", "running", "stopped", "error"},
           domain : AppDomains \cup {Nil}, host : HostIds \cup {0}, ver : AppVersions]
NoApp == [there |-> FALSE, name |-> Nil, status |-> Nil, domain |-> Nil, host |-> 0, ver |-> 0]
AppDir == [there : BOOLEAN, domain : AppDomains \cup {Nil}, ver : AppVersions]
NoAppDir == [there |-> FALSE, domain |-> Nil, ver |-> 0]
AppRest == [step |-> "done", id |-> 0, copy |-> NoApp]

AppTypeOK ==
  /\ appRow \in [AppIds -> AppRow] /\ appDir \in [AppIds -> AppDir]
  /\ appStack \in [AppNames -> AppIds \cup {0, TheUser}]
  /\ appProject \in [AppNames -> AppIds \cup {0, TheUser}]
  /\ appHost \in [HostIds -> AppDomains \cup {Nil}]
  /\ appCatalog \in AppVersions
  /\ appReq \in [AppReqs -> [step : AppSteps, id : AppIds \cup {0}, copy : AppRow]]
  /\ appUnsure \subseteq AppNames

AppInit ==
  /\ appRow = [i \in AppIds |-> NoApp] /\ appDir = [i \in AppIds |-> NoAppDir]
  /\ appStack = [n \in AppNames |-> 0] /\ appProject = [n \in AppNames |-> 0]
  /\ appHost = [h \in HostIds |-> Nil] /\ appCatalog = 0
  /\ appReq = [r \in AppReqs |-> AppRest] /\ appUnsure = {}

AppAt(r, step) == appReq[r].step = step
AppGo(r, step) ==
  appReq' = [appReq EXCEPT ![r] = IF step = "done" THEN AppRest ELSE [@ EXCEPT !.step = step]]
AppCopy(r) == appReq[r].copy
AppName(r) == AppCopy(r).name
NamesAtWork == {AppName(r) : r \in AppReqs} \ {Nil}
Doubt(names) == appUnsure' = appUnsure \cup names

\* A request begins with the row it has read; another one at work on its name is remembered.
AppBeginIn(r, step, id, copy, doubt) ==
  /\ AppAt(r, "done")
  /\ appReq' = [appReq EXCEPT ![r] = IF step = "done" THEN AppRest ELSE [step |-> step, id |-> id, copy |-> copy]]
  /\ Doubt(({copy.name} \cap NamesAtWork) \cup doubt)
AppBegin(r, step, id, copy) == AppBeginIn(r, step, id, copy, {})

\* Updates of columns by number touch nothing when the row is gone.
Column(i, row) == appRow' = IF appRow[i].there THEN [appRow EXCEPT ![i] = row] ELSE appRow
StatusWord(i, status) == Column(i, [appRow[i] EXCEPT !.status = IF status = "running" THEN "up" ELSE status])
Status(i, status) == Column(i, [appRow[i] EXCEPT !.status = status])

\* docker compose in an app's directory, under its stack's name.
AppUp(i, n) == appDir[i].there /\ appProject' = [appProject EXCEPT ![n] = i]
AppUpFails(i, n) == appProject' \in {appProject, [appProject EXCEPT ![n] = i]}
AppDown(n) == appProject' = [appProject EXCEPT ![n] = 0]

FreeHosts == {h \in HostIds : /\ appHost[h] = Nil
                              /\ \A i \in AppIds : appRow[i].host # h
                              /\ \A r \in AppReqs : AppCopy(r).host # h}
NextHost == {h \in FreeHosts : \A g \in FreeHosts : h <= g}

-----------------------------------------------------------------------------
(* Installation.                                                           *)

\* No app has the stack's name: the row is inserted later, so two may pass.
InstallApp(r) ==
  /\ \E n \in AppNames, d \in AppDomains \cup {Nil} :
       /\ \A i \in AppIds : appRow[i].name # n
       /\ AppBegin(r, "insert", 0, [NoApp EXCEPT !.there = TRUE, !.name = n, !.domain = d,
                                                 !.status = "installing", !.ver = appCatalog])
  /\ UNCHANGED <<appRow, appDir, appStack, appProject, appHost, appCatalog>>

InsertApp(r) ==
  /\ AppAt(r, "insert")
  /\ \E i \in AppIds :
       /\ ~appRow[i].there /\ \A q \in AppReqs : appReq[q].id # i
       /\ \A j \in AppIds : j < i => appRow[j].there \/ \E q \in AppReqs : appReq[q].id = j
       /\ appRow' = [appRow EXCEPT ![i] = AppCopy(r)]
       /\ appDir' = [appDir EXCEPT ![i] = NoAppDir]
       /\ appReq' = [appReq EXCEPT ![r].step = "write", ![r].id = i]
  /\ UNCHANGED <<appStack, appProject, appHost, appCatalog, appUnsure>>

\* Directory, compose file and .env. A failure leaves the row, in error.
WriteApp(r) ==
  /\ AppAt(r, "write")
  /\ LET i == appReq[r].id IN
     \/ /\ appDir' = [appDir EXCEPT ![i] = [there |-> TRUE, domain |-> AppCopy(r).domain, ver |-> AppCopy(r).ver]]
        /\ AppGo(r, "stack") /\ UNCHANGED <<appRow, appUnsure>>
     \/ /\ Status(i, "error") /\ Doubt({AppName(r)}) /\ AppGo(r, "done") /\ UNCHANGED appDir
  /\ UNCHANGED <<appStack, appProject, appHost, appCatalog>>

\* The row among the stacks. A user's stack of the name keeps its own, and the app goes on.
RecordStack(r) ==
  /\ AppAt(r, "stack") /\ AppGo(r, "up")
  /\ LET n == AppName(r) IN
     IF appStack[n] = 0
     THEN appStack' = [appStack EXCEPT ![n] = appReq[r].id] /\ UNCHANGED appUnsure
     ELSE UNCHANGED appStack /\ Doubt({n})
  /\ UNCHANGED <<appRow, appDir, appProject, appHost, appCatalog>>

UpInstalled(r) ==
  /\ AppAt(r, "up")
  /\ LET i == appReq[r].id  n == AppName(r) IN
     \/ AppUp(i, n) /\ AppGo(r, IF AppCopy(r).domain = Nil THEN "finish" ELSE "host") /\ UNCHANGED appRow
     \/ AppUpFails(i, n) /\ Status(i, "error") /\ AppGo(r, "done")
  /\ UNCHANGED <<appDir, appStack, appHost, appCatalog, appUnsure>>

\* The host, if the app may be exposed. A domain that is taken is only logged.
HostInstalled(r) ==
  /\ AppAt(r, "host") /\ AppGo(r, "finish")
  /\ LET i == appReq[r].id  d == AppCopy(r).domain IN
     \/ UNCHANGED <<appHost, appRow>>
     \/ /\ \A h \in HostIds : appHost[h] # d
        /\ \E h \in NextHost : appHost' = [appHost EXCEPT ![h] = d] /\ Column(i, [appRow[i] EXCEPT !.host = h])
  /\ UNCHANGED <<appDir, appStack, appProject, appCatalog, appUnsure>>

FinishInstall(r) ==
  /\ AppAt(r, "finish") /\ Status(appReq[r].id, "running") /\ AppGo(r, "done")
  /\ UNCHANGED <<appDir, appStack, appProject, appHost, appCatalog, appUnsure>>

-----------------------------------------------------------------------------
(* Removal: containers, the stack's row, the host, the row. Failures are   *)
(* logged or ignored.                                                      *)

UninstallApp(r) ==
  /\ \E i \in AppIds :
       /\ appRow[i].there
       /\ \/ AppDown(appRow[i].name) /\ AppBegin(r, "unstack", i, appRow[i])
          \/ UNCHANGED appProject /\ AppBeginIn(r, "unstack", i, appRow[i], {appRow[i].name})
  /\ UNCHANGED <<appRow, appDir, appStack, appHost, appCatalog>>

KeepStackRow(r) ==
  /\ AppAt(r, "unstack") /\ AppGo(r, "unhost")
  /\ UNCHANGED <<appRow, appDir, appStack, appProject, appHost, appCatalog, appUnsure>>

\* The stack's row is found by its name, whoever it is.
DeleteStackRow(r) ==
  /\ AppAt(r, "unstack") /\ AppGo(r, "unhost")
  /\ appStack' = [appStack EXCEPT ![AppName(r)] = 0]
  /\ UNCHANGED <<appRow, appDir, appProject, appHost, appCatalog, appUnsure>>

Unhost(h) == appHost' = [g \in HostIds |-> IF g = h THEN Nil ELSE appHost[g]]

DeleteAppHost(r) ==
  /\ AppAt(r, "unhost") /\ Unhost(AppCopy(r).host) /\ AppGo(r, "drop")
  /\ UNCHANGED <<appRow, appDir, appStack, appProject, appCatalog, appUnsure>>

DropApp(r) ==
  /\ AppAt(r, "drop") /\ AppGo(r, "done")
  /\ appRow' = [appRow EXCEPT ![appReq[r].id] = NoApp]
  /\ appDir' = [appDir EXCEPT ![appReq[r].id] = NoAppDir]
  /\ UNCHANGED <<appStack, appProject, appHost, appCatalog, appUnsure>>

-----------------------------------------------------------------------------
(* UpdateDomain: the old host goes first.                                  *)

UpdateDomain(r) ==
  /\ \E i \in AppIds, d \in AppDomains \cup {Nil} :
       /\ appRow[i].there /\ Unhost(appRow[i].host)
       /\ AppBegin(r, "newhost", i, [appRow[i] EXCEPT !.host = 0, !.domain = d])
  /\ UNCHANGED <<appRow, appDir, appStack, appProject, appCatalog>>

\* No host without a domain, or for an app without a port. One that cannot be created ends
\* the request: the row keeps the number of the old one.
NewAppHost(r) ==
  /\ AppAt(r, "newhost")
  /\ LET d == AppCopy(r).domain IN
     \/ AppGo(r, "save") /\ UNCHANGED <<appHost, appUnsure>>
     \/ /\ d # Nil /\ \A h \in HostIds : appHost[h] # d
        /\ \E h \in NextHost :
             /\ appHost' = [appHost EXCEPT ![h] = d]
             /\ appReq' = [appReq EXCEPT ![r] = [step |-> "save", id |-> @.id, copy |-> [@.copy EXCEPT !.host = h]]]
        /\ UNCHANGED appUnsure
     \/ d # Nil /\ AppGo(r, "done") /\ UNCHANGED appHost /\ Doubt({AppName(r)})
  /\ UNCHANGED <<appRow, appDir, appStack, appProject, appCatalog>>

SaveDomain(r) ==
  /\ AppAt(r, "save") /\ AppGo(r, "env")
  /\ LET i == appReq[r].id IN Column(i, [appRow[i] EXCEPT !.domain = AppCopy(r).domain, !.host = AppCopy(r).host])
  /\ UNCHANGED <<appDir, appStack, appProject, appHost, appCatalog, appUnsure>>

EnvForgotten(r) ==
  /\ AppAt(r, "env") /\ AppGo(r, "done")
  /\ UNCHANGED <<appRow, appDir, appStack, appProject, appHost, appCatalog, appUnsure>>

\* The domain in .env, if there is one, and the containers again, whose failure is ignored.
RewriteEnv(r) ==
  /\ AppAt(r, "env") /\ AppGo(r, "done")
  /\ LET i == appReq[r].id IN
     /\ appDir' = IF appDir[i].there THEN [appDir EXCEPT ![i].domain = AppCopy(r).domain] ELSE appDir
     /\ UNCHANGED appProject \/ AppUp(i, AppName(r))
  /\ UNCHANGED <<appRow, appStack, appHost, appCatalog, appUnsure>>

-----------------------------------------------------------------------------
(* Start, stop and update.                                                 *)

StartApp(r) ==
  /\ \E i \in AppIds :
       /\ appRow[i].there /\ AppBegin(r, "done", i, appRow[i])
       /\ \/ AppUp(i, appRow[i].name) /\ Status(i, "running")
          \/ AppUpFails(i, appRow[i].name) /\ UNCHANGED appRow
  /\ UNCHANGED <<appDir, appStack, appHost, appCatalog>>

StopApp(r) ==
  /\ \E i \in AppIds : /\ appRow[i].there /\ appDir[i].there /\ AppBegin(r, "done", i, appRow[i])
                       /\ AppDown(appRow[i].name) /\ Status(i, "stopped")
  /\ UNCHANGED <<appDir, appStack, appHost, appCatalog>>

\* The app's row and the catalogue's are read, then the app is marked as being installed.
UpdateApp(r) ==
  /\ \E i \in AppIds : appRow[i].there /\ AppBegin(r, "mark", i, [appRow[i] EXCEPT !.ver = appCatalog])
  /\ UNCHANGED <<appRow, appDir, appStack, appProject, appHost, appCatalog>>

MarkUpdating(r) ==
  /\ AppAt(r, "mark") /\ Status(appReq[r].id, "installing") /\ AppGo(r, "rewrite")
  /\ UNCHANGED <<appDir, appStack, appProject, appHost, appCatalog, appUnsure>>

\* Both files are rendered from the row as it was read. A failure leaves the mark.
RewriteApp(r) ==
  /\ AppAt(r, "rewrite")
  /\ LET i == appReq[r].id IN
     \/ /\ appDir[i].there /\ AppGo(r, "reup") /\ UNCHANGED appUnsure
        /\ appDir' = [appDir EXCEPT ![i] = [there |-> TRUE, domain |-> AppCopy(r).domain, ver |-> AppCopy(r).ver]]
     \/ AppGo(r, "done") /\ UNCHANGED appDir /\ Doubt({AppName(r)})
  /\ UNCHANGED <<appRow, appStack, appProject, appHost, appCatalog>>

\* The version is written when the containers are up; otherwise the new files stay.
UpUpdated(r) ==
  /\ AppAt(r, "reup") /\ AppGo(r, "done")
  /\ LET i == appReq[r].id  n == AppName(r) IN
     \/ /\ AppUp(i, n) /\ UNCHANGED appUnsure
        /\ Column(i, [appRow[i] EXCEPT !.ver = AppCopy(r).ver, !.status = "running"])
     \/ AppUpFails(i, n) /\ Status(i, "error") /\ Doubt({n})
  /\ UNCHANGED <<appDir, appStack, appHost, appCatalog>>

\* A sync of the app's source brings another version.
NewVersion ==
  /\ appCatalog + 1 \in AppVersions /\ appCatalog' = appCatalog + 1
  /\ UNCHANGED <<appRow, appDir, appStack, appProject, appHost, appReq, appUnsure>>

-----------------------------------------------------------------------------
(* Stacks of the docker plugin.                                            *)

\* No stack has the name; the row is inserted, and the stack perhaps started, later.
CreateStack(r) ==
  /\ \E n \in AppNames : appStack[n] = 0 /\ AppBegin(r, "user", 0, [NoApp EXCEPT !.name = n])
  /\ UNCHANGED <<appRow, appDir, appStack, appProject, appHost, appCatalog>>

InsertStack(r) ==
  /\ AppAt(r, "user") /\ AppGo(r, "done")
  /\ LET n == AppName(r) IN
     IF appStack[n] = 0
     THEN /\ appStack' = [appStack EXCEPT ![n] = TheUser]
          /\ appProject' \in {appProject, [appProject EXCEPT ![n] = TheUser]}
     ELSE UNCHANGED <<appStack, appProject>>
  /\ Doubt({n \in {AppName(r)} : \E i \in AppIds : appRow[i].name = n})
  /\ UNCHANGED <<appRow, appDir, appHost, appCatalog>>

\* A stack that the app store manages is refused. One that does not go down is kept.
DeleteStack(r) ==
  /\ \E n \in AppNames : /\ appStack[n] = TheUser /\ AppBegin(r, "done", 0, [NoApp EXCEPT !.name = n])
                         /\ AppDown(n) /\ appStack' = [appStack EXCEPT ![n] = 0]
  /\ UNCHANGED <<appRow, appDir, appHost, appCatalog>>

\* Up and down are for every stack, in the directory its row names; an app's row is told
\* nothing.
StackUpDown(r) ==
  /\ \E n \in AppNames :
       /\ appStack[n] # 0 /\ AppBegin(r, "done", 0, [NoApp EXCEPT !.name = n])
       /\ AppDown(n) \/ appProject' = [appProject EXCEPT ![n] = appStack[n]]
  /\ UNCHANGED <<appRow, appDir, appStack, appHost, appCatalog>>

-----------------------------------------------------------------------------
AppPanelDies ==
  /\ NamesAtWork # {} /\ Doubt(NamesAtWork)
  /\ appReq' = [r \in AppReqs |-> AppRest]
  /\ UNCHANGED <<appRow, appDir, appStack, appProject, appHost, appCatalog>>

AppNext ==
  \/ NewVersion \/ AppPanelDies
  \/ \E r \in AppReqs :
       \/ InstallApp(r) \/ InsertApp(r) \/ WriteApp(r) \/ RecordStack(r) \/ UpInstalled(r)
       \/ HostInstalled(r) \/ FinishInstall(r)
       \/ UninstallApp(r) \/ DeleteStackRow(r) \/ DeleteAppHost(r) \/ DropApp(r)
       \/ UpdateDomain(r) \/ NewAppHost(r) \/ SaveDomain(r) \/ RewriteEnv(r)
       \/ StartApp(r) \/ StopApp(r) \/ UpdateApp(r) \/ MarkUpdating(r) \/ RewriteApp(r) \/ UpUpdated(r)
       \/ CreateStack(r) \/ InsertStack(r) \/ DeleteStack(r) \/ StackUpDown(r)

AppSpec == AppInit /\ [][AppNext]_appVars

-----------------------------------------------------------------------------

\* An installed app is what its row says: nobody else has its stack's name, the stack's row
\* and the containers are its own, its host has its domain, its files have its domain and
\* its version once it has run, and it is not forever being installed. Excepted are names
\* that two requests have met, that a user's stack has, where a request has failed half-way,
\* a new host was refused or removed containers did not go down, or whose request the
\* panel's death has cut short.
AppsWhole ==
  /\ \A i \in AppIds :
       LET row == appRow[i] IN
       row.there /\ row.name \notin appUnsure \cup NamesAtWork =>
        /\ row.status # "installing"
        /\ \A j \in AppIds \ {i} : appRow[j].name # row.name
        /\ appStack[row.name] = i /\ appProject[row.name] \in {0, i}
        /\ row.host # 0 => appHost[row.host] = row.domain
        /\ appDir[i] = [there |-> TRUE, domain |-> row.domain, ver |-> row.ver]
  /\ \A n \in AppNames \ (appUnsure \cup NamesAtWork) :
       /\ appStack[n] \in AppIds => appRow[appStack[n]].name = n
       /\ appProject[n] = TheUser => appStack[n] = TheUser
=============================================================================
