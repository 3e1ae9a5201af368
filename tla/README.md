# A verification model of the server management dashboard

The dashboard ("ServerDash") is one Go process, the panel. It keeps its state in SQLite through gorm and acts
on a server: it writes and reloads the configuration of a Caddy reverse proxy, builds and deploys projects as
systemd units or docker containers, and carries thirteen plugins. This directory holds TLA+ modules of its
core and of most of its plugins, configurations that check them with TLC, and proofs that TLAPS checks. Paths below are relative to
`src/`.

## 1. The system

### Components

| component | state | operations | hard behaviour |
|---|---|---|---|
| deploy plugin: build queue (`plugins/deploy/service.go`) | rows of projects and deployments, one channel of capacity 1 per project (`buildSems`), active logs | `Build`, `runBuild`, `Rollback`, `StartProject`, `StopProject`, `DeleteProject` | goroutines that interleave at every database call; a queue with a timer; error returns that must release the lock; in-memory rows saved late; a stop of the panel |
| deploy plugin: deploy phase (`service.go`, `process.go`, `docker_runner.go`) | units and containers, the project's port, its host's upstream | `runBareDeploy`, `runDockerDeploy`, and the calls above | a new process beside the old one, traffic switched between them; each of a dozen calls may fail; supervisors restart processes |
| host configuration (`internal/service/host.go`, `internal/caddy`) | rows of hosts, the Caddyfile, what Caddy has loaded | `Create`, `Update`, `Toggle`, `Delete`, `ApplyConfig`, the editor, Start/Stop/Reload, `Upgrade` | three copies of one state with no lock over their synchronisation; rollback of a file another request may have replaced; a row saved from a stale read |
| plugin manager (`internal/plugin/manager.go`) | `plugin_states` rows, the guard's map, the plugins' tasks | `InitAll`, `StartAll`, `Enable`, `Disable`, `SetSidebarVisible`, the guard | three places say whether a plugin is on; partial failures; restarts in the middle of seeding |
| event bus and notifications (`internal/plugin/eventbus.go`, `internal/notify`, `main.go`) | subscriptions, channels | `Publish`, `Subscribe`, `Send` | synchronous handlers; matching by exact type |
| cron of the deploy plugin (`plugins/deploy/cron.go`), cronjob plugin (`plugins/cronjob`) | scheduler entries, running tasks, the user's crontab | start/stop, add/remove, execute with retries, crontab editor | stop and start while tasks run; overlapping runs; optimistic locking by hash |
| accounts (`internal/auth`, `internal/service/totp.go`, `internal/handler/auth.go`) | users, second factor, recovery codes, attempts per address | setup, login in one or two steps, 2FA on and off | read-modify-save of a user's row; check and record in two sections |
| upgrade of Caddy (`internal/caddy/manager.go`) | the binary, its `.bak`, the process | `Upgrade`, `Start`, `Stop` | a chain of renames and processes, each of which may fail; the panel may die in it |
| extra processes of a project (`plugins/deploy`) | rows, units or containers numbered per instance | CRUD, restart, start by a build | names and counts that change while instances exist |
| backup (`plugins/backup`) | snapshots, one staging directory, one connection file of Kopia, a schedule | backup, restore, delete, test, configure | operations that move each other's connection; a backup that outlives Stop |
| database, PHP, app store, docker (`plugins/...`) | rows, directories, containers, volumes, hosts | install, configure, update, uninstall | chains of five to ten steps with rollbacks by hand; slugs that two names share |
| firewall, tunnel | firewalld's permanent and live rules; cloudflared's files | rules, zones, ingress | two copies of the rules; files rewritten from a stale read |
| file manager | the file system, archives, terminals | change, pack, extract; sessions of two goroutines | walks over what changes; a limit checked under one lock and used outside it |
| monitoring, AI | rules and counts; chats, confirmations, memories; loops | evaluate, heal, confirm, remember | goroutines and channels; a loop that outlives Stop; identifiers chosen by a model |
| groups, tags, templates, certificates, DNS providers, import and export | rows that hosts refer to, certificate files | CRUD that ends in `ApplyConfig` | references to rows that go; defaults; presets |
| core API, built-in tools, MCP | tokens, permissions | what others may ask the panel for | several changes per call, some only announced; tokens deleted between two requests |
| web interface, scripts | none that the server relies on | | |

### Interactions

* HTTP handlers call services; gorm calls are the atomic steps of the database. Nearly no request uses a
  transaction, and gorm's `Save` inserts a row that is gone: any state kept in memory across two calls may come back.
* The deploy plugin calls the core API (`CreateHost`, `UpdateHostUpstream`, `ReloadCaddy`, `DeleteHost`),
  which lands in `HostService.ApplyConfig`, the one place where the database becomes the Caddyfile.
* Plugins publish events on the bus; `main.go` subscribes the notifier to them, the AI plugin to failed builds,
  the deploy plugin to `deploy.trigger_build`.
* The core API turns some calls into events (`cronjob.reload`, `deploy.trigger_build`, `backup.trigger`), handled inside the publishing call.
* The tools of a chat call the core API; those of an MCP client call it, publish, or send a request to the panel's own server.
* The plugin manager decides which plugins' routes answer and which plugins' background tasks run.
* systemd, docker and Caddy are separate processes that outlive a stop of the panel.

### What makes each component correct

* Build queue: one pipeline per project at a time; no return leaks or doubles the lock; a queued call is
  answered whatever happens in front of it; rows and statuses never stay at "building" after a pipeline that
  ended; two builds have two numbers; a rollback's mark stays.
* Deploy phase: the port that traffic goes to always has a process; row, process and upstream agree
  afterwards; failed and deleted deployments leave no process behind; after the promotion the new process is
  the main one.
* Host configuration: between requests database, file and running Caddy agree, as far as no failure came
  between; no host loses what belongs to it; a rollback restores what Caddy runs; deleted hosts stay deleted.
* Plugin manager: a disabled plugin is blocked and stopped, an enabled one has its dependencies and starts after them; Enable takes
  effect.
* Schedulers: each has exactly the entries its rows call for; a task, a backup and a handling of an event run
  once, and their guards are released.
* Upgrade of Caddy: all or nothing for the binary, and the new version runs where the old one ran.
* Whatever is installed (databases, PHP, apps, tunnels, extra processes): row, directory, container and host
  say the same once no request is at work, also after a step that failed.
* Records: no reference to a row that is gone, no route to another host's upstream, a second factor that can
  be used, one account at least.
* Files: a backup holds the files of its own run; an archive gives back what was packed.
* Goroutines and tools: at most one loop of a plugin, none when it is disabled; an alert once in its cooldown;
  an answer reaches the tool call it was given for; a tool changes nothing that was not asked for or granted.

## 2. The plan

1. `SerialService`, `DeployBuilds`: the build queue and the service it implements. *Done, with proofs.*
2. `DeployTraffic`: the deploy phase, on the assumption proved by 1 that pipelines do not overlap. *Done,
   with proofs.*
3. `HostConfig`: database, Caddyfile and Caddy. *Done, with proofs.*
4. `Plugins`: the plugin manager. *Done, with proofs.*
5. `Events`: the bus and the notifier. *Done, with proofs; `NotifierHears` violated.*
6. `Cronjobs`, `Crontab`, `DeployCron`: the schedulers. *Done, with proofs.*
7. `Accounts`: users, second factor, recovery codes. *Done, with proofs, without the limiter of logins.*
8. `CaddyUpgrade`: the binary under Upgrade, Start and Stop. *Done, with proofs.* It is not composed with
   `HostConfig`, which has its own view of a Caddy that stops and starts.
9. `Backups`, `Alerts`, `Loops`: schedules, alert states, self-healing, and the loops that plugins start. *Done,
   with proofs.*
10. What installs something: `Databases`, `PhpRuntimes`, `PhpSites`, `AppStore`, `Tunnels`, `DeployExtras`.
    *Done, with proofs.*
11. What hosts are made of and refer to: `HostParts`, `Catalog`. *Done, with proofs.*
12. `Firewall`, `Files`, `Terminals`, `AiChat`, `Tools`. *Done, with proofs.*

Left: the limiter of logins; the ports of two projects; a composition of `HostConfig` with
the requests of `AppStore` and `PhpSites`, which here create and delete hosts in one step.

Abstract specification: `SerialService`, a queue in front of one worker.

## 3. The modules

### DeployBuilds (with SerialService, MCDeployBuilds, DeployBuildsProofs)

One project, any number of `Build` and `Rollback` calls, one deletion at a time. Each action is one database
call, or one operation on the semaphore, of `Build` and `runBuild`, named for what it does:
`BuildCall`/`Dequeue`/`QueueTimeout` (the two selects), `ReadProject`, `CreateRow`, `MarkBuilding`, `OpenLog`,
then in the pipeline's goroutine `BuildFails`+`MarkError` or `BuildSucceeds`+`Deploy`, and `Close`, the deferred
function. `Release` is a receive of *any* token, as in the code. `SaveRow` writes the whole row and re-inserts a
deleted one, as gorm's `Save` does. `Rollback`, `StartProject`, `StopProject` and `DeleteProject` take no
lock and come between any two steps. `Crash` stops the panel: the rows are what is left. Writes whose error
the code ignores succeed in the model; those whose error it handles (`Create`, the log file) may fail.

The Go runtime hands the token of a released channel to the sender that waited longest; the model lets any
waiting or new call take it, which includes that order.

`SerialService` is what such a queue promises its clients: wait or be served, one at a time, leave once, and
an outage ends every visit. `stage` maps a Build call's program counter to it.

### DeployTraffic (with DeployTrafficProofs)

What `Deploy` of the first module abstracts. A *slot* is the main or staging unit (bare) or container
(docker): the port it is defined with, the port its process listens on (none when it has exited) and whether its supervisor
restarts it. `caddy.db` is the upstream in the host's row, `caddy.live` the one in Caddy's loaded
configuration. Ports are the allocator's two and one that the user may choose. Every call that can fail does:
a unit or container that does not start, a process that exits, an unhealthy one, a host or upstream that
cannot be applied, a rename. Both modes share the actions; where they differ a disjunct names the mode.
`faulted` and `disturbed` are history variables: some call to Caddy or a container rename has failed; some
call without the lock came into a deployment or edited the port. Properties that are about an undisturbed
project name them, so what they excuse can be read off.

### HostConfig (with MCHostConfig, HostConfigProofs)

`db`, `file` and `live` are the three copies of the configuration; `Render` maps the first to the second. A
host is enabled or disabled and *whole* or not: Update deletes what belongs to it before it inserts the new.
A request runs Create, Delete, Toggle or Update up to its call of `ApplyConfig`, then `List`, `ReadOld`,
`Write`, `Check`, and `ReloadRead`, `ReloadLoads`/`ReloadFails`, `Rollback` or `StartInApply`: one action per
access to the database, the file or the Caddy process, since the manager's mutex covers a single write. The panel's own start
(`main.go`) is a caller too. The editor, the buttons, the auto_reload setting and a restart of the panel come
between. `crowd`, `ahead` and `stale` are history variables: requests have overlapped since the last quiet
moment; the database may differ from the file; the file may differ from what Caddy runs. They are cleared
only by an `ApplyConfig` that succeeded with nobody else active, so the properties say that such a call
*repairs* whatever was there, and that failing later calls do not break it. `revived`, the fourth, excuses
`NoHalfHost` after a case that takes three requests: a Toggle reads a host in the middle of an Update, the
Update ends, a Delete removes the host, and the Toggle saves it again as it had read it.

### Plugins (with MCPlugins, PluginsProofs)

The row, the guard's map, the registered routes and the running tasks of every plugin. The start of the panel is a
sequence of phases (`Migrate`, `Seed`, `InitPlugin`, `StartPlugin`), each of which may break off as in the
code; `Enable` and `Disable` are chains of actions under the manager's mutex (`pc`, `who`);
`SetSidebarVisible` takes no lock. `Restart` may come anywhere. `Init` allows the rows of a fresh install and of an
upgrade that brings new plugins.

### Caddy: CaddyUpgrade (with OperationsProofs)

`bin` and `saved` are `CaddyBin` and its `.bak`, `proc` the process with its version and data directory.
`Upgrade` is the chain `BeginUpgrade`, `Download`, `StopForUpgrade`, `BackupBinary`, `InstallBinary`,
`RestartCaddy`, `FinishUpgrade`; Start and Stop wait, as they need the same mutex. `UpgradeAtomic` excuses only an upgrade in which the panel died
(`torn`): nothing takes up a left-over `.bak`. It does not say that Caddy runs after a failure: two
failing returns leave it stopped, and the third starts the old version without `XDG_DATA_HOME`, that is with
other certificates.

### Schedulers: Cronjobs, Crontab, DeployCron

*Cronjobs* follows one task: row, entries of the runner, `s.running`, executions with their retries, panics
and cancelled contexts, and requests of the plugin's routes and of the core API (which writes the row and
publishes `cronjob.reload`). `CronOneRun` excuses an execution that Start has found in progress (`crossed`):
`service.go:71` replaces the map under it. `CronEntryIffOn` excuses overlapping requests (`crowd`).
`CronGuardReleased` is the liveness of the guard.

*Crontab* is the page that edits the user's crontab: loaded with a hash, saved if the hash is the same. Other programs
edit the file, too. `CrontabSeen` excuses an edit between the comparison and the installation (`slipped`), which no
lock of the panel keeps out.

*DeployCron* is the deploy plugin's scheduler, which keeps its runner over a stop and a start. Start adds every
job again: `JobEntriesMatch` therefore bounds the entries by the number of starts, and does not say "one".

### DeployExtras

One extra process: the row, its units or containers by name and number, those that run, and the row that a
build has read and is starting. `ExtrasBelong` excuses a renamed or shrunk process (`altered`,
`UpdateExtraProcess` stops nothing) and a request that came while a build was starting it (`overlap`).

### Backups

Backup, restore, deletion and test as steps, the configuration and the schedule, Start, Stop and a crash. `conn` is
the one connection file of Kopia, `staging` the one directory. `BackupOneRun` has no exception.
`BackupContent` excuses backups whose staging directory a Start has swept (`swept`) and those for which another
operation has connected elsewhere (`moved`): for both the code does take a wrong or incomplete snapshot and
calls it completed. `BackupSchedule` excuses overlapping configuration requests.

### Events

Subscriptions are made plugin by plugin, then `main` subscribes the notifier; the cronjob plugin may be
disabled and enabled. A publication calls its handlers one by one, any of which may panic; `Send` starts a
goroutine per channel. `HandledOnce` and `FailuresNotified` hold of `cronjob.task.failed`, the one event
whose exact type `main.go` names. Two more events never find whom they are for: the diagnosis of a failed build
(`plugins/ai/plugin.go`) reads `deployment_id` as a `float64` that `deploy/service.go:479` publishes as a `uint`; and
`database.create_instance`, `appstore.install`, `deploy.start_project`, `deploy.stop_project`,
`deploy.rollback` and `notify.test_channel` (`coreapi.go:1482`) have no subscriber at all, so that the chat's
tools that publish them answer with success and nothing happens.

### Terminals (with OperationsProofs)

A connection takes a place under the lock (`Reserve`), starts its shell outside it, and registers. Two
goroutines serve it; `CloseSession`, `CleanupStale`, `StopTerminals` end it. `ShellsBounded` excuses a Stop
that came while a session was being created (`termCut`): `CloseAll` forgets the reserved place and the shell
registers all the same. `PlacesReturned`: the handler waits for a shell that says nothing
(`handler.go:331`); the clean-up frees its place.

### Files (with OperationsProofs)

`tree` maps paths to directories, files and archives. Writing truncates first; packing walks the sources
entry by entry while other requests change them; extraction writes entry by entry. `PackedComplete` and
`GivesBack` have no exception but what they say. A failed `Compress` leaves a file with some of the entries, and
sources with the same base name share an entry (`archive.go:86`), so the run selects none; an archive made in
its own source is left out. `FileAssumption`: a path is a list of names, and what requests select, and write to
outside an extraction, lies below the root of the file manager.

### Databases, PhpRuntimes, PhpSites, AppStore, Tunnels (with InstallsProofs, PlatformProofs)

Each request is the chain of its steps on rows, directories, containers, volumes, hosts and files, with the
failures that the code handles and those it ignores; the panel may die between any two. A value (a password, a
setting, a version) is named after the request that brought it, so that a mixture is seen. The properties
say that once nobody is at work at an instance its parts agree. They excuse what `dbUnsure`, `phpUnsure`,
`siteUnsure`, `appUnsure` and `tunMet` collect: two requests that met, a death of the panel, and the
failures that the code leaves half undone, which the comments of these variables name: a rollback that leaves a
volume with its old password, a pool refused after its `php.ini` was written, a refused new domain after the old host is gone.
`PhpUndone` covers the changes of the configuration and the removal of an extension; the installation of an
extension is not in it, since its rollback saves the row with the merged list (`php/service.go:436`).
`PhpSites` works on the runtimes of `PhpRuntimes`; `AppStore` holds the stacks of the docker plugin, with whose
table and compose projects it shares names. A host is known by its number: sites and apps keep it after the host is
gone, so a new host gets a number that none of them names (`UnusedHost`, `NextHost`), as SQLite gives them out.
The deletion of a FrankenPHP site removes the directory and the container of its slug, also when they are another site's:
that site is then in `siteUnsure`.

### Accounts (with RecordsProofs)

`acct` has the rows of users, `acctReq` the copy that a request has read and will save. Setup, creation,
change, deletion, the second factor's secret, its verification and disabling, and logins with a recovery code.
Some parts of `AccountsSound` hold whatever meets, the others excuse two requests that met (`acctMet`): two setups
make two accounts, and a login saves a whole row it has read before.

### Alerts, Loops, AiChat (with PlatformProofs)

*Alerts*: rules with duration and cooldown, evaluated by any number of collection loops under one mutex, and
the handlers that self-heal. `AlertsOnce` has no exception for rules; the limit of self-heals excuses two
alerts handled at the same time (`healMet`).

*Loops*: the goroutines that four plugins start and stop, under the plugin manager's Enable and Disable and the
settings of the inspection. A loop reads the channel that ends it anew at each wait (`lpLoop.on`), which is
what `OneLoop` and `LoopRuns` are about; their comments name what the code does not keep.

*AiChat*: turns with tool calls whose identifiers the model chooses, the map of confirmations, and memories.
`ChatsConfirmed`: a tool that needs it runs only on the approval of its turn's own user, a turn that waits can be
answered, and nothing is left in the map; it excuses identifiers that met, calls answered twice, and conversations deleted
during a turn.

### Catalog, HostParts (with RecordsProofs)

*Catalog* has the rows that hosts refer to, one module for groups, tags, providers and certificates, since they
meet in the host's row; presets of templates; export and import. Whether a foreign key is checked depends
on the connection of the pool, since the pragma is set on the first one only. *HostParts* has the upstreams
and the routes that refer to them.
`SeqDrop`, which `Tunnels` uses too, is a sequence without some of its elements, as a recursive function that can be proved about. The lists a refused update has deleted (`host.go:417`
validates after the deletion) are excused by `partCut`.

### Firewall

Permanent and live rules per zone. Every change writes the first and reloads. `InForce` excuses failed reloads
(`fwBehind`), `StaysOpen` is about zones where a start of the daemon by the panel has opened its port and ssh.
The port to protect is a setting that nothing writes, so a panel on another port than 39921 is not
protected (`fwKnown`).

### Tools

A tool is a record: what it asks for (role, confirmation, scope) and the changes its handler makes, in order and by
which way ("core", "event", "http"). Both sets are translated from the registrations; tools with the same demands and changes share a record.
`ToolsSound` says what a call may change and when its answer may say "ok"; it excuses what is only announced by an event,
and the build that `deploy_project` asks for, whose answer nobody reads.

### MCOperations, MCPlatform (with OperationsProofs, PlatformProofs)

These components share no state, so one run takes them one by one: `focus` is chosen in the
initial state and says which component moves, all others keep the value `Off`. The state space is the sum of
theirs and not the product, and each component is checked as if alone. `Cronjobs` and `Backups` are taken twice, with executions
and one request, and with requests among themselves; `Tunnels` as rows and as rules; `Alerts` with and without
self-healing; `PhpRuntimes` alone and with `PhpSites`. The invariants of the run conjoin those of the modules:

| property | parts |
|---|---|
| `SchedulersMatch` | `CronEntryIffOn`, `JobEntriesMatch`, `BackupSchedule` |
| `OneRun` | `CronOneRun`, `BackupOneRun`, `EventsSound`, `ShellsBounded` |
| `ContentKept` | `ExtrasBelong`, `BackupContent` |
| `ArchivesSound` | `FilesSound` |
| `HeldIsReleased` | `CronGuardReleased`, `PlacesReturned` |
| `InstallsWhole` | `DbWhole`, `AppsWhole` |
| `PhpWhole` | `PhpFilesMatch`, `SitesServed` |
| `NetworkWhole` | `TunnelWhole`, `FirewallSound` |
| `RecordsSound` | `AccountsSound`, `CatalogSound`, `RoutesKept` |
| `GoroutinesSound` | `AlertsOnce`, `LoopsSound`, `ChatsConfirmed`, `MemoriesKept` |
| `CallsSound` | `ToolsSound` |

## 4. The runs

| run | module, configuration | what it asks | result |
|---|---|---|---|
| build_queue | MCDeployBuilds, DeployBuilds.cfg | 3 builds, 1 rollback, 1 stop of the panel, symmetric builds; 236 000 states | six invariants, `RolledBackStays`, refinement of SerialService: hold |
| build_queue_live | DeployBuilds, DeployBuildsLive.cfg | 2 builds, fairness, no symmetry; 43 000 states | `QueuedAnswered`, `LockFreedUnlessHung`: hold |
| traffic | DeployTraffic, DeployTraffic.cfg | 3 deployments, both modes; 525 000 states | `ZeroDowntime`, `PortsAgree`, `NoStagingLeft`, `DeleteCleansUp`: hold |
| traffic_bare | DeployTraffic, DeployTrafficBare.cfg | 2 deployments, bare | `StagingPromoted`: violated |
| config | MCHostConfig, HostConfig.cfg | 2 requests on one host, 1 editor, 1 restart; 1.58 million states | `LiveIsFile`, `FileIsDb`, `NoHalfHost`: hold |
| config_known_good | HostConfig, HostConfigKnownGood.cfg | 2 requests, nothing else | `KnownGoodRestored`: violated |
| config_toggle | HostConfig, HostConfigToggle.cfg | 2 requests, nothing else | `OnlyCreateAddsHosts`: violated |
| plugins | MCPlugins, Plugins.cfg | 4 plugins, two depending on a third; 1.7 million states | `DepsEnabled`, `DisabledIsBlocked`, `RunningIsEnabled`, `DepsStartedFirst`: hold |
| plugins_enable | MCPlugins, PluginsEnable.cfg | the same | `EnableTakesEffect`: violated |
| operations | MCOperations, Operations.cfg | 11 foci, each with two of what competes (executions, requests, backups, connections); 410 000 states | `SchedulersMatch`, `OneRun`, `ContentKept`, `ArchivesSound`, `UpgradeAtomic`, `CrontabSeen`, `HeldIsReleased`: hold |
| platform | MCPlatform, Platform.cfg | 16 foci, two requests each, symmetric users and account requests; 610 000 states | `InstallsWhole`, `PhpWhole`, `NetworkWhole`, `RecordsSound`, `GoroutinesSound`, `CallsSound`, `PhpUndone`: hold |
| events | Events, Events.cfg | one publication, one channel | `NotifierHears`: violated |

Each property of a passing run has a mutant in `PROJECT.json`, the changed operator standing right before the
one it changes in its module: the run finds the property violated with it.

**Bounds.** Three builds are the least with one in the pipeline and two that compete for the token; the
rollback and the deletion need no second one, as they keep no state across calls. Two deployments are the least that
take the zero-downtime path; the third goes back to the first port. Two requests are the
least that overlap; the editor and the restart are third parties. Hosts are independent in `Render`, so one
suffices for what the properties compare. Four plugins give a dependency with two dependents and one plugin on its own, as in the
code (`docker`; `php`, `appstore`; `ai`). `MaxCrashes`, `MaxDeploys` and `MaxRestarts` bound the counters,
nothing else does.

In operations and platform two requests meet, on one or two subjects; a third only for databases, where the second
name of a slug needs its own. Two names with one slug, two targets, two users, two domains are the least that can be confused.
`MaxRetries` 1 lets a retry happen, `MaxStarts` 2 a second start, `MaxUpgrades` 2 an upgrade after a failed one,
`MaxSessions` 1 lets the limit be reached by two connections. Where the properties excuse what
happens after a meeting, the `...Next` of MCPlatform lets the requests that have met run to their end and begins none:
the excused part of the state space is not explored further. The comments at `CatalogNext`, `FirewallNext`,
`FilesNext` and the others name what each leaves out.

**Fairness** (`FairSpec` of DeployBuilds): the Go runtime schedules every goroutine and fires every timer, so
each step of `Build`, the writes after a failure and the deferred function are weakly fair. The steps out of
"building" and "deploying" are not: `git fetch` runs without a context, and nothing bounds what systemctl or
docker wait for. Nor is `Dequeue`, since another call may take the token first.

In operations: `CronFairness`, each execution goes on, since commands have a timeout of at most a day and
retries wait for seconds; `TermFairness`, goroutines go on, sessions age and the clean-up ticks while the
plugin is started. A shell need not say anything and a client need not leave.

**What the violated properties show**

* `StagingPromoted` (`process.go:61`, `service.go:645`): the comments say that the staging service is renamed
  to the main one. `PromoteStaging` renames the unit's file, and the process stays in the unit of the old
  name. `IsRunning` of the main unit is false from then on: the project is listed as stopped, Stop and
  Delete do not reach the process, and the next deployment takes the first-deploy path.
* `KnownGoodRestored` (`host.go:572`): "Rollback: restore old Caddyfile so Caddy stays on the last known-good
  config". With two requests that overlap, the old content was read before the other request wrote and
  loaded its own.
* `OnlyCreateAddsHosts` (`host.go:487`, `host.go:503`): Toggle reads the host, Delete removes it, Toggle saves
  it, and `Save` inserts it again.
* `EnableTakesEffect` (`manager.go:212`): "Takes effect immediately". `SetSidebarVisible` on a plugin without
  a row creates one that is enabled; `Enable` then has nothing to do while the guard blocks the plugin.
* `NotifierHears` (`main.go:292`): "Subscribe notifier to EventBus for deploy/backup/monitoring events". The
  subscriptions are to "deploy.*" and the like, and the bus looks handlers up by the exact type or "*"
  (`eventbus.go:46`): no such event ever reaches a channel.

## 5. The proofs

`DeployBuildsProofs`, from `MaxCrashes \in Nat` and for any sets of calls:

* `TypeCorrect`; then `MutualExclusion` and `LockIsNeverLeaked` from the invariant `LockInv`. `OnePipeline`
  alone is not inductive: a state with a free semaphore and a pipeline satisfies it, and the next build breaks
  it. `LockMatchesHolder` is what is missing, and itself needs `OnePipeline`: a release with two holders would free the
  token under one of them. `BuildStepOnLock` reduces the twelve actions of a build to three effects on the lock.
* `RowsAreSettled` and `NoPhantoms`, each inductive with the types.
* `RollbackMarksStay`, from `RowsComeLater`: a call that has not reached `CreateRow` has no row.
* `NumbersStayDistinct`, from `NumInv`: until the first rollback, a call that has read the project holds the next
  number until it writes it there, and the numbers written are at most `current_build` and differ.
* `BuildsAreServedInTurn`: every step is a step of SerialService or a stutter. `LockMatchesHolder` gives
  `Serve` its guard.

`PluginsProofs`, from `DepsAssumption` and `DefaultAssumption` (the plugin enabled by default has no
dependencies), for any set of plugins and any dependencies:

* `PluginTypes`, `DependenciesStayEnabled`, `GuardCoversDisabled`, `OnlyEnabledRun`, `DependenciesStartFirst`,
  all from `ManagerInv`. Its parts `BootInv` and `StepInv` say what the phases of the start and the steps of
  Enable and Disable know: for example that between `Stop` and `PersistOff` the plugin has no enabled dependents, which
  holds only because the mutex keeps `Enable` out.

`DeployTrafficProofs`, from `ModesAssumption` and `MaxDeploysAssumption`: `TrafficTypes`, `PortsAlwaysAgree`,
`StagingIsRemoved`, `DeletionIsComplete` and `TrafficIsAlwaysServed`, from `TInv`. Two processes never listen on one port
(`Exclusive`); and of a clean history it says, step by step, that the deployment works on the row as it is
(`Undisturbed`), which port the upstream leads to (`Traffic`), and on which the main and the staging process are
(`MainPlace`, `StagingPlace`). `ZeroDowntime` follows because both processes listen while the upstream is switched, the old one on the port it led to
and the new one on the port it leads to.

`HostConfigProofs`, from `CallersAssumption` (requests, editors and the start of the panel are different
requests), `AutoReloadAssumption` and `MaxRestartsAssumption`, for any sets of hosts, requests and editors:
`HostTypes`, `LiveConfigIsFile`, `FileIsRendered` and `HostsAreWhole`. The properties speak of the moments
between requests. The invariant `IInv` adds what holds during one: without an overlap one request at most is
under way (`Alone`); what it has rendered is the database and what it keeps for the rollback is the file it
replaces (`OwnView`); from its write to its end Caddy runs what it keeps, and else the file (`LiveKept`); the
file is the rendering unless a request is about to make it so (`FileKept`); a half host has an Update between
its two steps or one that ended there (`HalfExplained`). An `ApplyConfig` that kept the old content after its
write, or went on after a refused one, breaks `OwnView` or `LiveKept` at that step. `IInv` was model-checked
before it was proved.

The first sections of `OperationsProofs` are on `CaddyUpgrade` and `Terminals`. From `UpgradeAssumption`: `UpgradeTypes` and
`UpgradesAreAtomic`. `UpgradeAtomic` speaks of the end of an upgrade; `WhereTheOldBinaryIs` says at each of its steps
whether the old binary is `CaddyBin` or its backup, and that is inductive.

From `TermAssumption` (finitely many connections): `TerminalTypes` and `ShellsAreBounded`.
The number of shells is not inductive: the proof counts places. `PlacesKept` (who is creating a
session has its place) and `ShellsInMap` make the running shells a part of them; `LimitStep` shows that only
`Reserve` adds a place.

It then has an invariant for each component of the run operations, and their conjunction for the component
in focus, `OpsInv`. Each says what the property leaves open: at which step of a request, an execution or a backup the
parts differ, and what that request has still to do. The assumptions are the modules' own (bounds are natural numbers,
the special targets and rows are none of the others) and `FirstReqAssumption`. It holds for any number of
executions, requests, backups, channels, publications, connections and pages.

* `RunsAreAlone` (`OneRun`). `CronInv`: the guard of a task is set only while an execution that will release it is in progress,
  and unless two have crossed one at most is. `BakInv`: a backup past its lock is the only one. `EvInv`: a
  publication that has still to be handled was handled by nobody, and that of a failed task is then sent to the
  channels that listen, as they were when it was published.
* `SchedulersFollowRows` (`SchedulersMatch`). `CronInv` says of a request on its own which half of "write the row,
  change the entry" is done (`CronCalm`), and `ScheduleCalm` says it for the backup's schedule. `JobInv` also counts: at most
  one entry that no map points to for each start but the first.
* `ContentIsKept` (`ContentKept`). `ReadIsCurrent`: the row a build has read is still the row, unless something
  altered it or came between.
  `BackupPlaces`: where the connection file points and whose files are in the staging directory, at each step of a backup.
* `ArchivesAreSound` (`ArchivesSound`). `FileInv`: what is in the tree has its directories in it (`SoundTree`). A
  walk that makes an archive owes the paths of its sources that nobody has altered since: each of them is there, and is listed or
  lies below something that the walk has still to look at (`Packing`, `Owed`, `Listed`); undisturbed, it has listed nothing else. Of an archive that was finished
  undisturbed: it lists the tree it was made of (`Makes`), and that tree is closed upwards (`Grown`), so that each entry finds its directory when it is
  extracted. Of an extraction that nobody has disturbed: below its target are exactly the entries it has passed
  (`Extracting`). Every other operation either leaves what a request has to see as it is, or ends its being undisturbed
  (`Outrun`). From `FileAssumption`, for any names, depth of the tree and number of requests.
* `OperationsTypes` (`OpsTypeOK`), the types of all the components, from the same invariant.
* `CrontabIsSeen` (`CrontabSeen`), an action property, from `SavesAlone` and `SeenBefore`: a page that is about to
  install has compared with what is there now.

`RecordsProofs`, `InstallsProofs` and `PlatformProofs` do the same for the records, what is installed, the goroutines, the network and
the tools of the run platform (`PlatformInv`), for any sets of users, hosts, rules, loops, turns, callers, databases, runtimes, sites,
apps and requests.

* `RecordsAreSound` (`RecordsSound`). `AcctInv`: what the copy that a request will save says of the row it was read from; once
  two requests have met only the parts without an exception remain. `PartInv`: an upstream has one owner
  (`OneOwner`), whatever meets; and for a request alone, the list that it has deleted is the one that the routes lead into,
  and the one that it has saved is the host's (`PartPending`). `CatInv`: a row that a request is about to remove is no
  longer referred to, and what it is about to save refers to rows that are there; a certificate's files are there
  unless it is being removed. `CatalogAssumption`: groups, tags and providers are different rows, and "no reference" is
  none of them.
* `NetworkIsWhole` (`NetworkWhole`). `TunInv`: rows share neither path nor service; a file's rules are
  those asked for unless a request alone is about to write them, and end in the fallback rule. `FwInv`: no request's command takes
  away an essential rule, and a start that has failed in nothing has opened what it has not still to open.
* `CallsAreSound` (`CallsSound`). `ToolInv`: a call that has come to a step has the rights and the confirmation that the
  steps before it ask for, and what it has passed was made, or is of the two kinds that `ToolsSound` excuses. Every tool of
  the two registrations is shown to be of the form the proof needs.

* `GoroutinesAreSound` (`GoroutinesSound`), with the lemmas in `PlatformProofs` itself. `AlertInv`: only the holder of the mutex
  evaluates, and what it has read of the last firings stays true while it does; unless two alerts were handled at once, one at most
  is about to act, and only if none has acted in the last five minutes. `LoopInv`: without an interference that `OneLoop` names, the
  loop that goes on waits on the channel that the next Stop closes (`LoopCalm`), and an enabled plugin's channel is open (`LoopOpen`).
  `ChatInv`: an entry of the map of confirmations
  belongs to a turn that waits under its id, and a channel carries answers of that turn's user only. `MemInv`: the number of
  memories alone is not inductive; what is bounded is memories, plus extractions about to insert, plus facts about to be
  revived. The number is a cardinality (`RowsOf`), so that the step lemmas speak of sets that gain or lose an element.
  Assumptions: `AlertAssumption`, `LoopAssumption`, `ChatAssumption`, and `MemoryAssumption` (finitely many facts and turns).

* `InstallsAreWhole` (`InstallsWhole`). `DbInv`: at a slug that is not in `dbUnsure` at most one request works
  (`SlugWith`), and `DbPhase` says for each of its steps which of the slug's rows, directory, volume, list of objects and
  contents agree already, and which of them the request is still to write or to take back. `AppInv`: the same per name of a stack
  (`NameSound`, `AppPhase`); and whatever meets, a host belongs to one app (`HostsOwned`), since numbers are not used again.
  Assumptions: `DbAssumption` and `AppAssumption`, that "none" is nobody's name and numbers are positive.
* `PhpIsWhole` (`PhpWhole`) and the action property `PhpIsUndone` (`PhpUndone`). `PhpInv`: of two requests at work at the runtime each
  has met the other, and one that met anybody makes the runtime unsure; one that has met nobody knows what the row, the files and the
  container are at each step of a change and of its rollback (`Known`). Only two actions end a request as failed, and
  both have put back what the request found (`PhpFailsOnly`, `PhpUndoes`). `SiteInv`: per name not in `siteUnsure` what a
  request knows of host, container and row, and a host is referred to by one site. Every action of a runtime is shown to leave the
  sites as they are (`RuntimesLeaveSites`). Assumption: `PhpSlugAssumption`.
* `PlatformTypes` (`PlatformTypeOK`), the types of all the components. The number of healing cycles is bounded by something that is
  not a type (`HealCounted`): the handlers that have acted and those that still ask the model are together at most the
  handlers, since none begins to ask once one has acted. `AlertAssumption` says that the handlers are finitely many. A request's position in
  a list is a natural number: lists grow without a bound where requests meet.

The lists of upstreams and rules take an induction over their length. The library's induction theorems have an operator
as a parameter and cannot be used; `Induction` states it for a set instead (a set that holds 0 and with each number the next
holds all), from the well-foundedness of the natural numbers, and so gives what `DropFrom` keeps of every sequence.

All of the invariants above were model-checked before they were proved.

**Only model-checked.** The liveness properties `HeldIsReleased`, `QueuedAnswered` and `LockFreedUnlessHung`:
liveness and ENABLED are beyond the prover. Every safety invariant and action property of the passing runs is a
theorem. No module uses a RECURSIVE operator.

## 6. What is not modelled

* The commands of a build, the content of configurations, and wording: outcomes stand for them.
* Static projects (no process) and the ports of different projects, which are base+ID and base+5000+ID
  (`builder.go:211`): projects 5000 apart, or a port a user chose, may share one.
* Traffic after a `Rollback` that overlaps a deployment (`service.go:911` uses the port it has read before).
* `UpdateProject` in the build queue: it writes neither status nor build number (its port is `EditPort` of DeployTraffic).
* Writes of the database whose errors the code ignores are taken to succeed, except where a module says so.
* Pure functions of text: renderer, validators, parsers of Dockerfiles and frameworks, the cipher, message
  formats, embeddings. The clients of GitHub, of language models, of release servers and of notification
  channels, which keep no state.
* Password hashes, tokens of sessions, the puzzle of the login form and the limiter of logins.
* Reading requests, streams of logs and metrics, symbolic links and modes in the file manager.
* The web interface, scripts and packaging: nothing in the server relies on them.
