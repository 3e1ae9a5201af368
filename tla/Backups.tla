-------------------------------- MODULE Backups --------------------------------
(***************************************************************************)
(* The backup plugin (src/plugins/backup): backups, restores and deletions *)
(* of snapshots, the configuration, the schedule, and starts and stops of  *)
(* the plugin.                                                             *)
(*                                                                         *)
(* Kopia keeps the repository it is connected to in one file,              *)
(* kopia.config: connecting for one operation moves every other operation  *)
(* in progress. The staging directory is one for all backups. RunBackup    *)
(* has a guard of its own; restore, delete, test and configuration have    *)
(* none, and Stop does not wait for a backup.                              *)
(***************************************************************************)
EXTENDS Naturals, FiniteSets

CONSTANTS Backup,      \* calls of RunBackup: each owns a row of the table
          Targets,     \* backup targets the configuration can name
          ConfigReqs,  \* UpdateConfig requests
          MaxChanges   \* bound on configuration requests

None == "none"
Leftover == "leftover"   \* a staging directory that was removed half-way and made again

ASSUME BackupAssumption ==
  MaxChanges \in Nat /\ "local" \in Targets /\ {None, Leftover} \cap Backup = {}

VARIABLES cfg,       \* the configuration row: target, repo_initialized, schedule_enabled
          repos,     \* targets that hold a repository
          conn,      \* the target kopia.config is connected to, or None
          bak,       \* the backups: step, copy of the configuration, and the snapshot taken:
                     \* the repository it is in and whose staging directory it holds
          busy,      \* Service.running
          snapRow,   \* the snapshot rows: "none", "running", "completed", "failed", "deleted"
          staging,   \* the backup whose files the staging directory holds, or None
          op,        \* a restore, deletion or test in progress
          sched,     \* the plugin: up, and whether the scheduler has an entry
          change,    \* configuration requests between database and scheduler
          changes,   \* configuration requests begun
          swept,     \* backups whose staging was removed by a start of the plugin
          moved,     \* backups for which another operation connected elsewhere
          raced      \* two configuration requests, or one and Start, overlapped

bakVars == <<cfg, repos, conn, bak, busy, snapRow, staging, op, sched, change, changes, swept, moved,
             raced>>

BakSteps == {"new", "claimed", "open", "mark", "stage", "collect", "snapshot", "record", "clean",
             "free", "done"}
NoOp == [kind |-> "idle", row |-> None, target |-> None]
OpKinds == {"idle", "restore", "delete", "test"}

BakTypeOK ==
  /\ cfg \in [target : Targets, init : BOOLEAN, on : BOOLEAN]
  /\ repos \subseteq Targets /\ conn \in Targets \cup {None}
  /\ bak \in [Backup -> [pc : BakSteps, target : Targets \cup {None}, init : BOOLEAN,
                         at : Targets \cup {None}, data : Backup \cup {Leftover, None}]]
  /\ busy \in BOOLEAN
  /\ snapRow \in [Backup -> {"none", "running", "completed", "failed", "deleted"}]
  /\ staging \in Backup \cup {Leftover, None}
  /\ op \in [kind : OpKinds, row : Backup \cup {None}, target : Targets \cup {None}]
  /\ sched \in [up : BOOLEAN, entry : BOOLEAN]
  /\ change \in [ConfigReqs -> {"idle", "on", "off", "same"}] /\ changes \in 0..MaxChanges
  /\ swept \subseteq Backup /\ moved \subseteq Backup /\ raced \in BOOLEAN

\* GetConfig creates the row with the local target and no schedule.
BakInit ==
  /\ cfg = [target |-> "local", init |-> FALSE, on |-> FALSE]
  /\ repos = {} /\ conn = None
  /\ bak = [b \in Backup |-> [pc |-> "new", target |-> None, init |-> FALSE, at |-> None, data |-> None]]
  /\ busy = FALSE
  /\ snapRow = [b \in Backup |-> "none"]
  /\ staging = None /\ op = NoOp
  /\ sched = [up |-> FALSE, entry |-> FALSE]
  /\ change = [r \in ConfigReqs |-> "idle"] /\ changes = 0
  /\ swept = {} /\ moved = {} /\ raced = FALSE

BakGoto(b, pc) == bak' = [bak EXCEPT ![b].pc = pc]
BakSet(b, status) == IF snapRow[b] = "deleted" THEN snapRow ELSE [snapRow EXCEPT ![b] = status]

\* A backup between its own connecting and its snapshot, for which conn matters.
Exposed(t) == {b \in Backup : bak[b].pc \in {"mark", "stage", "collect", "snapshot"} /\ bak[b].target # t}

ConnectOnce(t) == conn' = (IF conn = None THEN t ELSE conn) /\ moved' = moved \cup Exposed(t)

\* ConnectRepository: kopia.config names the target from now on.
Connect(t) == conn' = t /\ moved' = moved \cup Exposed(t)

-----------------------------------------------------------------------------
(* RunBackup.                                                              *)

\* A route, the core API or the schedule asks for a backup; one runs at a time.
RunBackup(b) ==
  /\ sched.up /\ bak[b].pc = "new" /\ ~busy
  /\ busy' = TRUE
  /\ BakGoto(b, "claimed")
  /\ UNCHANGED <<cfg, repos, conn, snapRow, staging, op, sched, change, changes, swept, moved, raced>>

\* The configuration is read once, and the row says "running".
ReadConfig(b) ==
  /\ bak[b].pc = "claimed"
  /\ bak' = [bak EXCEPT ![b].pc = "open", ![b].target = cfg.target, ![b].init = cfg.init]
  /\ snapRow' = [snapRow EXCEPT ![b] = "running"]
  /\ UNCHANGED <<cfg, repos, conn, busy, staging, op, sched, change, changes, swept, moved, raced>>

\* Create the repository, or connect to the one that is there. A repository marked as
\* initialised is only connected to.
OpenRepository(b) ==
  /\ bak[b].pc = "open"
  /\ LET t == bak[b].target IN
       \/ /\ ~bak[b].init
          /\ repos' = repos \cup {t} /\ Connect(t)
          /\ BakGoto(b, "mark")
          /\ UNCHANGED snapRow
       \/ /\ bak[b].init /\ t \in repos
          /\ Connect(t)
          /\ BakGoto(b, "stage")
          /\ UNCHANGED <<repos, snapRow>>
       \/ /\ snapRow' = BakSet(b, "failed")
          /\ BakGoto(b, "free")
          /\ UNCHANGED <<repos, conn, moved>>
  /\ UNCHANGED <<cfg, busy, staging, op, sched, change, changes, swept, raced>>

\* repo_initialized is set on the row, whatever target it names by now.
MarkInitialized(b) ==
  /\ bak[b].pc = "mark"
  /\ cfg' = [cfg EXCEPT !.init = TRUE]
  /\ BakGoto(b, "stage")
  /\ UNCHANGED <<repos, conn, busy, snapRow, staging, op, sched, change, changes, swept, moved, raced>>

\* The staging directory is removed, made anew,
PrepareStaging(b) ==
  /\ bak[b].pc = "stage"
  /\ staging' = b
  /\ BakGoto(b, "collect")
  /\ UNCHANGED <<cfg, repos, conn, busy, snapRow, op, sched, change, changes, swept, moved, raced>>

\* and filled with the scopes, each of which makes its directories. A scope that fails
\* leaves a warning in the log only.
CollectScopes(b) ==
  /\ bak[b].pc = "collect"
  /\ staging' = IF staging = None THEN Leftover ELSE staging
  /\ BakGoto(b, "snapshot")
  /\ UNCHANGED <<cfg, repos, conn, busy, snapRow, op, sched, change, changes, swept, moved, raced>>

\* kopia snapshot create, in the repository kopia.config names now; it fails without
\* one, without the directory, or for a reason of its own.
CreateSnapshot(b) ==
  /\ bak[b].pc = "snapshot"
  /\ \/ /\ conn # None /\ staging # None
        /\ bak' = [bak EXCEPT ![b].pc = "record", ![b].at = conn, ![b].data = staging]
        /\ UNCHANGED snapRow
     \/ /\ snapRow' = BakSet(b, "failed")
        /\ BakGoto(b, "clean")
  /\ UNCHANGED <<cfg, repos, conn, busy, staging, op, sched, change, changes, swept, moved, raced>>

RecordSnapshot(b) ==
  /\ bak[b].pc = "record"
  /\ snapRow' = BakSet(b, "completed")
  /\ BakGoto(b, "clean")
  /\ UNCHANGED <<cfg, repos, conn, busy, staging, op, sched, change, changes, swept, moved, raced>>

\* The deferred calls, last first: remove the staging directory, release the guard.
RemoveStaging(b) ==
  /\ bak[b].pc = "clean"
  /\ staging' = None
  /\ BakGoto(b, "free")
  /\ UNCHANGED <<cfg, repos, conn, busy, snapRow, op, sched, change, changes, swept, moved, raced>>

ReleaseGuard(b) ==
  /\ bak[b].pc = "free"
  /\ busy' = FALSE
  /\ BakGoto(b, "done")
  /\ UNCHANGED <<cfg, repos, conn, snapRow, staging, op, sched, change, changes, swept, moved, raced>>

BackupStep(b) ==
  \/ RunBackup(b) \/ ReadConfig(b) \/ OpenRepository(b) \/ MarkInitialized(b) \/ PrepareStaging(b)
  \/ CollectScopes(b) \/ CreateSnapshot(b) \/ RecordSnapshot(b) \/ RemoveStaging(b) \/ ReleaseGuard(b)

-----------------------------------------------------------------------------
(* Restore, delete and test, which take no guard.                          *)

BakSame == UNCHANGED <<bak, busy, staging, sched, change, changes, swept, raced>>

\* RestoreSnapshot needs a row with a Kopia ID. It connects to the target of today's
\* configuration: a snapshot made before the target changed is not found there.
RestoreSnapshot(b) ==
  /\ sched.up /\ op = NoOp /\ snapRow[b] = "completed"
  /\ cfg.target \in repos
  /\ Connect(cfg.target)
  /\ op' = [kind |-> "restore", row |-> b, target |-> cfg.target]
  /\ UNCHANGED <<cfg, repos, snapRow>> /\ BakSame

\* DeleteSnapshot ignores every failure of Kopia's. A row without a Kopia ID, the row of
\* a backup in progress among them, is deleted at once.
DeleteSnapshot(b) ==
  /\ sched.up /\ op = NoOp /\ snapRow[b] \in {"running", "completed", "failed"}
  /\ IF snapRow[b] = "completed"
     THEN /\ IF cfg.target \in repos THEN Connect(cfg.target) ELSE UNCHANGED <<conn, moved>>
          /\ op' = [kind |-> "delete", row |-> b, target |-> cfg.target]
          /\ UNCHANGED snapRow
     ELSE snapRow' = [snapRow EXCEPT ![b] = "deleted"] /\ UNCHANGED <<conn, moved, op>>
  /\ UNCHANGED <<cfg, repos>> /\ BakSame

\* TestConnection creates or connects like a backup, and marks the repository.
TestConnection ==
  /\ sched.up /\ op = NoOp
  /\ \/ /\ ~cfg.init
        /\ repos' = repos \cup {cfg.target} /\ Connect(cfg.target)
        /\ op' = [kind |-> "test", row |-> None, target |-> cfg.target]
     \/ /\ cfg.init /\ conn = None /\ cfg.target \in repos
        /\ Connect(cfg.target)
        /\ UNCHANGED <<repos, op>>
  /\ UNCHANGED <<cfg, snapRow>> /\ BakSame

FinishOp ==
  /\ op # NoOp
  /\ op' = NoOp
  /\ snapRow' = IF op.kind = "delete" THEN [snapRow EXCEPT ![op.row] = "deleted"] ELSE snapRow
  /\ cfg' = IF op.kind = "test" THEN [cfg EXCEPT !.init = TRUE] ELSE cfg
  /\ UNCHANGED <<repos, conn, moved>> /\ BakSame

-----------------------------------------------------------------------------
(* Configuration and life cycle.                                           *)

\* UpdateConfig writes the fields of the request, which may turn the schedule on or off or
\* say nothing of it (W); a new target keeps repo_initialized.
UpdateConfig(r, W) ==
  /\ sched.up /\ change[r] = "idle" /\ changes < MaxChanges
  /\ \E t \in Targets, w \in W :
       /\ cfg' = [cfg EXCEPT !.target = t, !.on = CASE w = "on" -> TRUE [] w = "off" -> FALSE [] OTHER -> @]
       /\ change' = [change EXCEPT ![r] = w]
  /\ changes' = changes + 1
  /\ raced' = (raced \/ \E q \in ConfigReqs : change[q] # "idle")
  /\ UNCHANGED <<repos, conn, bak, busy, snapRow, staging, op, sched, swept, moved>>

\* The row is read again; the request's own flag, if it has one, wins.
Wanted(r) == CASE change[r] = "on" -> TRUE [] change[r] = "off" -> FALSE [] OTHER -> cfg.on

ScheduleOnlyAdds(r) ==
  /\ change[r] # "idle"
  /\ sched' = [sched EXCEPT !.entry = @ \/ Wanted(r)]
  /\ change' = [change EXCEPT ![r] = "idle"]
  /\ UNCHANGED <<cfg, repos, conn, bak, busy, snapRow, staging, op, changes, swept, moved, raced>>

UpdateSchedule(r) ==
  /\ change[r] # "idle"
  /\ sched' = [sched EXCEPT !.entry = Wanted(r)]
  /\ change' = [change EXCEPT ![r] = "idle"]
  /\ UNCHANGED <<cfg, repos, conn, bak, busy, snapRow, staging, op, changes, swept, moved, raced>>

\* Start removes what looks like the left-overs of a crash, then loads the schedule.
BakStart ==
  /\ ~sched.up
  /\ staging' = None
  /\ swept' = swept \cup {b \in Backup : bak[b].pc \in {"collect", "snapshot"}}
  /\ sched' = [up |-> TRUE, entry |-> sched.entry \/ cfg.on]
  /\ raced' = (raced \/ \E q \in ConfigReqs : change[q] # "idle")
  /\ UNCHANGED <<cfg, repos, conn, bak, busy, snapRow, op, change, changes, moved>>

\* Stop stops the timer; a backup goes on.
BakStop ==
  /\ sched.up
  /\ sched' = [sched EXCEPT !.up = FALSE]
  /\ UNCHANGED <<cfg, repos, conn, bak, busy, snapRow, staging, op, change, changes, swept, moved, raced>>

\* The panel dies: what was in memory is lost, the rows, the directory and Kopia's
\* repositories stay. A row that says "running" says so for ever.
BakCrash ==
  /\ bak' = [b \in Backup |-> IF bak[b].pc = "new" THEN bak[b] ELSE [bak[b] EXCEPT !.pc = "done"]]
  /\ busy' = FALSE /\ op' = NoOp
  /\ sched' = [up |-> FALSE, entry |-> FALSE]
  /\ change' = [r \in ConfigReqs |-> "idle"]
  /\ raced' = FALSE
  /\ UNCHANGED <<cfg, repos, conn, snapRow, staging, changes, swept, moved>>

\* The plugin with backups from B, and configuration requests from R that say W of the
\* schedule.
BakNextOf(B, R, W) ==
  \/ \E b \in B : BackupStep(b) \/ RestoreSnapshot(b) \/ DeleteSnapshot(b)
  \/ TestConnection \/ FinishOp
  \/ \E r \in R : UpdateConfig(r, W) \/ UpdateSchedule(r)
  \/ BakStart \/ BakStop \/ BakCrash

BakNext == BakNextOf(Backup, ConfigReqs, {"on", "off", "same"})

BakSpec == BakInit /\ [][BakNext]_bakVars

-----------------------------------------------------------------------------
(* Properties.                                                             *)

Claimed(b) == bak[b].pc \notin {"new", "done"}

\* One backup at a time has the guard, and the guard is released by the time it ends.
BackupOneRun ==
  /\ \A a, b \in Backup : Claimed(a) /\ Claimed(b) => a = b
  /\ busy <=> \E b \in Backup : Claimed(b)

\* A completed snapshot holds the files that its own backup has collected, and is in the
\* repository its configuration named, unless the plugin was started again while it
\* collected, or another operation moved kopia.config to another target.
BackupContent ==
  \A b \in Backup : snapRow[b] = "completed" =>
    /\ bak[b].data = b \/ b \in swept
    /\ bak[b].at = bak[b].target \/ b \in moved

\* While the plugin is up and no configuration request is in progress, the schedule has
\* an entry exactly if the configuration says so, unless two requests overlapped.
BackupSchedule ==
  sched.up /\ ~raced /\ (\A r \in ConfigReqs : change[r] = "idle") => (sched.entry <=> cfg.on)
=============================================================================
