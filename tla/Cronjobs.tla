------------------------------- MODULE Cronjobs -------------------------------
(***************************************************************************)
(* The cronjob plugin (src/plugins/cronjob/service.go) for one task: its   *)
(* row, the entries of the scheduler in memory, the executions that timers *)
(* and users start, and the requests that create, change and delete the    *)
(* task. Requests come from the plugin's own routes and from the core API  *)
(* of plugins (src/internal/plugin/coreapi.go), which writes the row       *)
(* itself and tells the scheduler with a "cronjob.reload" event, handled   *)
(* inside the publishing call.                                             *)
(*                                                                         *)
(* Every request is a sequence of database and scheduler steps without a   *)
(* lock around them, and Start, Stop and executions come in between.       *)
(***************************************************************************)
EXTENDS Naturals, FiniteSets

CONSTANTS Executions,   \* goroutines that run the task
          CronReqs,     \* requests in progress
          MaxRetries,   \* the task's MaxRetries
          MaxStarts,    \* bound on starts of the plugin
          MaxLive       \* bound on entries: none of the requests begins beyond it

ASSUME CronAssumption == MaxRetries \in Nat /\ MaxStarts \in Nat \ {0} /\ MaxLive \in Nat \ {0}

\* runCommand: attempts := 1 + task.MaxRetries, at most 10.
Attempts == IF 1 + MaxRetries > 10 THEN 10 ELSE 1 + MaxRetries

VARIABLES task,      \* the row: "unborn", "on" (enabled), "off" or "gone"
          boot,      \* the service: "down", "open" (the routes answer, Start is yet to
                     \* run), the steps of Start, or "up"
          subscribed, \* the event handlers are registered, which happens once
          listed,    \* Start has read the row as enabled
          entries,   \* live entries in the runner, and whether s.entries knows one
          guard,     \* s.running[task]
          ctx,       \* s.taskCtx: "nil", "live" or "cancelled"
          exec,      \* the executions
          cronReq,   \* the requests
          starts,    \* calls of Start
          crossed,   \* Start found an execution of an earlier start in progress
          crowd      \* two requests, or a request and Start, have overlapped since Start

cronVars == <<task, boot, subscribed, listed, entries, guard, ctx, exec, cronReq, starts, crossed,
              crowd>>

Booting == {"reset", "cleared", "loading"}
ExecSteps == {"idle", "timed", "manual", "claim", "run", "cmd", "killed", "end"}
Holding == {"run", "cmd", "killed", "end"}
ReqSteps == {"idle", "saveOn", "saveOff", "removeOn", "removeOff", "add", "drop", "reload", "reread"}

CronTypeOK ==
  /\ task \in {"unborn", "on", "off", "gone"}
  /\ boot \in {"down", "open", "up"} \cup Booting
  /\ subscribed \in BOOLEAN /\ listed \in BOOLEAN
  /\ entries \in [live : Nat, known : BOOLEAN]
  /\ guard \in BOOLEAN /\ ctx \in {"nil", "live", "cancelled"}
  /\ exec \in [Executions -> [pc : ExecSteps, left : 0..Attempts]]
  /\ cronReq \in [CronReqs -> ReqSteps]
  /\ starts \in 0..MaxStarts /\ crossed \in BOOLEAN /\ crowd \in BOOLEAN

Idle == [pc |-> "idle", left |-> 0]

CronInit ==
  /\ task = "unborn" /\ boot = "down" /\ subscribed = FALSE /\ listed = FALSE
  /\ entries = [live |-> 0, known |-> FALSE]
  /\ guard = FALSE /\ ctx = "nil"
  /\ exec = [e \in Executions |-> Idle]
  /\ cronReq = [r \in CronReqs |-> "idle"]
  /\ starts = 0 /\ crossed = FALSE /\ crowd = FALSE

Row(t) == t \in {"on", "off"}
Busy(r) == cronReq[r] # "idle"
NoRequest == \A r \in CronReqs : ~Busy(r)

-----------------------------------------------------------------------------
(* The scheduler's own operations. Each holds s.mu.                        *)

\* addToScheduler: a new entry, and the map points at it.
addToScheduler == entries' = [live |-> entries.live + 1, known |-> TRUE]

\* removeFromScheduler removes the entry the map points at, if any.
removeFromScheduler ==
  entries' = [live |-> IF entries.known THEN entries.live - 1 ELSE entries.live, known |-> FALSE]

-----------------------------------------------------------------------------
(* Start and Stop.                                                         *)

\* The plugin manager lets the routes answer before it calls Start.
CronOpen ==
  /\ boot = "down" /\ starts < MaxStarts
  /\ boot' = "open" /\ starts' = starts + 1
  /\ UNCHANGED <<task, subscribed, listed, entries, guard, ctx, exec, cronReq, crossed, crowd>>

\* A new runner, map, stop channel and context.
CronStartReset ==
  /\ boot = "open" /\ boot' = "reset"
  /\ entries' = [live |-> 0, known |-> FALSE]
  /\ ctx' = "live"
  /\ crossed' = \E e \in Executions : exec[e].pc # "idle"
  /\ crowd' = ~NoRequest
  /\ UNCHANGED <<task, subscribed, listed, guard, exec, cronReq, starts>>

\* The guard of concurrent executions is replaced by an empty map.
CronStartClear ==
  /\ boot = "reset" /\ boot' = "cleared"
  /\ guard' = FALSE
  /\ crossed' = (crossed \/ \E e \in Executions : exec[e].pc # "idle")
  /\ UNCHANGED <<task, subscribed, listed, entries, ctx, exec, cronReq, starts, crowd>>

\* The enabled tasks are read, then added one by one.
CronStartFind ==
  /\ boot = "cleared" /\ boot' = "loading"
  /\ listed' = (task = "on")
  /\ UNCHANGED <<task, subscribed, entries, guard, ctx, exec, cronReq, starts, crossed, crowd>>

CronStartLoad ==
  /\ boot = "loading" /\ boot' = "up"
  /\ IF listed THEN addToScheduler ELSE UNCHANGED entries
  /\ listed' = FALSE /\ subscribed' = TRUE
  /\ UNCHANGED <<task, guard, ctx, exec, cronReq, starts, crossed, crowd>>

\* Stop: no timer fires any more, and the context of the commands is cancelled.
CronStop ==
  /\ boot = "up" /\ boot' = "down"
  /\ ctx' = "cancelled"
  /\ exec' = [e \in Executions |-> IF exec[e].pc = "cmd" THEN [exec[e] EXCEPT !.pc = "killed"] ELSE exec[e]]
  /\ UNCHANGED <<task, subscribed, listed, entries, guard, cronReq, starts, crossed, crowd>>

\* The process dies: what is in memory is lost, the commands die with the unit's
\* control group, the rows stay.
CronCrash ==
  /\ boot # "down" /\ boot' = "down"
  /\ subscribed' = FALSE /\ listed' = FALSE
  /\ entries' = [live |-> 0, known |-> FALSE]
  /\ guard' = FALSE /\ ctx' = "nil"
  /\ exec' = [e \in Executions |-> Idle]
  /\ cronReq' = [r \in CronReqs |-> "idle"]
  /\ crossed' = FALSE /\ crowd' = FALSE
  /\ UNCHANGED <<task, starts>>

-----------------------------------------------------------------------------
(* Requests.                                                               *)

\* The plugin's routes answer only while it is enabled, which is so already
\* while Start runs.
Routed == boot # "down"

Enter(r, pc) ==
  /\ entries.live <= MaxLive
  /\ cronReq' = [cronReq EXCEPT ![r] = pc]
  /\ crowd' = (crowd \/ ~NoRequest \/ boot \in Booting)

Goto(r, pc) == cronReq' = [cronReq EXCEPT ![r] = pc]

\* CreateTask inserts the row, then adds it to the scheduler. Enabled is a bool with a
\* default of true in the schema: gorm takes the false of a request for a missing value,
\* and the task is enabled whatever the request says.
CreateTask(r) ==
  /\ Routed /\ task = "unborn" /\ ~Busy(r)
  /\ task' = "on"
  /\ Enter(r, "add")
  /\ UNCHANGED <<boot, subscribed, listed, entries, guard, ctx, exec, starts, crossed>>

\* UpdateTask reads the row and changes fields of its copy,
UpdateTask(r) ==
  /\ Routed /\ Row(task) /\ ~Busy(r)
  /\ \E on \in BOOLEAN : Enter(r, IF on THEN "saveOn" ELSE "saveOff")
  /\ UNCHANGED <<task, boot, subscribed, listed, entries, guard, ctx, exec, starts, crossed>>

\* writes the whole copy back (Save inserts it again when the row is gone, and a row that
\* is inserted is enabled),
UpdateSave(r) ==
  /\ cronReq[r] \in {"saveOn", "saveOff"}
  /\ LET on == cronReq[r] = "saveOn" \/ task = "gone" IN
       /\ task' = IF on THEN "on" ELSE "off"
       /\ Goto(r, IF on THEN "removeOn" ELSE "removeOff")
  /\ UNCHANGED <<boot, subscribed, listed, entries, guard, ctx, exec, starts, crossed, crowd>>

UpdateWithoutRemove(r) ==
  /\ cronReq[r] \in {"removeOn", "removeOff"}
  /\ Goto(r, IF cronReq[r] = "removeOn" THEN "add" ELSE "idle")
  /\ UNCHANGED <<entries, task, boot, subscribed, listed, guard, ctx, exec, starts, crossed, crowd>>

\* removes the old entry, and adds a new one if its copy is enabled.
UpdateRemove(r) ==
  /\ cronReq[r] \in {"removeOn", "removeOff"}
  /\ removeFromScheduler
  /\ Goto(r, IF cronReq[r] = "removeOn" THEN "add" ELSE "idle")
  /\ UNCHANGED <<task, boot, subscribed, listed, guard, ctx, exec, starts, crossed, crowd>>

Schedule(r) ==
  /\ cronReq[r] = "add"
  /\ addToScheduler
  /\ Goto(r, "idle")
  /\ UNCHANGED <<task, boot, subscribed, listed, guard, ctx, exec, starts, crossed, crowd>>

\* DeleteTask removes the entry, then the logs and the row.
DeleteTask(r) ==
  /\ Routed /\ Row(task) /\ ~Busy(r)
  /\ removeFromScheduler
  /\ Enter(r, "drop")
  /\ UNCHANGED <<task, boot, subscribed, listed, guard, ctx, exec, starts, crossed>>

DeleteRow(r) ==
  /\ cronReq[r] = "drop"
  /\ task' = "gone"
  /\ Goto(r, "idle")
  /\ UNCHANGED <<boot, subscribed, listed, entries, guard, ctx, exec, starts, crossed, crowd>>

-----------------------------------------------------------------------------
(* The core API writes the row itself. Its event is handled inside Publish, *)
(* and ignored while the stop channel is closed.                           *)

Heard == subscribed /\ boot \notin {"down", "open"}

CronJobCreate(r) ==
  /\ task = "unborn" /\ ~Busy(r)
  /\ task' = "on"
  /\ Enter(r, "reload")
  /\ UNCHANGED <<boot, subscribed, listed, entries, guard, ctx, exec, starts, crossed>>

CronJobUpdate(r) ==
  /\ Row(task) /\ ~Busy(r)
  /\ task' \in {"on", "off"}
  /\ Enter(r, "reload")
  /\ UNCHANGED <<boot, subscribed, listed, entries, guard, ctx, exec, starts, crossed>>

\* The handler removes the entry, reads the row, and adds it again if it is enabled.
Reload(r) ==
  /\ cronReq[r] = "reload"
  /\ IF Heard THEN removeFromScheduler /\ Goto(r, "reread")
              ELSE UNCHANGED entries /\ Goto(r, "idle")
  /\ UNCHANGED <<task, boot, subscribed, listed, guard, ctx, exec, starts, crossed, crowd>>

Reread(r) ==
  /\ cronReq[r] = "reread"
  /\ Goto(r, IF task = "on" THEN "add" ELSE "idle")
  /\ UNCHANGED <<task, boot, subscribed, listed, entries, guard, ctx, exec, starts, crossed, crowd>>

\* CronJobDelete publishes before it deletes the row.
CronJobDelete(r) ==
  /\ Row(task) /\ ~Busy(r)
  /\ IF Heard THEN removeFromScheduler ELSE UNCHANGED entries
  /\ Enter(r, "drop")
  /\ UNCHANGED <<task, boot, subscribed, listed, guard, ctx, exec, starts, crossed>>

-----------------------------------------------------------------------------
(* Executions.                                                             *)

At(e, pc) == exec' = [exec EXCEPT ![e].pc = pc]
ExecOnly == UNCHANGED <<task, boot, subscribed, listed, entries, ctx, cronReq, starts, crossed, crowd>>

\* The timer of an entry calls executeTask.
CronTick(e) ==
  /\ boot = "up" /\ entries.live > 0 /\ exec[e].pc = "idle"
  /\ At(e, "timed")
  /\ UNCHANGED guard /\ ExecOnly

\* The route verifies that the row exists and starts a goroutine.
TriggerTask(e) ==
  /\ Routed /\ Row(task) /\ exec[e].pc = "idle"
  /\ At(e, "manual")
  /\ UNCHANGED guard /\ ExecOnly

\* CronJobTrigger does the same by an event.
CronJobTrigger(e) ==
  /\ Heard /\ Row(task) /\ exec[e].pc = "idle"
  /\ At(e, "manual")
  /\ UNCHANGED guard /\ ExecOnly

\* executeTask reads the row. A disabled task runs only when a user asks.
ReadTask(e) ==
  /\ exec[e].pc \in {"timed", "manual"}
  /\ At(e, IF task = "on" \/ (task = "off" /\ exec[e].pc = "manual") THEN "claim" ELSE "idle")
  /\ UNCHANGED guard /\ ExecOnly

ClaimUnchecked(e) ==
  /\ exec[e].pc = "claim"
  /\ exec' = [exec EXCEPT ![e] = [pc |-> "run", left |-> Attempts]]
  /\ guard' = TRUE
  /\ ExecOnly

\* A second execution of the task is logged as skipped.
ClaimRun(e) ==
  /\ exec[e].pc = "claim"
  /\ exec' = [exec EXCEPT ![e] = IF guard THEN Idle ELSE [pc |-> "run", left |-> Attempts]]
  /\ guard' = TRUE
  /\ ExecOnly

\* One attempt of runCommand: the command starts, or fails at once under a cancelled
\* context.
RunAttempt(e) ==
  /\ exec[e].pc = "run" /\ ctx # "nil"
  /\ exec' = [exec EXCEPT ![e] = [pc |-> IF ctx = "live" THEN "cmd" ELSE "killed",
                                  left |-> exec[e].left - 1]]
  /\ UNCHANGED guard /\ ExecOnly

\* Before the first Start there is no context to derive one from: WithTimeout panics in
\* the goroutine, and the panel dies of it.
RunPanics(e) == exec[e].pc = "run" /\ ctx = "nil" /\ CronCrash

\* The command succeeds, or fails, exceeds its timeout or is killed. The log and the
\* row's last status are written; after a failure the next attempt waits its turn.
AttemptEnds(e) ==
  /\ exec[e].pc \in {"cmd", "killed"}
  /\ \/ exec[e].pc = "cmd" /\ At(e, "end")
     \/ At(e, IF exec[e].left > 0 THEN "run" ELSE "end")
  /\ UNCHANGED guard /\ ExecOnly

ReleaseForgotten(e) ==
  /\ exec[e].pc = "end"
  /\ exec' = [exec EXCEPT ![e] = Idle]
  /\ UNCHANGED guard /\ ExecOnly

\* The deferred call deletes the task from whichever map the service has now.
ReleaseRun(e) ==
  /\ exec[e].pc = "end"
  /\ guard' = FALSE
  /\ exec' = [exec EXCEPT ![e] = Idle]
  /\ ExecOnly

ExecStep(e) ==
  \/ ReadTask(e) \/ ClaimRun(e) \/ RunAttempt(e) \/ RunPanics(e) \/ AttemptEnds(e) \/ ReleaseRun(e)

\* The steps of the service with requests from R and executions from E.
CronNextOf(R, E) ==
  \/ CronOpen \/ CronStartReset \/ CronStartClear \/ CronStartFind \/ CronStartLoad
  \/ CronStop \/ CronCrash
  \/ \E r \in R :
       \/ CreateTask(r) \/ UpdateTask(r) \/ UpdateSave(r) \/ UpdateRemove(r) \/ Schedule(r)
       \/ DeleteTask(r) \/ DeleteRow(r)
       \/ CronJobCreate(r) \/ CronJobUpdate(r) \/ Reload(r) \/ Reread(r) \/ CronJobDelete(r)
  \/ \E e \in E :
       CronTick(e) \/ TriggerTask(e) \/ CronJobTrigger(e) \/ ExecStep(e)

CronNext == CronNextOf(CronReqs, Executions)

\* An execution goes on: a command has a timeout of at most a day, a retry waits for
\* some seconds.
CronFairness == \A e \in Executions : WF_cronVars(ExecStep(e))

CronSpec == CronInit /\ [][CronNext]_cronVars /\ CronFairness

-----------------------------------------------------------------------------
(* Properties.                                                             *)

\* "Prevent concurrent execution of the same task": unless Start replaced the guard
\* while an execution of an earlier start was in progress, one execution at a time is
\* between ClaimRun and ReleaseRun, and the guard is set exactly then.
CronOneRun ==
  crossed \/ /\ \A d, e \in Executions :
                  exec[d].pc \in Holding /\ exec[e].pc \in Holding => d = e
             /\ guard <=> (\E e \in Executions : exec[e].pc \in Holding)

\* Once the requests have ended, the scheduler has one entry for the task if its row is
\* enabled and none otherwise, and removeFromScheduler can find it, unless two requests
\* overlapped.
CronEntryIffOn ==
  boot = "up" /\ NoRequest /\ ~crowd
    => entries = IF task = "on" THEN [live |-> 1, known |-> TRUE] ELSE [live |-> 0, known |-> FALSE]

\* A task that has been claimed can be run again some time: the guard is always released,
\* by the end of the run, whatever fails in it, or by a new start.
CronGuardReleased == guard ~> ~guard
=============================================================================
