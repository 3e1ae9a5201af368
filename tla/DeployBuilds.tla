---------------------------- MODULE DeployBuilds ----------------------------
(***************************************************************************)
(* The build queue of the deploy plugin (src/plugins/deploy/service.go),   *)
(* for one project: Build, runBuild and releaseBuildLock, with Rollback,   *)
(* StartProject, StopProject and DeleteProject, which take no lock, and a  *)
(* stop of the panel process at any point. Every database call is a step   *)
(* of its own, so the calls interleave as the goroutines do.               *)
(*                                                                         *)
(* Projects share nothing but the map of semaphores, so one project is     *)
(* enough. What the deploy phase does to processes and traffic is the      *)
(* subject of DeployTraffic; here it ends in "running" or "error".         *)
(***************************************************************************)
EXTENDS Naturals, FiniteSets

CONSTANTS Calls,      \* calls of Build: from the API, a webhook or the event bus
          Rollbacks,  \* calls of Rollback
          MaxCrashes  \* bound on stops of the panel process

ASSUME MaxCrashesAssumption == MaxCrashes \in Nat

VARIABLES project,  \* the project's row: does it exist, status, current_build
          row,      \* row[c]: the deployment row that call c created
          sem,      \* the project's entry of buildSems: a channel of capacity 1
          pc,       \* where each Build call and its pipeline stand
          num,      \* num[c]: the build number call c computed
          rb,       \* each Rollback call: where it stands, and its target
          del,      \* where the DeleteProject call stands
          crashes   \* stops of the panel so far

vars == <<project, row, sem, pc, num, rb, del, crashes>>

ProjectStatus == {"pending", "building", "running", "stopped", "error"}
RowStatus == {"building", "success", "failed", "rolled_back"}
NoRow == [num |-> 0, status |-> "none"]

\* Between the acquisition of the semaphore and its release.
Pipeline == {"locked", "read", "created", "marked", "building",
             "failing", "deploying", "closing"}
\* A call that has ended: its pipeline is complete, it was refused, it failed to
\* open its log, or the panel stopped under it.
Ended == {"done", "refused", "nolog", "lost"}
Pcs == {"idle", "queued"} \cup Pipeline \cup Ended

TypeOK ==
  /\ project \in [exists : BOOLEAN, status : ProjectStatus, current : Nat]
  /\ row \in [Calls -> [num : Nat, status : RowStatus \cup {"none"}]]
  /\ sem \in {"free", "taken"}
  /\ pc \in [Calls -> Pcs]
  /\ num \in [Calls -> Nat]
  /\ rb \in [Rollbacks -> [pc : {"idle", "checked", "marked", "current", "done", "lost"},
                           target : Nat]]
  /\ del \in {"idle", "stopping", "rows", "done", "cut"}
  /\ crashes \in 0..MaxCrashes

Init ==
  /\ project = [exists |-> TRUE, status |-> "pending", current |-> 0]
  /\ row = [c \in Calls |-> NoRow]
  /\ sem = "free"
  /\ pc = [c \in Calls |-> "idle"]
  /\ num = [c \in Calls |-> 0]
  /\ rb = [r \in Rollbacks |-> [pc |-> "idle", target |-> 0]]
  /\ del = "idle"
  /\ crashes = 0

-----------------------------------------------------------------------------
(* Build: the calling goroutine.                                           *)

Goto(c, l) == pc' = [pc EXCEPT ![c] = l]

\* UPDATE of the project's row: touches nothing when the row is gone.
UpdateProject(p) == project' = IF project.exists THEN p ELSE project

\* A call that does not look at the semaphore.
BuildCallUnguarded(c) ==
  /\ pc[c] = "idle"
  /\ sem' = "taken" /\ Goto(c, "locked")
  /\ UNCHANGED <<project, row, num, rb, del, crashes>>

\* The semaphore is taken at once, or the call waits for it with a timer. The Go
\* runtime hands a released token to a sender already blocked on the channel; here
\* any call may take it next, which allows those orders and more.
BuildCall(c) ==
  /\ pc[c] = "idle"
  /\ IF sem = "free" THEN sem' = "taken" /\ Goto(c, "locked")
                     ELSE UNCHANGED sem /\ Goto(c, "queued")
  /\ UNCHANGED <<project, row, num, rb, del, crashes>>

Dequeue(c) ==
  /\ pc[c] = "queued" /\ sem = "free"
  /\ sem' = "taken"
  /\ Goto(c, "locked")
  /\ UNCHANGED <<project, row, num, rb, del, crashes>>

\* A timer that is only looked at once the semaphore is free.
QueueTimeoutBlocked(c) ==
  /\ pc[c] = "queued" /\ sem = "free"
  /\ Goto(c, "refused")
  /\ UNCHANGED <<project, row, sem, num, rb, del, crashes>>

\* The five-minute timer of a queued call.
QueueTimeout(c) ==
  /\ pc[c] = "queued"
  /\ Goto(c, "refused")
  /\ UNCHANGED <<project, row, sem, num, rb, del, crashes>>

\* releaseBuildLock receives whatever token is in the channel.
Release == sem' = "free"

\* GetProject: the build number is computed from this read.
ReadProject(c) ==
  /\ pc[c] = "locked"
  /\ IF project.exists
       THEN /\ num' = [num EXCEPT ![c] = project.current + 1]
            /\ Goto(c, "read")
            /\ UNCHANGED sem
       ELSE Goto(c, "refused") /\ Release /\ UNCHANGED num
  /\ UNCHANGED <<project, row, rb, del, crashes>>

\* db.Create of the deployment row, which may fail.
CreateRow(c) ==
  /\ pc[c] = "read"
  /\ \/ /\ row' = [row EXCEPT ![c] = [num |-> num[c], status |-> "building"]]
        /\ Goto(c, "created")
        /\ UNCHANGED sem
     \/ Goto(c, "refused") /\ Release /\ UNCHANGED row
  /\ UNCHANGED <<project, num, rb, del, crashes>>

\* The project's update forgets current_build.
MarkBuildingOnly(c) ==
  /\ pc[c] = "created"
  /\ UpdateProject([project EXCEPT !.status = "building"])
  /\ Goto(c, "marked")
  /\ UNCHANGED <<row, sem, num, rb, del, crashes>>

MarkBuilding(c) ==
  /\ pc[c] = "created"
  /\ UpdateProject([project EXCEPT !.status = "building", !.current = num[c]])
  /\ Goto(c, "marked")
  /\ UNCHANGED <<row, sem, num, rb, del, crashes>>

\* The error return of NewLogWriter without releaseBuildLock.
OpenLogKeepsLock(c) ==
  /\ pc[c] = "marked"
  /\ Goto(c, "building") \/ Goto(c, "nolog")
  /\ UNCHANGED <<project, row, sem, num, rb, del, crashes>>

\* NewLogWriter: when it fails the lock is released and both rows keep "building".
OpenLog(c) ==
  /\ pc[c] = "marked"
  /\ \/ Goto(c, "building") /\ UNCHANGED sem
     \/ Goto(c, "nolog") /\ Release
  /\ UNCHANGED <<project, row, num, rb, del, crashes>>

-----------------------------------------------------------------------------
(* runBuild: the pipeline's goroutine.                                     *)

\* db.Save writes the whole in-memory row, and inserts it again if it is gone.
SaveRow(c, s) == row' = [row EXCEPT ![c] = [num |-> num[c], status |-> s]]

\* A failed build that returns before it saves the row.
BuildFailsUnsaved(c) ==
  /\ pc[c] = "building"
  /\ Goto(c, "failing")
  /\ UNCHANGED <<project, row, sem, num, rb, del, crashes>>

\* The credentials, the fetch, the installation or the build command failed.
BuildFails(c) ==
  /\ pc[c] = "building"
  /\ SaveRow(c, "failed")
  /\ Goto(c, "failing")
  /\ UNCHANGED <<project, sem, num, rb, del, crashes>>

BuildSucceeds(c) ==
  /\ pc[c] = "building"
  /\ SaveRow(c, "success")
  /\ Goto(c, "deploying")
  /\ UNCHANGED <<project, sem, num, rb, del, crashes>>

\* A failed build that leaves the project's row alone.
MarkErrorSkipped(c) ==
  /\ pc[c] = "failing"
  /\ Goto(c, "closing")
  /\ UNCHANGED <<project, row, sem, num, rb, del, crashes>>

MarkError(c) ==
  /\ pc[c] = "failing"
  /\ UpdateProject([project EXCEPT !.status = "error"])
  /\ Goto(c, "closing")
  /\ UNCHANGED <<row, sem, num, rb, del, crashes>>

\* The row saved once more after the deploy phase.
DeployThenSave(c) ==
  /\ pc[c] = "deploying"
  /\ \E s \in {"running", "error"} : UpdateProject([project EXCEPT !.status = s])
  /\ SaveRow(c, "success")
  /\ Goto(c, "closing")
  /\ UNCHANGED <<sem, num, rb, del, crashes>>

\* runBareDeploy or runDockerDeploy: every path ends by writing one of the two.
Deploy(c) ==
  /\ pc[c] = "deploying"
  /\ \E s \in {"running", "error"} : UpdateProject([project EXCEPT !.status = s])
  /\ Goto(c, "closing")
  /\ UNCHANGED <<row, sem, num, rb, del, crashes>>

\* The deferred function without the release.
CloseKeepsLock(c) ==
  /\ pc[c] = "closing"
  /\ Goto(c, "done")
  /\ UNCHANGED <<project, row, sem, num, rb, del, crashes>>

\* The deferred function: close the log, release the lock.
Close(c) ==
  /\ pc[c] = "closing"
  /\ Release
  /\ Goto(c, "done")
  /\ UNCHANGED <<project, row, num, rb, del, crashes>>

-----------------------------------------------------------------------------
(* Calls that take no lock.                                                *)

\* Rollback finds a successful deployment with the number, and the project.
RollbackCheck(r) ==
  /\ rb[r].pc = "idle"
  /\ project.exists
  /\ \E c \in Calls : /\ row[c].status = "success"
                      /\ rb' = [rb EXCEPT ![r] = [pc |-> "checked", target |-> row[c].num]]
  /\ UNCHANGED <<project, row, sem, pc, num, del, crashes>>

Newer(n) == {c \in Calls : row[c].status # "none" /\ row[c].num > n}

\* A status of another spelling.
RollbackMarkWord(r) ==
  /\ rb[r].pc = "checked"
  /\ row' = [c \in Calls |-> IF c \in Newer(rb[r].target)
                               THEN [row[c] EXCEPT !.status = "rollback"] ELSE row[c]]
  /\ rb' = [rb EXCEPT ![r].pc = "marked"]
  /\ UNCHANGED <<project, sem, pc, num, del, crashes>>

RollbackMark(r) ==
  /\ rb[r].pc = "checked"
  /\ row' = [c \in Calls |-> IF c \in Newer(rb[r].target)
                               THEN [row[c] EXCEPT !.status = "rolled_back"] ELSE row[c]]
  /\ rb' = [rb EXCEPT ![r].pc = "marked"]
  /\ UNCHANGED <<project, sem, pc, num, del, crashes>>

RollbackCurrent(r) ==
  /\ rb[r].pc = "marked"
  /\ UpdateProject([project EXCEPT !.current = rb[r].target])
  /\ rb' = [rb EXCEPT ![r].pc = "current"]
  /\ UNCHANGED <<row, sem, pc, num, del, crashes>>

\* Docker: run the old image and write "running", or fail. Bare: restart the unit.
RollbackRun(r) ==
  /\ rb[r].pc = "current"
  /\ \/ UpdateProject([project EXCEPT !.status = "running"])
     \/ UNCHANGED project
  /\ rb' = [rb EXCEPT ![r].pc = "done"]
  /\ UNCHANGED <<row, sem, pc, num, del, crashes>>

\* StartProject and StopProject, once systemctl or docker has answered.
StartProject ==
  /\ project.exists
  /\ project' = [project EXCEPT !.status = "running"]
  /\ UNCHANGED <<row, sem, pc, num, rb, del, crashes>>

StopProject ==
  /\ project.exists
  /\ project' = [project EXCEPT !.status = "stopped"]
  /\ UNCHANGED <<row, sem, pc, num, rb, del, crashes>>

\* DeleteProject reads the project, cleans up, deletes the rows, then the project.
DeleteCall ==
  /\ del \in {"idle", "cut"} /\ project.exists
  /\ del' = "stopping"
  /\ UNCHANGED <<project, row, sem, pc, num, rb, crashes>>

DeleteRows ==
  /\ del = "stopping"
  /\ row' = [c \in Calls |-> NoRow]
  /\ del' = "rows"
  /\ UNCHANGED <<project, sem, pc, num, rb, crashes>>

DeleteProject ==
  /\ del = "rows"
  /\ project' = [project EXCEPT !.exists = FALSE]
  /\ del' = "done"
  /\ UNCHANGED <<row, sem, pc, num, rb, crashes>>

\* The panel process ends and starts again: the database is all that is left.
Crash ==
  /\ crashes < MaxCrashes
  /\ crashes' = crashes + 1
  /\ sem' = "free"
  /\ pc' = [c \in Calls |-> IF pc[c] \in Pipeline \cup {"queued"} THEN "lost" ELSE pc[c]]
  /\ rb' = [r \in Rollbacks |-> IF rb[r].pc \in {"checked", "marked", "current"}
                                  THEN [rb[r] EXCEPT !.pc = "lost"] ELSE rb[r]]
  /\ del' = IF del \in {"stopping", "rows"} THEN "cut" ELSE del
  /\ UNCHANGED <<project, row, num>>

BuildStep(c) ==
  \/ BuildCall(c) \/ Dequeue(c) \/ QueueTimeout(c) \/ ReadProject(c) \/ CreateRow(c)
  \/ MarkBuilding(c) \/ OpenLog(c) \/ BuildFails(c) \/ BuildSucceeds(c) \/ MarkError(c)
  \/ Deploy(c) \/ Close(c)

RollbackStep(r) ==
  RollbackCheck(r) \/ RollbackMark(r) \/ RollbackCurrent(r) \/ RollbackRun(r)

Next ==
  \/ \E c \in Calls : BuildStep(c)
  \/ \E r \in Rollbacks : RollbackStep(r)
  \/ StartProject \/ StopProject
  \/ DeleteCall \/ DeleteRows \/ DeleteProject
  \/ Crash

Spec == Init /\ [][Next]_vars

\* The runtime runs every goroutine and fires every timer. Nothing bounds the
\* fetch (git runs without the build's context) and the commands of the deploy
\* phase, so the steps out of "building" and "deploying" are not fair.
CallFairness(c) ==
  /\ WF_vars(QueueTimeout(c)) /\ WF_vars(ReadProject(c)) /\ WF_vars(CreateRow(c))
  /\ WF_vars(MarkBuilding(c)) /\ WF_vars(OpenLog(c)) /\ WF_vars(MarkError(c))
  /\ WF_vars(Close(c))

FairSpec == Spec /\ \A c \in Calls : CallFairness(c)

-----------------------------------------------------------------------------
(* Properties.                                                             *)

Holding(c) == pc[c] \in Pipeline

\* At most one pipeline of the project runs, although releaseBuildLock takes any
\* token, whoever put it there.
OnePipeline == \A c, d \in Calls : Holding(c) /\ Holding(d) => c = d

\* The semaphore is taken exactly while a pipeline runs: no error return leaks the
\* token (every later build would time out) and none gives it back twice.
LockMatchesHolder == sem = "taken" <=> \E c \in Calls : Holding(c)

\* A project says "building" only while a pipeline runs, or after one that was cut
\* off: the panel stopped, or the log could not be opened. Nothing repairs those two.
NoPhantomBuilding ==
  project.exists /\ project.status = "building" =>
    \E c \in Calls : pc[c] \in {"marked", "building", "failing", "deploying", "nolog", "lost"}

\* The same of a deployment's row: a pipeline that has ended settled its own row,
\* whatever rollbacks and deletions did to it in between.
RowSettled ==
  \A c \in Calls : row[c].status = "building" =>
    pc[c] \in {"created", "marked", "building", "nolog", "lost"}

\* Until a rollback moves current_build back, two builds never get the same number
\* (it names the log file and the image). A build cut off between its row and the
\* project's update is the exception: the next build takes its number again.
NumbersDistinct ==
  (\A r \in Rollbacks : rb[r].pc = "idle") =>
    \A c, d \in Calls :
      /\ c # d /\ pc[c] # "lost" /\ pc[d] # "lost"
      /\ row[c].status # "none" /\ row[d].status # "none"
      => row[c].num # row[d].num

\* A deployment that a rollback marked is never called a success again, except by
\* the pipeline that was still building when Rollback, which takes no lock, ran.
RolledBackStays ==
  [][\A c \in Calls :
       /\ row[c].status = "rolled_back"
       /\ row'[c].status \notin {"rolled_back", "none"}
       => pc[c] = "building"]_vars

\* A queued call is answered even when the pipeline in front of it hangs.
QueuedAnswered == \A c \in Calls : pc[c] = "queued" ~> pc[c] # "queued"

\* Only a fetch, build or deploy command that never returns keeps the lock for good.
LockFreedUnlessHung ==
  []<>(sem = "free") \/ <>[](\E c \in Calls : pc[c] \in {"building", "deploying"})

\* Builds are served as SerialService says: the lock holder is the client served.
stage == [c \in Calls |-> CASE pc[c] = "idle"   -> "new"
                             [] pc[c] = "queued" -> "waiting"
                             [] pc[c] \in Pipeline -> "served"
                             [] OTHER -> "over"]

Service == INSTANCE SerialService WITH Clients <- Calls

ServesOneAtATime == Service!Spec
=============================================================================
