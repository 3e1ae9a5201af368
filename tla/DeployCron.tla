------------------------------ MODULE DeployCron ------------------------------
(***************************************************************************)
(* The scheduled jobs of the deploy plugin (src/plugins/deploy/cron.go and *)
(* the CronJob operations of service.go), for one job. Unlike the cronjob  *)
(* plugin's, this scheduler keeps its runner and its map over a stop and a *)
(* start, holds its lock over removing and adding, and does not keep two   *)
(* runs of a job apart.                                                    *)
(***************************************************************************)
EXTENDS Naturals, FiniteSets

CONSTANTS JobReqs,      \* requests in progress
          JobRuns,      \* commands in progress
          MaxJobStarts  \* bound on starts of the plugin

ASSUME JobAssumption == MaxJobStarts \in Nat

VARIABLES job,       \* the row: "unborn", "on", "off" or "gone"
          jobUp,     \* the runner ticks
          jobLoad,   \* Start has read the job as enabled and is yet to add it
          jobEntry,  \* live entries in the runner, and whether the map knows one
          jobReq,    \* the requests: "idle" or what they are yet to do
          jobRun,    \* the commands: "idle", "read" or "cmd"
          jobStarts, \* calls of Start in this process
          jobCrowd   \* two requests, or a request and Start, have overlapped

jobVars == <<job, jobUp, jobLoad, jobEntry, jobReq, jobRun, jobStarts, jobCrowd>>

JobTypeOK ==
  /\ job \in {"unborn", "on", "off", "gone"}
  /\ jobUp \in BOOLEAN /\ jobLoad \in BOOLEAN /\ jobCrowd \in BOOLEAN
  /\ jobEntry \in [live : 0..MaxJobStarts + 2, known : BOOLEAN]
  /\ jobReq \in [JobReqs -> {"idle", "addOn", "addOff", "read", "remove", "forget"}]
  /\ jobRun \in [JobRuns -> {"idle", "read", "cmd"}]
  /\ jobStarts \in 0..MaxJobStarts

JobInit ==
  /\ job = "unborn" /\ jobUp = FALSE /\ jobLoad = FALSE
  /\ jobEntry = [live |-> 0, known |-> FALSE]
  /\ jobReq = [r \in JobReqs |-> "idle"]
  /\ jobRun = [x \in JobRuns |-> "idle"]
  /\ jobStarts = 0 /\ jobCrowd = FALSE

JobQuiet == ~jobLoad /\ \A r \in JobReqs : jobReq[r] = "idle"
JobRow == job \in {"on", "off"}

\* A request or a start in progress; a crowd of them is remembered.
EnterJob(r, pc) ==
  /\ jobReq[r] = "idle" /\ jobUp
  /\ jobReq' = [jobReq EXCEPT ![r] = pc]
  /\ jobCrowd' = (jobCrowd \/ ~JobQuiet)

-----------------------------------------------------------------------------
(* The scheduler.                                                          *)

addJob(e) == [live |-> e.live + 1, known |-> TRUE]

\* RemoveJob, and the first half of AddJob.
RemoveJob(e) == [live |-> IF e.known THEN e.live - 1 ELSE e.live, known |-> FALSE]

AddWithoutRemove(e, on) == IF on THEN addJob(e) ELSE e

AddJob(e, on) == IF on THEN addJob(RemoveJob(e)) ELSE RemoveJob(e)

\* Start reads the enabled jobs,
JobStart ==
  /\ ~jobUp /\ ~jobLoad /\ jobStarts < MaxJobStarts
  /\ jobStarts' = jobStarts + 1
  /\ jobLoad' = (job = "on")
  /\ jobUp' = (job # "on")
  /\ jobCrowd' = (jobCrowd \/ ~JobQuiet)
  /\ UNCHANGED <<job, jobEntry, jobReq, jobRun>>

\* adds them without removing what an earlier start has added, and starts the runner.
JobLoad ==
  /\ jobLoad
  /\ jobEntry' = addJob(jobEntry)
  /\ jobLoad' = FALSE /\ jobUp' = TRUE
  /\ UNCHANGED <<job, jobReq, jobRun, jobStarts, jobCrowd>>

\* Stop only stops the timers: entries, map and running commands stay.
JobStop ==
  /\ jobUp /\ jobUp' = FALSE
  /\ UNCHANGED <<job, jobLoad, jobEntry, jobReq, jobRun, jobStarts, jobCrowd>>

-----------------------------------------------------------------------------
(* Requests, through the routes of the plugin.                             *)

\* CreateCronJob: the row, then the scheduler. The column's default of true replaces the
\* false of a request, so the job is enabled in any case.
CreateCronJob(r) ==
  /\ job = "unborn"
  /\ job' = "on" /\ EnterJob(r, "addOn")
  /\ UNCHANGED <<jobUp, jobLoad, jobEntry, jobRun, jobStarts>>

\* UpdateCronJob: the row's columns are written, the row is read back, and the
\* scheduler takes what was read.
UpdateCronJob(r) ==
  /\ JobRow
  /\ job' \in {"on", "off"}
  /\ EnterJob(r, "read")
  /\ UNCHANGED <<jobUp, jobLoad, jobEntry, jobRun, jobStarts>>

ReadJobBack(r) ==
  /\ jobReq[r] = "read"
  /\ jobReq' = [jobReq EXCEPT ![r] = CASE job = "on" -> "addOn" [] job = "off" -> "addOff" [] OTHER -> "idle"]
  /\ UNCHANGED <<job, jobUp, jobLoad, jobEntry, jobRun, jobStarts, jobCrowd>>

RegisterJob(r) ==
  /\ jobReq[r] \in {"addOn", "addOff"}
  /\ jobEntry' = AddJob(jobEntry, jobReq[r] = "addOn")
  /\ jobReq' = [jobReq EXCEPT ![r] = "idle"]
  /\ UNCHANGED <<job, jobUp, jobLoad, jobRun, jobStarts, jobCrowd>>

\* DeleteCronJob: the row first, then the scheduler.
DeleteCronJob(r) ==
  /\ JobRow
  /\ job' = "gone"
  /\ EnterJob(r, "remove")
  /\ UNCHANGED <<jobUp, jobLoad, jobEntry, jobRun, jobStarts>>

\* DeleteProject goes the other way: the scheduler, then the rows.
DeleteProjectJobs(r) ==
  /\ JobRow
  /\ jobEntry' = RemoveJob(jobEntry)
  /\ EnterJob(r, "forget")
  /\ UNCHANGED <<job, jobUp, jobLoad, jobRun, jobStarts>>

FinishJobRequest(r) ==
  /\ \/ /\ jobReq[r] = "remove"
        /\ jobEntry' = RemoveJob(jobEntry)
        /\ UNCHANGED job
     \/ jobReq[r] = "forget" /\ job' = "gone" /\ UNCHANGED jobEntry
  /\ jobReq' = [jobReq EXCEPT ![r] = "idle"]
  /\ UNCHANGED <<jobUp, jobLoad, jobRun, jobStarts, jobCrowd>>

-----------------------------------------------------------------------------
(* executeJob: read the row, run the command if the job is enabled, write   *)
(* the outcome. Every entry's tick does so.                                *)

JobTick(x) ==
  /\ jobUp /\ jobEntry.live > 0 /\ jobRun[x] = "idle"
  /\ jobRun' = [jobRun EXCEPT ![x] = "read"]
  /\ UNCHANGED <<job, jobUp, jobLoad, jobEntry, jobReq, jobStarts, jobCrowd>>

executeJob(x) ==
  /\ \/ jobRun[x] = "read" /\ jobRun' = [jobRun EXCEPT ![x] = IF job = "on" THEN "cmd" ELSE "idle"]
     \/ jobRun[x] = "cmd" /\ jobRun' = [jobRun EXCEPT ![x] = "idle"]
  /\ UNCHANGED <<job, jobUp, jobLoad, jobEntry, jobReq, jobStarts, jobCrowd>>

JobNext ==
  \/ JobStart \/ JobLoad \/ JobStop
  \/ \E r \in JobReqs :
       \/ CreateCronJob(r) \/ UpdateCronJob(r) \/ ReadJobBack(r) \/ RegisterJob(r)
       \/ DeleteCronJob(r) \/ DeleteProjectJobs(r) \/ FinishJobRequest(r)
  \/ \E x \in JobRuns : JobTick(x) \/ executeJob(x)

JobSpec == JobInit /\ [][JobNext]_jobVars

-----------------------------------------------------------------------------

\* Once the requests have ended, and if none overlapped, an enabled job has an entry that
\* AddJob and RemoveJob can find, and whatever the number of starts, at most one entry
\* more per start; a job that is not enabled keeps none but what earlier starts left.
JobEntriesMatch ==
  jobUp /\ JobQuiet /\ ~jobCrowd =>
    IF job = "on" THEN jobEntry.known /\ jobEntry.live \in 1..jobStarts
                  ELSE ~jobEntry.known /\ jobEntry.live < jobStarts
=============================================================================
