------------------------------ MODULE MCOperations ------------------------------
(***************************************************************************)
(* The plugins that act on their own time, terminals, files, and the Caddy *)
(* binary. They share no state, so a run takes them one by one: focus says *)
(* which one moves, and the state space is the sum of theirs, not the      *)
(* product.                                                                *)
(*                                                                         *)
(* Cronjobs and Backups are taken twice, once for what goes on at the same *)
(* time as executions and backups, with one request, and once for requests *)
(* among themselves.                                                       *)
(***************************************************************************)
EXTENDS Cronjobs, Crontab, DeployCron, DeployExtras, Backups, CaddyUpgrade, Events, Terminals, Files

CONSTANT FirstReq   \* the one request that comes while executions or backups are in progress

ASSUME FirstReqAssumption == FirstReq \in CronReqs \cap ConfigReqs \cap FileReqs

VARIABLE focus

opsVars == <<focus, cronVars, crontabVars, jobVars, extraVars, bakVars, upgVars, evVars, termVars, fileVars>>

Foci == {"runs", "requests", "crontab", "jobs", "extras", "backups", "schedule", "upgrade", "events",
         "terminals", "files"}

\* A component that nothing drives keeps these values; executions, the crontab, the upgrade and the
\* terminals rest in their initial states.
Off == "off"
JobOff == /\ job = Off /\ jobUp = Off /\ jobLoad = Off /\ jobEntry = Off /\ jobReq = Off
          /\ jobRun = Off /\ jobStarts = Off /\ jobCrowd = Off
ExtraOff == /\ extra = Off /\ units = Off /\ up = Off /\ starting = Off /\ altered = Off
            /\ overlap = Off
BakOff == /\ cfg = Off /\ repos = Off /\ conn = Off /\ bak = Off /\ busy = Off /\ snapRow = Off
          /\ staging = Off /\ op = Off /\ sched = Off /\ change = Off /\ changes = Off
          /\ swept = Off /\ moved = Off /\ raced = Off
EvOff == /\ evBoot = Off /\ evCron = Off /\ evSubs = Off /\ evChan = Off /\ evPub = Off
         /\ evSends = Off

OpsInit ==
  /\ focus \in Foci
  /\ CronInit /\ CrontabInit /\ UpgInit /\ TermInit
  /\ focus # "crontab" => crontab = {}
  /\ IF focus = "jobs" THEN JobInit ELSE JobOff
  /\ IF focus = "extras" THEN ExtraInit ELSE ExtraOff
  /\ IF focus \in {"backups", "schedule"} THEN BakInit ELSE BakOff
  /\ IF focus = "events" THEN EvInit ELSE EvOff
  /\ IF focus = "files" THEN FileInit ELSE tree = Off /\ fileReq = Off

\* Channels that listen to all, to some and to nothing that is published.
EvFilters1 == {{}, {<<"cronjob", "*">>}, {<<"deploy", "*">>, <<"deploy">>}}

Move(f, A, others) == focus = f /\ A /\ UNCHANGED <<focus, others>>

\* Paths "a", "a/a" and "d"; archives beside "a" and in it.
FilePaths1 == {<<"a">>, <<"a", "a">>}
CorePaths1 == {<<"a", "a">>}
Selections1 == {<<<<"a">>>>, <<<<"a", "a">>, <<"a">>>>}
ArchivePaths1 == {<<"z">>, <<"a", "z">>}
DestPaths1 == {<<"d">>}

\* The first request packs one archive at a time and extracts it to where nothing is; one other
\* request alters something meanwhile.
FilesNext ==
  LET first == fileReq[FirstReq]
      next == fileReq'[FirstReq] IN
  /\ FileNext
  /\ \A r \in FileReqs : fileReq'[r].op # "none" => (r = FirstReq) = (fileReq'[r].op \in {"pack", "extract"})
  /\ first.op = "none" => /\ next.op = "pack" => \A p \in ArchivePaths : ~There(p)
                          /\ There(<<"d">>) => next.op = "none"
  /\ ~first.calm => \A r \in FileReqs \ {FirstReq} : fileReq[r].op = "none" => fileReq'[r].op = "none"

\* One request changes the configuration, once. The backups are alike: one of them is the first.
BackupsNext ==
  LET first == CHOOSE b \in Backup : TRUE IN
  /\ BakNextOf(Backup, {FirstReq}, {"same"}) /\ changes' <= 1
  /\ bak'[first].pc = "new" => \A b \in Backup : bak'[b].pc = "new"

OpsNext ==
  \/ Move("runs", CronNextOf({FirstReq}, Executions), <<crontabVars, jobVars, extraVars, bakVars, upgVars, evVars, termVars, fileVars>>)
  \/ Move("requests", CronNextOf(CronReqs, {}), <<crontabVars, jobVars, extraVars, bakVars, upgVars, evVars, termVars, fileVars>>)
  \/ Move("crontab", CrontabNext, <<cronVars, jobVars, extraVars, bakVars, upgVars, evVars, termVars, fileVars>>)
  \/ Move("jobs", JobNext, <<cronVars, crontabVars, extraVars, bakVars, upgVars, evVars, termVars, fileVars>>)
  \/ Move("extras", ExtraNext, <<cronVars, crontabVars, jobVars, bakVars, upgVars, evVars, termVars, fileVars>>)
  \/ Move("backups", BackupsNext, <<cronVars, crontabVars, jobVars, extraVars, upgVars, evVars, termVars, fileVars>>)
  \/ Move("schedule", BakNextOf({}, ConfigReqs, {"on", "off", "same"}),
          <<cronVars, crontabVars, jobVars, extraVars, upgVars, evVars, termVars, fileVars>>)
  \/ Move("upgrade", UpgNext, <<cronVars, crontabVars, jobVars, extraVars, bakVars, evVars, termVars, fileVars>>)
  \/ Move("events", EvNext, <<cronVars, crontabVars, jobVars, extraVars, bakVars, upgVars, termVars, fileVars>>)
  \/ Move("terminals", TermNext, <<cronVars, crontabVars, jobVars, extraVars, bakVars, upgVars, evVars, fileVars>>)
  \/ Move("files", FilesNext, <<cronVars, crontabVars, jobVars, extraVars, bakVars, upgVars, evVars, termVars>>)

OpsSpec == OpsInit /\ [][OpsNext]_opsVars /\ CronFairness /\ TermFairness

OpsTypeOK ==
  /\ focus \in Foci
  /\ CronTypeOK /\ CrontabTypeOK /\ UpgTypeOK /\ TermTypeOK
  /\ focus = "jobs" => JobTypeOK
  /\ focus = "extras" => ExtraTypeOK
  /\ focus \in {"backups", "schedule"} => BakTypeOK
  /\ focus = "events" => EvTypeOK
  /\ focus = "files" => FileTypeOK

\* One execution of a task and one backup at a time, and a guard that is set exactly then; one
\* handling of an event, and a notification for each channel that asked for it; no more shells than
\* terminals have places.
OneRun ==
  /\ CronOneRun /\ ShellsBounded
  /\ focus \in {"backups", "schedule"} => BackupOneRun
  /\ focus = "events" => EventsSound

\* What is held is given back: the guard of a task, and the place of a terminal.
HeldIsReleased == CronGuardReleased /\ PlacesReturned

\* Each scheduler in memory has the entries that the rows call for: the cronjob plugin's,
\* the deploy plugin's and the backup plugin's, each under the conditions its module names.
SchedulersMatch ==
  /\ CronEntryIffOn
  /\ focus = "jobs" => JobEntriesMatch
  /\ focus \in {"backups", "schedule"} => BackupSchedule

\* What is where, and what it was taken from: the units and processes of an extra process, and what a
\* backup took.
ContentKept ==
  /\ focus = "extras" => ExtrasBelong
  /\ focus \in {"backups", "schedule"} => BackupContent

\* An archive holds what was packed, and gives it back.
ArchivesSound == focus = "files" => FilesSound
=============================================================================
