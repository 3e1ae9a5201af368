------------------------- MODULE DeployTrafficProofs -------------------------
(***************************************************************************)
(* Proofs about DeployTraffic: its types, that a zero-downtime deploy never*)
(* leaves the domain's traffic without a process, and what is so between   *)
(* deployments: the ports agree, and failures and deletions clean up.      *)
(*                                                                         *)
(* All of it is about clean histories, and rests on one invariant that     *)
(* says, for each step of a deployment, on which port the process and the  *)
(* staging process are, and where the traffic goes.                        *)
(***************************************************************************)
EXTENDS DeployTraffic, TLAPS

main == slot["main"]
staging == slot["staging"]

\* The steps at which the traffic goes to the old process, and to the new one.
OldSteps == {"stage", "check", "health", "switch", "retire"}
NewSteps == {"retire", "rename", "finish"}
Staged == {"check", "health", "switch", "retire", "rename"}

\* Two processes never listen on one port.
Exclusive == main.run # NoPort => main.run # staging.run

\* A deployment works on the row as it is, and nobody is about to roll it back.
Undisturbed ==
  /\ step # "idle" => row.exists /\ snap.port = row.port /\ snap.host = row.host
  /\ rollback # NoPort => step = "idle" /\ row.exists /\ rollback = row.port

\* The domain's traffic goes to the row's port; from the switch to the end of the
\* deployment it goes to the new one.
Traffic ==
  /\ caddy.db = caddy.live
  /\ row.exists /\ ~row.host => caddy.live = NoPort
  /\ row.exists /\ row.host => caddy.live = IF step \in NewSteps THEN NewPort ELSE row.port
  /\ step \in {"stage"} \cup StageSteps => row.host
  /\ step = "proxy" => ~row.host

\* The main process is on the row's port, and there while the new one is prepared.
MainPlace ==
  /\ main.run \in {NoPort, main.def}
  /\ main.def \in {NoPort, IF step = "finish" THEN NewPort ELSE row.port}
  /\ step \in OldSteps => main.run = row.port
  /\ step = "rename" => main.def = NoPort
  /\ ~row.exists => main = Absent

\* The staging process is on the other port while a deployment prepares it. Before and
\* after, there is none in docker mode; in bare mode it may be the project's process,
\* whose unit was renamed under it.
StagingPlace ==
  /\ step \in Staged => staging.def = NewPort /\ staging.run \in {NoPort, NewPort}
  /\ step \in {"switch", "retire", "rename"} => staging.run = NewPort
  /\ step \notin Staged /\ mode = "docker" => staging.run = NoPort /\ ~staging.want
  /\ step \notin Staged /\ mode = "bare" =>
       staging.def = NoPort /\ staging.run \in {NoPort, IF step = "finish" THEN NewPort ELSE row.port}
  /\ step = "finish" => NewPort \in {main.run, staging.run}

TInv == Exclusive /\ (Clean => Undisturbed /\ Traffic /\ MainPlace /\ StagingPlace)

-----------------------------------------------------------------------------
(* Types.                                                                  *)

SlotState == [def : Ports \cup {NoPort}, run : Ports \cup {NoPort}, want : BOOLEAN]
RowState == [exists : BOOLEAN, status : {"pending", "building", "running", "stopped", "error"},
             port : Ports, host : BOOLEAN]

\* The slots are records of their own.
LEMMA SlotsTyped ==
  TypeOK => /\ slot \in [Slots -> SlotState] /\ row \in RowState
            /\ main \in SlotState /\ staging \in SlotState
BY DEF TypeOK, SlotState, RowState, main, staging, Slots

\* What a launch, or a failed one, makes of a slot.
LEMMA LaunchType ==
  ASSUME NEW p \in Ports, NEW s \in Slots
  PROVE  /\ Launched(s, p) \subseteq SlotState
         /\ Absent \in SlotState /\ NotStarted(p) \in SlotState
<1>1. ASSUME NEW q \in Ports \cup {NoPort}
      PROVE  [def |-> p, run |-> q, want |-> TRUE] \in SlotState
  BY DEF SlotState
<1>2. Launched(s, p) \subseteq SlotState
  BY <1>1 DEF Launched
<1> QED
  BY <1>2 DEF Absent, NotStarted, SlotState

\* The other port is a port, and another one.
LEMMA OtherPort == TypeOK => NewPort \in Ports /\ NewPort # snap.port
BY DEF TypeOK, NewPort, AlternatePort, Ports

\* A status that is written changes nothing else of the row.
LEMMA StatusType ==
  ASSUME TypeOK, NEW s \in {"pending", "building", "running", "stopped", "error"}, SetStatus(s)
  PROVE  /\ row' \in RowState
         /\ row'.exists = row.exists /\ row'.port = row.port /\ row'.host = row.host
BY SlotsTyped DEF SetStatus, Write, RowState

\* One slot changes.
LEMMA SlotType ==
  ASSUME TypeOK, NEW s \in Slots, NEW m \in SlotState, slot' = [slot EXCEPT ![s] = m]
  PROVE  slot' \in [Slots -> SlotState]
BY SlotsTyped

\* Every step keeps the types.
LEMMA TypeStep == TypeOK /\ [Next]_vars => TypeOK'
<1> SUFFICES ASSUME TypeOK, [Next]_vars
             PROVE  TypeOK'
  OBVIOUS
<1> DEFINE CaddyState == [db : Ports \cup {NoPort}, live : Ports \cup {NoPort}]
<1>0. /\ slot \in [Slots -> SlotState] /\ row \in RowState
      /\ main \in SlotState /\ staging \in SlotState
      /\ NewPort \in Ports /\ snap.port \in Ports /\ snap.host \in BOOLEAN
      /\ "main" \in Slots /\ "staging" \in Slots
      /\ row.port \in Ports /\ row.host \in BOOLEAN
  BY SlotsTyped, OtherPort DEF Slots, TypeOK
<1> SUFFICES /\ slot' \in [Slots -> SlotState] /\ row' \in RowState
             /\ UNCHANGED mode /\ caddy' \in CaddyState
             /\ step' \in Steps /\ snap' \in [port : Ports, host : BOOLEAN]
             /\ rollback' \in Ports \cup {NoPort} /\ deploys' \in 0..MaxDeploys
             /\ faulted' \in BOOLEAN /\ disturbed' \in BOOLEAN
  BY DEF TypeOK, SlotState, RowState
<1>1. CASE Begin
  <2>1. deploys' \in 0..MaxDeploys
    BY <1>1, MaxDeploysAssumption DEF Begin, TypeOK
  <2>2. snap' \in [port : Ports, host : BOOLEAN]
    BY <1>0, <1>1 DEF Begin
  <2>3. disturbed' \in BOOLEAN /\ UNCHANGED <<mode, slot, caddy, rollback, faulted>> /\ step' \in Steps
    BY <1>1 DEF Begin, TypeOK, Steps
  <2>4. row' \in RowState
    BY <1>1, StatusType DEF Begin
  <2> QED
    BY <1>0, <2>1, <2>2, <2>3, <2>4 DEF TypeOK
<1>2. CASE Decide
  BY <1>0, <1>2, StatusType DEF Decide, Fail, TypeOK, Steps
<1>3. CASE StartMain
  <2>1. \E m \in SlotState : slot' = [slot EXCEPT !["main"] = m]
    BY <1>0, <1>3, LaunchType DEF StartMain, main
  <2> QED
    BY <1>0, <1>3, <2>1, SlotType, StatusType DEF StartMain, Fail, TypeOK, Steps
<1>4. CASE CheckMain
  BY <1>0, <1>4, StatusType DEF CheckMain, Fail, TypeOK, Steps
<1>5. CASE SetupProxy
  <2>1. row' \in RowState
    BY <1>0, <1>5 DEF SetupProxy, Write, RowState
  <2>2. caddy' \in CaddyState
    <3>1. CASE caddy' = [db |-> snap.port, live |-> snap.port]
      BY <1>0, <3>1
    <3>2. CASE caddy' = [caddy EXCEPT !.db = IF @ = NoPort THEN snap.port ELSE @]
      BY <1>0, <3>2 DEF TypeOK
    <3> QED
      BY <1>5, <3>1, <3>2 DEF SetupProxy
  <2> QED
    BY <1>0, <1>5, <2>1, <2>2 DEF SetupProxy, TypeOK, Steps
<1>6. CASE StartStaging
  <2>1. slot' \in [Slots -> SlotState]
    <3>1. CASE slot' = [slot EXCEPT !["staging"].def = NewPort]
      BY <1>0, <3>1 DEF SlotState, staging
    <3>2. CASE \E m \in SlotState : slot' = [slot EXCEPT !["staging"] = m]
      BY <1>0, <3>2, SlotType
    <3> QED
      BY <1>0, <1>6, <3>1, <3>2, LaunchType DEF StartStaging, staging
  <2> QED
    BY <1>0, <1>6, <2>1, StatusType DEF StartStaging, Fail, TypeOK, Steps, StageSteps
<1>7. CASE CheckStaging \/ HealthCheck
  <2>1. CleanupStaging => slot' \in [Slots -> SlotState]
    BY <1>0, LaunchType, SlotType DEF CleanupStaging
  <2> QED
    BY <1>0, <1>7, <2>1, StatusType DEF CheckStaging, HealthCheck, Fail, TypeOK, Steps, StageSteps
<1>8. CASE SwitchUpstream
  <2>1. caddy' \in CaddyState
    <3>1. CASE caddy' = [db |-> NewPort, live |-> NewPort]
      BY <1>0, <3>1
    <3>2. CASE \E p \in {caddy.db, NewPort} : caddy' = [caddy EXCEPT !.db = p]
      BY <1>0, <3>2 DEF TypeOK
    <3> QED
      BY <1>8, <3>1, <3>2 DEF SwitchUpstream
  <2> QED
    BY <1>0, <1>8, <2>1 DEF SwitchUpstream, TypeOK, Steps, StageSteps
<1>9. CASE RetireMain
  BY <1>0, <1>9, LaunchType, SlotType DEF RetireMain, TypeOK, Steps, StageSteps
<1>10. CASE Rename
  <2>1. slot' \in [Slots -> SlotState]
    <3>1. CASE slot' = [main |-> slot["staging"], staging |-> Absent]
      BY <1>0, <3>1, LaunchType DEF Slots, staging
    <3>2. CASE slot' = [slot EXCEPT !["main"].def = slot["staging"].def, !["staging"].def = NoPort]
      BY <1>0, <3>2 DEF SlotState, staging, main
    <3> QED
      BY <1>0, <1>10, <3>1, <3>2 DEF Rename
  <2> QED
    BY <1>0, <1>10, <2>1 DEF Rename, TypeOK, Steps, StageSteps
<1>11. CASE Finish
  <2>1. row' \in RowState
    BY <1>0, <1>11 DEF Finish, Write, RowState
  <2> QED
    BY <1>0, <1>11, <2>1 DEF Finish, TypeOK, Steps
<1>12. CASE StartProject \/ StopProject
  <2>1. slot' \in [Slots -> SlotState]
    <3>1. CASE \E m \in SlotState : slot' = [slot EXCEPT !["main"] = m]
      BY <1>0, <3>1, SlotType
    <3>2. CASE slot' = [slot EXCEPT !["main"].run = NoPort, !["main"].want = FALSE]
      BY <1>0, <3>2 DEF SlotState, main
    <3>3. main.def # NoPort => main.def \in Ports
      BY <1>0 DEF SlotState
    <3> QED
      BY <1>0, <1>12, <3>1, <3>2, <3>3, LaunchType DEF StartProject, StopProject, main
  <2> QED
    BY <1>0, <1>12, <2>1, StatusType DEF StartProject, StopProject, Disturbs, TypeOK
<1>13. CASE RollbackRead
  BY <1>0, <1>13 DEF RollbackRead, Disturbs, TypeOK
<1>14. CASE RollbackRun
  <2>1. /\ rollback \in Ports
        /\ main.def # NoPort => main.def \in Ports
    BY <1>0, <1>14 DEF RollbackRun, TypeOK, SlotState
  <2>2. UNCHANGED slot \/ \E m \in SlotState : slot' = [slot EXCEPT !["main"] = m]
    BY <1>0, <1>14, <2>1, LaunchType DEF RollbackRun, main
  <2> QED
    BY <1>0, <1>14, <2>2, SlotType, StatusType DEF RollbackRun, Disturbs, TypeOK
<1>15. CASE EditPort
  BY <1>0, <1>15 DEF EditPort, RowState, TypeOK
<1>16. CASE DeleteProject
  <2>1. row' \in RowState
    BY <1>0, <1>16 DEF DeleteProject, RowState
  <2>2. caddy' \in CaddyState
    BY <1>0, <1>16 DEF DeleteProject, TypeOK
  <2>3. slot' \in [Slots -> SlotState]
    BY <1>0, <1>16, LaunchType, SlotType DEF DeleteProject
  <2> QED
    BY <1>0, <1>16, <2>1, <2>2, <2>3 DEF DeleteProject, TypeOK
<1>17. CASE \E s \in Slots : Supervise(s)
  <2>1. slot' \in [Slots -> SlotState]
    BY <1>0, <1>17 DEF Supervise, SlotState
  <2> QED
    BY <1>0, <1>17, <2>1 DEF Supervise, TypeOK
<1>18. CASE OtherHostApplied
  BY <1>0, <1>18 DEF OtherHostApplied, TypeOK
<1>19. CASE UNCHANGED vars
  BY <1>0, <1>19 DEF vars, TypeOK
<1> QED
  BY <1>1, <1>2, <1>3, <1>4, <1>5, <1>6, <1>7, <1>8, <1>9, <1>10, <1>11, <1>12, <1>13, <1>14,
     <1>15, <1>16, <1>17, <1>18, <1>19 DEF Next, DeployStep

-----------------------------------------------------------------------------
(* The invariant.                                                          *)

\* One slot changes and the other does not.
LEMMA Parts ==
  ASSUME TypeOK
  PROVE  /\ \A m : slot' = [slot EXCEPT !["main"] = m] => main' = m /\ staging' = staging
         /\ \A m : slot' = [slot EXCEPT !["staging"] = m] => staging' = m /\ main' = main
BY SlotsTyped DEF main, staging, Slots

\* A process that is launched has its port to itself, or does not stay up.
LEMMA LaunchedAlone ==
  ASSUME NEW p \in Ports
  PROVE  /\ \A m \in Launched("main", p) : /\ m.def = p /\ m.want /\ m.run \in {NoPort, p}
                                           /\ m.run # NoPort => staging.run # p
         /\ \A m \in Launched("staging", p) : /\ m.def = p /\ m.want /\ m.run \in {NoPort, p}
                                              /\ m.run # NoPort => main.run # p
<1>1. "main" \in Slots \ {"staging"} /\ "staging" \in Slots \ {"main"}
  BY DEF Slots
<1> QED
  BY <1>1 DEF Launched, main, staging

\* A slot without a process.
LEMMA NoProcess ==
  /\ Absent.def = NoPort /\ Absent.run = NoPort /\ ~Absent.want
  /\ \A p : NotStarted(p).def = p /\ NotStarted(p).run = NoPort /\ ~NotStarted(p).want
BY DEF Absent, NotStarted

\* One slot changes, and its new process is not on the other's port.
LEMMA ExclusiveByMain ==
  ASSUME TypeOK, NEW m, slot' = [slot EXCEPT !["main"] = m], m.run # NoPort => m.run # staging.run
  PROVE  Exclusive'
BY Parts DEF Exclusive

\* The staging process changes, and keeps off the port of the main one.
LEMMA ExclusiveByStaging ==
  ASSUME TypeOK, NEW m, slot' = [slot EXCEPT !["staging"] = m], main.run # NoPort => main.run # m.run
  PROVE  Exclusive'
BY Parts DEF Exclusive

\* No step lets two processes listen on one port.
LEMMA ExclusiveStep ==
  ASSUME TypeOK, Exclusive, [Next]_vars
  PROVE  Exclusive'
<1>0. /\ main \in SlotState /\ staging \in SlotState /\ NewPort \in Ports /\ snap.port \in Ports
      /\ NoPort \notin Ports
      /\ main.def # NoPort => main.def \in Ports
  BY SlotsTyped, OtherPort DEF TypeOK, SlotState, Ports, NoPort
<1> USE DEF Exclusive
<1>1. CASE UNCHANGED slot
  BY <1>1 DEF main, staging
<1>2. CASE StartMain
  <2>1. PICK m \in Launched("main", snap.port) \cup {Absent, main, NotStarted(snap.port)} :
          slot' = [slot EXCEPT !["main"] = m]
    BY <1>2 DEF StartMain, main
  <2>2. m.run # NoPort => m.run # staging.run
    BY <1>0, <2>1, LaunchedAlone, NoProcess
  <2> QED
    BY <2>1, <2>2, ExclusiveByMain
<1>3. CASE StartStaging
  <2>1. CASE slot' = [slot EXCEPT !["staging"].def = NewPort]
    BY <1>0, <2>1, SlotsTyped DEF main, staging, Slots, SlotState
  <2>2. CASE \E m \in Launched("staging", NewPort) \cup {Absent, staging, NotStarted(NewPort)} :
               slot' = [slot EXCEPT !["staging"] = m]
    <3>1. PICK m \in Launched("staging", NewPort) \cup {Absent, staging, NotStarted(NewPort)} :
            slot' = [slot EXCEPT !["staging"] = m]
      BY <2>2
    <3>2. main.run # NoPort => main.run # m.run
      BY <1>0, <3>1, LaunchedAlone, NoProcess
    <3> QED
      BY <3>1, <3>2, ExclusiveByStaging
  <2> QED
    BY <1>3, <2>1, <2>2 DEF StartStaging, staging
<1>4. CASE CleanupStaging
  BY <1>4, ExclusiveByStaging, NoProcess DEF CleanupStaging
<1>5. CASE RetireMain \/ DeleteProject
  BY <1>5, ExclusiveByMain, NoProcess DEF RetireMain, DeleteProject
<1>6. CASE Rename
  <2>1. CASE slot' = [main |-> slot["staging"], staging |-> Absent]
    BY <2>1, NoProcess DEF main, staging
  <2>2. CASE slot' = [slot EXCEPT !["main"].def = slot["staging"].def, !["staging"].def = NoPort]
    BY <2>2, SlotsTyped DEF main, staging, Slots, SlotState
  <2> QED
    BY <1>1, <1>6, <2>1, <2>2 DEF Rename
<1>7. CASE StartProject \/ StopProject
  <2>1. CASE slot' = [slot EXCEPT !["main"].run = NoPort, !["main"].want = FALSE]
    BY <2>1, SlotsTyped DEF main, staging, Slots, SlotState
  <2>2. CASE \E m \in Launched("main", main.def) \cup {main} :
               main.def # NoPort /\ slot' = [slot EXCEPT !["main"] = m]
    <3>1. PICK m \in Launched("main", main.def) \cup {main} : slot' = [slot EXCEPT !["main"] = m]
      BY <2>2
    <3>2. m.run # NoPort => m.run # staging.run
      BY <1>0, <2>2, <3>1, LaunchedAlone
    <3> QED
      BY <3>1, <3>2, ExclusiveByMain
  <2> QED
    BY <1>7, <2>1, <2>2 DEF StartProject, StopProject, main
<1>8. CASE RollbackRun
  <2>1. CASE \E m \in Launched("main", rollback) \cup {NotStarted(rollback)} :
               slot' = [slot EXCEPT !["main"] = m]
    <3>1. rollback \in Ports
      BY <1>8 DEF RollbackRun, TypeOK
    <3>2. PICK m \in Launched("main", rollback) \cup {NotStarted(rollback)} :
            slot' = [slot EXCEPT !["main"] = m]
      BY <2>1
    <3>3. m.run # NoPort => m.run # staging.run
      BY <3>1, <3>2, LaunchedAlone, NoProcess
    <3> QED
      BY <3>2, <3>3, ExclusiveByMain
  <2>2. CASE main.def # NoPort /\ \E m \in Launched("main", main.def) : slot' = [slot EXCEPT !["main"] = m]
    <3>1. PICK m \in Launched("main", main.def) : slot' = [slot EXCEPT !["main"] = m]
      BY <2>2
    <3>2. m.run # NoPort => m.run # staging.run
      BY <1>0, <2>2, <3>1, LaunchedAlone
    <3> QED
      BY <3>1, <3>2, ExclusiveByMain
  <2> QED
    BY <1>1, <1>8, <2>1, <2>2 DEF RollbackRun, main
<1>9. CASE \E s \in Slots : Supervise(s)
  <2>1. PICK s \in Slots : Supervise(s)
    BY <1>9
  <2>2. s \in {"main", "staging"} /\ slot[s].run = NoPort /\ slot[s].def # NoPort
        /\ main.run # slot[s].def /\ staging.run # slot[s].def
        /\ slot' = [slot EXCEPT ![s].run = slot[s].def]
    BY <2>1 DEF Supervise, IsRunning, Bound, Slots, main, staging
  <2> QED
    BY <2>2, SlotsTyped DEF main, staging, Slots, SlotState
<1> QED
  BY <1>1, <1>2, <1>3, <1>4, <1>5, <1>6, <1>7, <1>8, <1>9
  DEF Next, DeployStep, vars, Begin, Decide, CheckMain, SetupProxy, CheckStaging, HealthCheck,
      SwitchUpstream, Finish, RollbackRead, EditPort, OtherHostApplied

\* A history that is clean has been so.
LEMMA CleanBefore == TypeOK /\ [Next]_vars /\ Clean' => Clean
BY DEF TypeOK, Next, DeployStep, vars, Clean, Begin, Decide, StartMain, CheckMain, SetupProxy, StartStaging,
       CheckStaging, HealthCheck, SwitchUpstream, RetireMain, Rename, Finish, StartProject, StopProject,
       RollbackRead, RollbackRun, EditPort, DeleteProject, Supervise, OtherHostApplied, Disturbs

Places == Undisturbed /\ Traffic /\ MainPlace /\ StagingPlace

\* The steps of a deployment that leave the processes alone.
LEMMA BookkeepingStep ==
  ASSUME TypeOK, Places, Exclusive, Clean',
         Begin \/ Decide \/ CheckMain \/ SetupProxy \/ SwitchUpstream \/ Finish
  PROVE  Places'
<1>0. /\ main \in SlotState /\ staging \in SlotState /\ row \in RowState
      /\ NewPort \in Ports /\ NewPort # snap.port /\ snap.port \in Ports /\ NoPort \notin Ports
  BY SlotsTyped, OtherPort DEF TypeOK, Ports, NoPort
<1>1. UNCHANGED <<mode, slot, rollback>> /\ main' = main /\ staging' = staging
  BY DEF Begin, Decide, CheckMain, SetupProxy, SwitchUpstream, Finish, main, staging
<1>2. CASE Begin
  <2>1. /\ step = "idle" /\ step' = "built" /\ rollback = NoPort /\ UNCHANGED caddy
        /\ row.exists /\ row'.exists /\ row'.port = row.port /\ row'.host = row.host
        /\ snap'.port = row.port /\ snap'.host = row.host
    BY <1>2, StatusType DEF Begin, Clean
  <2> QED
    BY <1>0, <1>1, <2>1 DEF Places, Undisturbed, Traffic, MainPlace, StagingPlace, OldSteps, NewSteps,
                            Staged, StageSteps
<1>3. CASE Decide
  <2>1. /\ step = "built" /\ UNCHANGED <<caddy, snap>> /\ NewPort' = NewPort
        /\ row'.exists = row.exists /\ row'.port = row.port /\ row'.host = row.host
        /\ step' \in {"idle", "install", "stage"}
        /\ step' = "stage" => snap.host /\ main.run # NoPort
    BY <1>3, StatusType DEF Decide, Fail, IsRunning, main, NewPort
  <2> QED
    BY <1>0, <1>1, <2>1 DEF Places, Undisturbed, Traffic, MainPlace, StagingPlace, OldSteps, NewSteps,
                            Staged, StageSteps
<1>4. CASE CheckMain
  <2>1. /\ step = "started" /\ UNCHANGED <<caddy, snap>> /\ NewPort' = NewPort
        /\ row'.exists = row.exists /\ row'.port = row.port /\ row'.host = row.host
        /\ step' \in {"idle", "proxy"} /\ (step' = "proxy" => ~snap.host)
    BY <1>4, StatusType DEF CheckMain, Fail, NewPort
  <2> QED
    BY <1>0, <1>1, <2>1 DEF Places, Undisturbed, Traffic, MainPlace, StagingPlace, OldSteps, NewSteps,
                            Staged, StageSteps
<1>5. CASE SetupProxy
  <2>1. /\ step = "proxy" /\ step' = "idle" /\ UNCHANGED snap /\ NewPort' = NewPort
        /\ caddy' = [db |-> snap.port, live |-> snap.port]
        /\ row' = IF row.exists THEN [row EXCEPT !.host = TRUE] ELSE row
    BY <1>5 DEF SetupProxy, Clean, NewPort, Write
  <2>2. row.exists
    BY <2>1 DEF Places, Undisturbed
  <2>3. row'.exists /\ row'.port = row.port /\ row'.host
    BY <1>0, <2>1, <2>2 DEF RowState
  <2> QED
    BY <1>0, <1>1, <2>1, <2>3 DEF Places, Undisturbed, Traffic, MainPlace, StagingPlace, OldSteps, NewSteps,
                            Staged, StageSteps
<1>6. CASE SwitchUpstream
  <2>1. /\ step = "switch" /\ step' = "retire" /\ UNCHANGED <<row, snap>> /\ NewPort' = NewPort
        /\ caddy' = [db |-> NewPort, live |-> NewPort]
    BY <1>6 DEF SwitchUpstream, Clean, NewPort
  <2> QED
    BY <1>0, <1>1, <2>1 DEF Places, Undisturbed, Traffic, MainPlace, StagingPlace, OldSteps, NewSteps,
                            Staged, StageSteps
<1>7. CASE Finish
  <2>1. /\ step = "finish" /\ step' = "idle" /\ UNCHANGED <<caddy, snap>> /\ NewPort' = NewPort
        /\ row' = IF row.exists THEN [row EXCEPT !.status = "running", !.port = NewPort] ELSE row
    BY <1>7 DEF Finish, NewPort, Write
  <2>2. row.exists
    BY <2>1 DEF Places, Undisturbed
  <2>3. row'.exists /\ row'.port = NewPort /\ row'.host = row.host
    BY <1>0, <2>1, <2>2 DEF RowState
  <2> QED
    BY <1>0, <1>1, <2>1, <2>3 DEF Places, Undisturbed, Traffic, MainPlace, StagingPlace, OldSteps, NewSteps,
                            Staged, StageSteps
<1> QED
  BY <1>2, <1>3, <1>4, <1>5, <1>6, <1>7

\* The steps of a deployment that start, stop or rename a process.
LEMMA ProcessStep ==
  ASSUME TypeOK, Places, Exclusive, Clean',
         StartMain \/ StartStaging \/ CheckStaging \/ HealthCheck \/ RetireMain \/ Rename
  PROVE  Places'
<1>0. /\ main \in SlotState /\ staging \in SlotState /\ row \in RowState
      /\ NewPort \in Ports /\ NewPort # snap.port /\ snap.port \in Ports /\ NoPort \notin Ports
      /\ mode \in {"bare", "docker"}
  BY SlotsTyped, OtherPort, ModesAssumption DEF TypeOK, Ports, NoPort
<1>1. UNCHANGED <<mode, caddy, snap, rollback>> /\ NewPort' = NewPort
  BY DEF StartMain, StartStaging, CheckStaging, HealthCheck, RetireMain, Rename, NewPort
<1>2. row'.exists = row.exists /\ row'.port = row.port /\ row'.host = row.host
  BY StatusType DEF StartMain, StartStaging, CheckStaging, HealthCheck, RetireMain, Rename, Fail
<1>3. CASE StartMain
  <2>1. step = "install" /\ step' \in {"started", "idle"}
    BY <1>3 DEF StartMain, Fail
  <2>2. PICK m \in Launched("main", snap.port) \cup {Absent, NotStarted(snap.port)} \cup {main} :
          slot' = [slot EXCEPT !["main"] = m]
    BY <1>3 DEF StartMain, main
  <2>3. main' = m /\ staging' = staging
    BY <2>2, Parts
  <2>4. m.def \in {NoPort, row.port} /\ m.run \in {NoPort, m.def}
    BY <1>0, <2>1, <2>2, LaunchedAlone, NoProcess DEF Places, Undisturbed, MainPlace
  <2> QED
    BY <1>0, <1>1, <1>2, <2>1, <2>3, <2>4 DEF Places, Undisturbed, Traffic, MainPlace, StagingPlace,
                                              OldSteps, NewSteps, Staged, StageSteps
<1>4. CASE StartStaging
  <2>1. step = "stage" /\ main.run = row.port /\ row.port = snap.port /\ row.exists
    BY <1>4 DEF StartStaging, Places, Undisturbed, MainPlace, OldSteps
  <2>2. staging.run = NoPort
    BY <1>0, <2>1 DEF Places, StagingPlace, Staged, Exclusive
  <2>3. CASE step' = "check"
    <3>1. PICK m \in Launched("staging", NewPort) : slot' = [slot EXCEPT !["staging"] = m]
      BY <1>4, <2>2, <2>3 DEF StartStaging, IsRunning, staging, Fail
    <3>2. staging' = m /\ main' = main /\ m.def = NewPort /\ m.run \in {NoPort, NewPort}
      BY <1>0, <3>1, Parts, LaunchedAlone
    <3> QED
      BY <1>0, <1>1, <1>2, <2>1, <2>3, <3>2 DEF Places, Undisturbed, Traffic, MainPlace, StagingPlace,
                                                OldSteps, NewSteps, Staged, StageSteps
  <2>4. CASE step' = "idle"
    <3>1. PICK m \in IF mode = "docker" THEN {Absent, NotStarted(NewPort)} ELSE {Absent, staging} :
            slot' = [slot EXCEPT !["staging"] = m]
      BY <1>4, <2>4 DEF StartStaging, staging
    <3>2. staging' = m /\ main' = main
      BY <3>1, Parts
    <3>3. /\ m.run = NoPort
          /\ mode = "docker" => ~m.want
          /\ mode = "bare" => m.def = NoPort
      <4>1. mode = "bare" => staging.def = NoPort
        BY <2>1 DEF Places, StagingPlace, Staged
      <4> QED
        BY <1>0, <2>2, <3>1, <4>1, NoProcess
    <3> QED
      BY <1>0, <1>1, <1>2, <2>1, <2>4, <3>2, <3>3 DEF Places, Undisturbed, Traffic, MainPlace, StagingPlace,
                                                OldSteps, NewSteps, Staged, StageSteps
  <2> QED
    BY <1>4, <2>3, <2>4 DEF StartStaging, Fail
<1>5. CASE CheckStaging \/ HealthCheck
  <2>1. step \in {"check", "health"} /\ main.run = row.port /\ row.port = snap.port /\ row.exists
    BY <1>5 DEF CheckStaging, HealthCheck, Places, Undisturbed, MainPlace, OldSteps
  <2>2. CASE CleanupStaging /\ Fail
    <3>1. staging' = Absent /\ main' = main /\ step' = "idle"
      BY <2>2, Parts DEF CleanupStaging, Fail
    <3> QED
      BY <1>0, <1>1, <1>2, <2>1, <3>1, NoProcess DEF Places, Undisturbed, Traffic, MainPlace,
                                          StagingPlace, OldSteps, NewSteps, Staged, StageSteps
  <2>3. CASE step' \in {"health", "switch"} /\ UNCHANGED slot /\ (step' = "switch" => Bound(NewPort))
    <3>1. staging' = staging /\ main' = main
      BY <2>3 DEF staging, main
    <3>2. step' = "switch" => staging.run = NewPort
      BY <1>0, <2>1, <2>3 DEF Bound, Slots, main, staging
    <3> QED
      BY <1>0, <1>1, <1>2, <2>1, <2>3, <3>1, <3>2 DEF Places, Undisturbed, Traffic, MainPlace,
                                          StagingPlace, OldSteps, NewSteps, Staged, StageSteps
  <2> QED
    BY <1>5, <2>2, <2>3 DEF CheckStaging, HealthCheck
<1>6. CASE RetireMain
  <2>1. step = "retire" /\ step' = "rename" /\ main' = Absent /\ staging' = staging
    BY <1>6, Parts DEF RetireMain
  <2> QED
    BY <1>0, <1>1, <1>2, <2>1, NoProcess DEF Places, Undisturbed, Traffic, MainPlace,
                                          StagingPlace, OldSteps, NewSteps, Staged, StageSteps
<1>7. CASE Rename
  <2>1. step = "rename" /\ step' = "finish" /\ row.exists
    BY <1>7 DEF Rename, Places, Undisturbed
  <2>2. staging.def = NewPort /\ staging.run = NewPort /\ main.run = NoPort
    BY <2>1 DEF Places, StagingPlace, MainPlace, Staged
  <2>3. CASE mode = "docker"
    <3>1. main' = staging /\ staging' = Absent
      BY <1>7, <2>3 DEF Rename, Clean, main, staging
    <3> QED
      BY <1>0, <1>1, <1>2, <2>1, <2>2, <2>3, <3>1, NoProcess
      DEF Places, Undisturbed, Traffic, MainPlace, StagingPlace, OldSteps, NewSteps, Staged, StageSteps
  <2>4. CASE mode = "bare"
    <3>1. slot' = [slot EXCEPT !["main"].def = slot["staging"].def, !["staging"].def = NoPort]
      BY <1>7, <2>4 DEF Rename
    <3>2. main'.def = NewPort /\ main'.run = NoPort /\ staging'.def = NoPort /\ staging'.run = NewPort
      BY <2>2, <3>1, SlotsTyped DEF main, staging, Slots, SlotState
    <3> QED
      BY <1>0, <1>1, <1>2, <2>1, <2>4, <3>2
      DEF Places, Undisturbed, Traffic, MainPlace, StagingPlace, OldSteps, NewSteps, Staged, StageSteps
  <2> QED
    BY <1>0, <2>3, <2>4
<1> QED
  BY <1>3, <1>4, <1>5, <1>6, <1>7

\* The calls without a lock, which come between deployments in a clean history, and what
\* the supervisors and Caddy do by themselves.
LEMMA OutsideStep ==
  ASSUME TypeOK, Places, Exclusive, Clean, Clean',
         \/ StartProject \/ StopProject \/ RollbackRead \/ RollbackRun \/ EditPort \/ DeleteProject
         \/ OtherHostApplied \/ \E s \in Slots : Supervise(s)
  PROVE  Places'
<1>0. /\ main \in SlotState /\ staging \in SlotState /\ row \in RowState
      /\ snap.port \in Ports /\ NoPort \notin Ports /\ rollback \in Ports \cup {NoPort}
  BY SlotsTyped DEF TypeOK, Ports, NoPort
<1>1. UNCHANGED <<mode, step, snap>> /\ NewPort' = NewPort
  BY DEF StartProject, StopProject, RollbackRead, RollbackRun, EditPort, DeleteProject,
         OtherHostApplied, Supervise, NewPort
<1>2. CASE StartProject \/ StopProject \/ RollbackRun
  <2>1. /\ step = "idle" /\ UNCHANGED caddy /\ rollback' \in {rollback, NoPort}
        /\ row'.exists = row.exists /\ row'.port = row.port /\ row'.host = row.host
    BY <1>2, StatusType DEF StartProject, StopProject, RollbackRun, Disturbs, Clean
  <2>2. row.exists
    BY <1>2 DEF StartProject, StopProject, RollbackRun, Places, Undisturbed
  <2> DEFINE MainStays == /\ staging' = staging /\ main'.def \in {NoPort, row.port}
                          /\ main'.run \in {NoPort, main'.def}
  <2>3. MainStays
    <3>1. main.def \in {NoPort, row.port} /\ main.run \in {NoPort, main.def}
      BY <2>1 DEF Places, MainPlace
    <3>2. CASE StopProject
      BY <3>1, <3>2, SlotsTyped DEF StopProject, main, staging, Slots, SlotState
    <3>3. ASSUME NEW m \in {main} \cup Launched("main", row.port) \cup {NotStarted(row.port)},
                 slot' = [slot EXCEPT !["main"] = m]
          PROVE  MainStays
      <4>1. m.def \in {NoPort, row.port} /\ m.run \in {NoPort, m.def}
        BY <1>0, <3>1, <3>3, LaunchedAlone, NoProcess DEF RowState
      <4> QED
        BY <3>3, <4>1, Parts
    <3>4. UNCHANGED slot => MainStays
      BY <3>1 DEF main, staging
    <3>5. rollback # NoPort => rollback = row.port
      BY DEF Places, Undisturbed
    <3> QED
      BY <1>2, <3>1, <3>2, <3>3, <3>4, <3>5 DEF StartProject, RollbackRun, main
  <2> QED
    BY <1>0, <1>1, <2>1, <2>2, <2>3 DEF Places, Undisturbed, Traffic, MainPlace, StagingPlace,
                                        OldSteps, NewSteps, Staged, StageSteps
<1>3. CASE RollbackRead
  <2>1. step = "idle" /\ row.exists /\ rollback' = row.port /\ UNCHANGED <<slot, row, caddy>>
    BY <1>3 DEF RollbackRead, Disturbs, Clean
  <2>2. main' = main /\ staging' = staging
    BY <2>1 DEF main, staging
  <2> QED
    BY <1>1, <2>1, <2>2 DEF Places, Undisturbed, Traffic, MainPlace, StagingPlace
<1>4. CASE DeleteProject
  <2>1. /\ step = "idle" /\ rollback = NoPort /\ UNCHANGED rollback
        /\ caddy' = IF row.host THEN [db |-> NoPort, live |-> NoPort] ELSE caddy
        /\ row' = [row EXCEPT !.exists = FALSE]
    BY <1>4 DEF DeleteProject, Clean
  <2>2. main' = Absent /\ staging' = staging
    BY <1>4, Parts DEF DeleteProject
  <2>3. ~row'.exists /\ row'.port = row.port
    BY <1>0, <2>1 DEF RowState
  <2> QED
    BY <1>0, <1>1, <2>1, <2>2, <2>3, NoProcess
    DEF Places, Undisturbed, Traffic, MainPlace, StagingPlace, OldSteps, NewSteps, Staged, StageSteps
<1>5. CASE OtherHostApplied
  <2>1. caddy' = caddy
    BY <1>5 DEF OtherHostApplied, TypeOK, Places, Traffic
  <2>2. UNCHANGED <<slot, row, rollback>> /\ main' = main /\ staging' = staging
    BY <1>5 DEF OtherHostApplied, main, staging
  <2> QED
    BY <1>1, <2>1, <2>2 DEF Places, Undisturbed, Traffic, MainPlace, StagingPlace
<1>6. CASE \E s \in Slots : Supervise(s)
  <2>1. PICK s \in {"main", "staging"} : Supervise(s)
    BY <1>6 DEF Slots
  <2>2. UNCHANGED <<row, rollback, caddy>>
    BY <2>1 DEF Supervise
  <2>3. CASE s = "main"
    <3>1. /\ main.want /\ main.run = NoPort /\ main.def # NoPort
          /\ main'.def = main.def /\ main'.run = main.def /\ staging' = staging
      BY <2>1, <2>3, SlotsTyped DEF Supervise, IsRunning, main, staging, Slots, SlotState
    <3> QED
      BY <1>0, <1>1, <2>2, <3>1, NoProcess
      DEF Places, Undisturbed, Traffic, MainPlace, StagingPlace, OldSteps, Staged, RowState
  <2>4. CASE s = "staging"
    <3>1. /\ staging.want /\ staging.run = NoPort /\ staging.def # NoPort
          /\ staging'.def = staging.def /\ staging'.run = staging.def /\ main' = main
      BY <2>1, <2>4, SlotsTyped DEF Supervise, IsRunning, main, staging, Slots, SlotState
    <3>2. mode \in {"bare", "docker"}
      BY ModesAssumption DEF TypeOK
    <3> QED
      BY <1>0, <1>1, <2>2, <3>1, <3>2
      DEF Places, Undisturbed, Traffic, MainPlace, StagingPlace, OldSteps, Staged
  <2> QED
    BY <2>1, <2>3, <2>4
<1>7. CASE EditPort
  BY <1>7 DEF EditPort, Clean
<1> QED
  BY <1>2, <1>3, <1>4, <1>5, <1>6, <1>7

-----------------------------------------------------------------------------
(* The theorems.                                                           *)

\* The invariant holds at first: there is no process and no deployment.
LEMMA TrafficInit == Init => TypeOK /\ TInv
<1> SUFFICES ASSUME Init
             PROVE  TypeOK /\ TInv
  OBVIOUS
<1>1. main = Absent /\ staging = Absent
  BY DEF Init, main, staging, Slots
<1>2. PICK p \in Ports : /\ row = [exists |-> TRUE, status |-> "pending", port |-> p, host |-> FALSE]
                         /\ snap = [port |-> p, host |-> FALSE]
  BY DEF Init, Ports
<1>3. TypeOK
  <2>1. slot \in [Slots -> SlotState]
    BY DEF Init, Absent, SlotState
  <2>2. row \in RowState /\ snap \in [port : Ports, host : BOOLEAN]
    BY <1>2 DEF RowState
  <2>3. 0 \in 0..MaxDeploys
    BY MaxDeploysAssumption
  <2>4. caddy \in [db : Ports \cup {NoPort}, live : Ports \cup {NoPort}]
    BY DEF Init
  <2> QED
    BY <2>1, <2>2, <2>3, <2>4 DEF Init, TypeOK, SlotState, RowState, Steps
<1>4. Exclusive
  BY <1>1, NoProcess DEF Exclusive
<1>5. Undisturbed /\ Traffic
  BY <1>2 DEF Init, Undisturbed, Traffic, StageSteps
<1>6. MainPlace /\ StagingPlace
  BY <1>1, <1>2, NoProcess DEF Init, MainPlace, StagingPlace, OldSteps, Staged
<1> QED
  BY <1>3, <1>4, <1>5, <1>6 DEF TInv

\* Every step keeps it.
LEMMA TrafficStep == TypeOK /\ TInv /\ [Next]_vars => TInv'
<1> SUFFICES ASSUME TypeOK, TInv, [Next]_vars
             PROVE  TInv'
  OBVIOUS
<1>1. Exclusive /\ Exclusive'
  BY ExclusiveStep DEF TInv
<1>2. ASSUME Clean'
      PROVE  Places'
  <2>1. Clean /\ Places
    BY <1>2, CleanBefore DEF TInv, Places
  <2>2. CASE UNCHANGED vars
    BY <2>1, <2>2 DEF vars, Places, Undisturbed, Traffic, MainPlace, StagingPlace, main, staging, NewPort
  <2>3. CASE DeployStep
    BY <1>1, <1>2, <2>1, <2>3, BookkeepingStep, ProcessStep DEF DeployStep
  <2> QED
    BY <1>1, <1>2, <2>1, <2>2, <2>3, OutsideStep DEF Next
<1> QED
  BY <1>1, <1>2 DEF TInv, Places

\* Slots, rows, ports and the deployment's steps keep their types.
THEOREM TrafficTypes == Spec => []TypeOK
BY TrafficInit, TypeStep, PTL DEF Spec

\* The types and the invariant hold in every state.
LEMMA TrafficInductive == Spec => [](TypeOK /\ TInv)
BY TrafficInit, TypeStep, TrafficStep, PTL DEF Spec

\* Between deployments a running project has its process, its row and its traffic on one
\* port, whatever deployments succeeded or failed, in a clean history.
THEOREM PortsAlwaysAgree == Spec => []PortsAgree
<1>1. TypeOK /\ TInv => PortsAgree
  BY DEF TInv, PortsAgree, Traffic, MainPlace, IsRunning, main, NewSteps
<1> QED
  BY <1>1, TrafficInductive, PTL

\* A failed deployment leaves no staging container behind.
THEOREM StagingIsRemoved == Spec => []NoStagingLeft
<1>1. TypeOK /\ TInv => NoStagingLeft
  BY DEF TInv, NoStagingLeft, StagingPlace, IsRunning, staging, Staged
<1> QED
  BY <1>1, TrafficInductive, PTL

\* A deleted project has no container left.
THEOREM DeletionIsComplete == Spec => []DeleteCleansUp
<1>1. TypeOK /\ TInv => DeleteCleansUp
  BY NoProcess DEF TInv, DeleteCleansUp, MainPlace, StagingPlace, IsRunning, main, staging, Staged, Slots
<1> QED
  BY <1>1, TrafficInductive, PTL

\* At each step of a zero-downtime deploy some process is on the port of the traffic.
LEMMA AlwaysServed ==
  TypeOK /\ TInv /\ Clean /\ (step \in {"stage"} \cup StageSteps) => Served
<1> SUFFICES ASSUME TypeOK, TInv, Clean, step \in {"stage"} \cup StageSteps
             PROVE  caddy.live \in {main.run, staging.run}
  BY DEF Served, Bound, main, staging, Slots
<1>1. row.exists /\ row.host /\ caddy.live = IF step \in NewSteps THEN NewPort ELSE row.port
  BY DEF TInv, Undisturbed, Traffic, StageSteps
<1>2. CASE step \in NewSteps
  BY <1>1, <1>2 DEF TInv, StagingPlace, NewSteps
<1>3. CASE step \notin NewSteps
  BY <1>1, <1>3 DEF TInv, MainPlace, OldSteps, NewSteps, StageSteps
<1> QED
  BY <1>2, <1>3

\* No step of a zero-downtime deploy takes the traffic's port away from under it: its
\* beginning and its middle are served by AlwaysServed, and the steps that end it change
\* neither the main process nor Caddy.
THEOREM TrafficIsAlwaysServed == Spec => ZeroDowntime
<1> DEFINE Stays == (step \in StageSteps \cup {"stage"} /\ Clean' /\ Served) => Served'
<1>1. TypeOK /\ TInv /\ TInv' /\ TypeOK' /\ [Next]_vars => [Stays]_vars
  <2> SUFFICES ASSUME TypeOK, TInv, TypeOK', TInv', [Next]_vars, Clean', Clean,
                      step \in StageSteps \cup {"stage"}, Served
               PROVE  Served'
    BY CleanBefore
  <2>1. CASE step' \in StageSteps \cup {"stage"}
    <3>1. (TypeOK /\ TInv /\ Clean /\ (step \in {"stage"} \cup StageSteps) => Served)'
      BY AlwaysServed, PTL
    <3> QED
      BY <2>1, <3>1
  <2>2. CASE step' \notin StageSteps \cup {"stage"}
    <3>1. Finish \/ StartStaging \/ CheckStaging \/ HealthCheck
      BY <2>2 DEF Next, vars, DeployStep, Begin, Decide, StartMain, CheckMain, SetupProxy,
                  SwitchUpstream, RetireMain, Rename, StartProject, StopProject, RollbackRead, RollbackRun,
                  EditPort, DeleteProject, Supervise, OtherHostApplied, StageSteps
    <3>2. UNCHANGED <<caddy, slot>> \/ (UNCHANGED caddy /\ main' = main /\ main.run = caddy.live)
      <4>1. CASE Finish
        BY <4>1 DEF Finish
      <4>2. CASE StartStaging \/ CheckStaging \/ HealthCheck
        <5>1. main.run = caddy.live
          BY <4>2 DEF StartStaging, CheckStaging, HealthCheck, TInv, Undisturbed, Traffic, MainPlace,
                      OldSteps, NewSteps, StageSteps
        <5>2. UNCHANGED caddy /\ main' = main
          <6>1. \A m : slot' = [slot EXCEPT !["staging"] = m] => main' = m \/ main' = main
            BY Parts
          <6> QED
            BY <4>2, Parts, SlotsTyped DEF StartStaging, CheckStaging, HealthCheck, CleanupStaging,
                                      main, Slots
        <5> QED
          BY <5>1, <5>2
      <4> QED
        BY <3>1, <4>1, <4>2
    <3> QED
      BY <3>2 DEF Served, Bound, main, Slots
  <2> QED
    BY <2>1, <2>2
<1> QED
  BY <1>1, TrafficInductive, PTL DEF Spec, ZeroDowntime
=============================================================================
