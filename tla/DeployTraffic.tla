---------------------------- MODULE DeployTraffic ----------------------------
(***************************************************************************)
(* What a deployment does to the processes of a project and to its         *)
(* traffic: runBareDeploy and runDockerDeploy of the deploy plugin         *)
(* (src/plugins/deploy/service.go), with the systemd units, the containers *)
(* and the Caddy upstream they act on, for one project.                    *)
(*                                                                         *)
(* DeployBuilds shows that pipelines of a project run one at a time, so    *)
(* there is one deployment in progress here at most. StartProject,         *)
(* StopProject, Rollback, UpdateProject and DeleteProject take no lock and *)
(* come between any two of its steps. Projects without a start command are *)
(* left out: they have no process.                                         *)
(***************************************************************************)
EXTENDS Naturals, FiniteSets

CONSTANTS Modes,      \* deploy modes to consider: a subset of {"bare", "docker"}
          MaxDeploys  \* bound on deployments

ASSUME ModesAssumption == Modes \subseteq {"bare", "docker"}
ASSUME MaxDeploysAssumption == MaxDeploys \in Nat

\* The allocator's two ports of the project, and one the user may choose.
Ports == {"primary", "alternate", "custom"}
NoPort == "none"
Slots == {"main", "staging"}

VARIABLES mode,      \* the project's DeployMode
          slot,      \* per unit or container: the port it is defined with, the port its
                     \* process listens on, and whether its supervisor restarts it
          row,       \* the project's row: exists, status, port, and whether HostID is set
          caddy,     \* the project's upstream port in the host's row, and in the live config
          step,      \* where the deployment in progress stands
          snap,      \* the port and host read when the build was accepted
          rollback,  \* the port a Rollback call in progress has read
          deploys,   \* deployments begun
          faulted,   \* some call to Caddy or a container rename has failed
          disturbed  \* some call without the lock overlapped a deployment or edited the port

vars == <<mode, slot, row, caddy, step, snap, rollback, deploys, faulted, disturbed>>

Absent == [def |-> NoPort, run |-> NoPort, want |-> FALSE]

StageSteps == {"check", "health", "switch", "retire", "rename", "finish"}
Steps == {"idle", "built", "install", "started", "proxy", "stage"} \cup StageSteps

TypeOK ==
  /\ mode \in Modes
  /\ slot \in [Slots -> [def : Ports \cup {NoPort}, run : Ports \cup {NoPort}, want : BOOLEAN]]
  /\ row \in [exists : BOOLEAN, status : {"pending", "building", "running", "stopped", "error"},
              port : Ports, host : BOOLEAN]
  /\ caddy \in [db : Ports \cup {NoPort}, live : Ports \cup {NoPort}]
  /\ step \in Steps
  /\ snap \in [port : Ports, host : BOOLEAN]
  /\ rollback \in Ports \cup {NoPort}
  /\ deploys \in 0..MaxDeploys
  /\ faulted \in BOOLEAN /\ disturbed \in BOOLEAN

\* CreateProject: the port is the user's or the allocator's.
Init ==
  /\ mode \in Modes
  /\ slot = [s \in Slots |-> Absent]
  /\ \E p \in {"primary", "custom"} :
       /\ row = [exists |-> TRUE, status |-> "pending", port |-> p, host |-> FALSE]
       /\ snap = [port |-> p, host |-> FALSE]
  /\ caddy = [db |-> NoPort, live |-> NoPort]
  /\ step = "idle"
  /\ rollback = NoPort
  /\ deploys = 0
  /\ faulted = FALSE /\ disturbed = FALSE

-----------------------------------------------------------------------------
(* systemd, docker and Caddy, as the code uses them.                       *)

Bound(p) == \E s \in Slots : slot[s].run = p
IsRunning(s) == slot[s].run # NoPort

\* What slot s becomes when it is defined with port p and started: the process stays
\* up, which takes a free port, or exits and is restarted by its supervisor.
Launched(s, p) ==
  {[def |-> p, run |-> q, want |-> TRUE] :
     q \in {NoPort} \cup (IF \E t \in Slots \ {s} : slot[t].run = p THEN {} ELSE {p})}

\* docker run with a port in use creates the container and does not start it; a unit
\* that systemctl cannot restart is written and not running.
NotStarted(p) == [def |-> p, run |-> NoPort, want |-> FALSE]

AlternatePort(p) == IF p = "alternate" THEN "primary" ELSE "alternate"
NewPort == AlternatePort(snap.port)

Write(r) == row' = IF row.exists THEN r ELSE row
SetStatus(s) == Write([row EXCEPT !.status = s])

Fail == SetStatus("error") /\ step' = "idle"

-----------------------------------------------------------------------------
(* The deployment.                                                         *)

\* Build reads the project; runBuild uses that copy to its end.
Begin ==
  /\ step = "idle" /\ row.exists /\ deploys < MaxDeploys
  /\ deploys' = deploys + 1
  /\ snap' = [port |-> row.port, host |-> row.host]
  /\ SetStatus("building")
  /\ step' = "built"
  /\ disturbed' = (disturbed \/ rollback # NoPort)
  /\ UNCHANGED <<mode, slot, caddy, rollback, faulted>>

\* The build fails, or the deploy phase chooses its path by the main process.
Decide ==
  /\ step = "built"
  /\ \/ Fail
     \/ /\ step' = IF ~IsRunning("main") \/ ~snap.host THEN "install" ELSE "stage"
        /\ UNCHANGED row
  /\ UNCHANGED <<mode, slot, caddy, snap, rollback, deploys, faulted, disturbed>>

\* First deploy. Bare: write the unit and restart it. Docker: remove the container
\* and run the new one.
StartMain ==
  /\ step = "install"
  /\ \/ /\ \E m \in Launched("main", snap.port) : slot' = [slot EXCEPT !["main"] = m]
        /\ step' = "started"
        /\ UNCHANGED row
     \/ /\ \E m \in IF mode = "docker" THEN {Absent, NotStarted(snap.port)}
                   ELSE {slot["main"], NotStarted(snap.port)} : slot' = [slot EXCEPT !["main"] = m]
        /\ Fail
  /\ UNCHANGED <<mode, caddy, snap, rollback, deploys, faulted, disturbed>>

\* A status of another spelling.
CheckMainWord ==
  /\ step = "started"
  /\ IF IsRunning("main")
       THEN SetStatus("active") /\ step' = IF snap.host THEN "idle" ELSE "proxy"
       ELSE Fail
  /\ UNCHANGED <<mode, slot, caddy, snap, rollback, deploys, faulted, disturbed>>

\* The process is looked at once; the result of the health check is not used.
CheckMain ==
  /\ step = "started"
  /\ IF IsRunning("main")
       THEN SetStatus("running") /\ step' = IF snap.host THEN "idle" ELSE "proxy"
       ELSE Fail
  /\ UNCHANGED <<mode, slot, caddy, snap, rollback, deploys, faulted, disturbed>>

\* setupReverseProxy: CreateHost refuses a domain that exists, and keeps its row when
\* the configuration cannot be applied; HostID is set only when all of it succeeds.
SetupProxy ==
  /\ step = "proxy"
  /\ \/ /\ caddy.db = NoPort
        /\ caddy' = [db |-> snap.port, live |-> snap.port]
        /\ Write([row EXCEPT !.host = TRUE])
        /\ UNCHANGED faulted
     \/ /\ caddy' = [caddy EXCEPT !.db = IF @ = NoPort THEN snap.port ELSE @]
        /\ faulted' = TRUE
        /\ UNCHANGED row
  /\ step' = "idle"
  /\ UNCHANGED <<mode, slot, snap, rollback, deploys, disturbed>>

\* Zero-downtime deploy: the new version on the other port, beside the old one.
\* Starting a systemd unit that is already active changes nothing.
StartStaging ==
  /\ step = "stage"
  /\ \/ /\ IF mode = "bare" /\ IsRunning("staging")
             THEN slot' = [slot EXCEPT !["staging"].def = NewPort]
             ELSE \E m \in Launched("staging", NewPort) : slot' = [slot EXCEPT !["staging"] = m]
        /\ step' = "check"
        /\ UNCHANGED row
     \/ /\ \E m \in IF mode = "docker" THEN {Absent, NotStarted(NewPort)}
                   ELSE {Absent, slot["staging"]} : slot' = [slot EXCEPT !["staging"] = m]
        /\ Fail
  /\ UNCHANGED <<mode, caddy, snap, rollback, deploys, faulted, disturbed>>

\* CleanupStaging, or StopAndRemove of the staging container.
CleanupStaging == slot' = [slot EXCEPT !["staging"] = Absent]

\* A staging process that exited is not cleaned up.
CheckStagingLeaves ==
  /\ step = "check"
  /\ IF IsRunning("staging") THEN step' = "health" /\ UNCHANGED row ELSE Fail
  /\ UNCHANGED <<mode, slot, caddy, snap, rollback, deploys, faulted, disturbed>>

CheckStaging ==
  /\ step = "check"
  /\ IF IsRunning("staging") THEN step' = "health" /\ UNCHANGED <<slot, row>>
                             ELSE CleanupStaging /\ Fail
  /\ UNCHANGED <<mode, caddy, snap, rollback, deploys, faulted, disturbed>>

\* A failed health check returns without the cleanup.
HealthCheckLeaves ==
  /\ step = "health"
  /\ \/ Bound(NewPort) /\ step' = "switch" /\ UNCHANGED row
     \/ Fail
  /\ UNCHANGED <<mode, slot, caddy, snap, rollback, deploys, faulted, disturbed>>

HealthCheck ==
  /\ step = "health"
  /\ \/ Bound(NewPort) /\ step' = "switch" /\ UNCHANGED <<slot, row>>
     \/ CleanupStaging /\ Fail
  /\ UNCHANGED <<mode, caddy, snap, rollback, deploys, faulted, disturbed>>

\* The traffic switched after the old process is gone.
SwitchUpstreamLate ==
  /\ step = "switch"
  /\ caddy' = [db |-> NewPort, live |-> caddy.live]
  /\ step' = "retire"
  /\ UNCHANGED <<mode, slot, row, snap, rollback, deploys, faulted, disturbed>>

\* updateUpstream: its errors are logged and the deployment goes on.
SwitchUpstream ==
  /\ step = "switch"
  /\ \/ /\ caddy' = [db |-> NewPort, live |-> NewPort]
        /\ UNCHANGED faulted
     \/ /\ \E p \in {caddy.db, NewPort} : caddy' = [caddy EXCEPT !.db = p]
        /\ faulted' = TRUE
  /\ step' = "retire"
  /\ UNCHANGED <<mode, slot, row, snap, rollback, deploys, disturbed>>

\* The old process is stopped and its unit or container removed.
RetireMain ==
  /\ step = "retire"
  /\ slot' = [slot EXCEPT !["main"] = Absent]
  /\ step' = "rename"
  /\ UNCHANGED <<mode, row, caddy, snap, rollback, deploys, faulted, disturbed>>

\* Docker renames the running container, or fails to. PromoteStaging renames the
\* unit's file: the process stays where it is, in the unit of the old name.
Rename ==
  /\ step = "rename"
  /\ \/ /\ mode = "docker"
        /\ slot' = [main |-> slot["staging"], staging |-> Absent]
        /\ UNCHANGED faulted
     \/ mode = "docker" /\ faulted' = TRUE /\ UNCHANGED slot
     \/ /\ mode = "bare"
        /\ slot' = [slot EXCEPT !["main"].def = slot["staging"].def, !["staging"].def = NoPort]
        /\ UNCHANGED faulted
  /\ step' = "finish"
  /\ UNCHANGED <<mode, row, caddy, snap, rollback, deploys, disturbed>>

\* The project's row keeps the old port.
FinishOldPort ==
  /\ step = "finish"
  /\ SetStatus("running")
  /\ step' = "idle"
  /\ UNCHANGED <<mode, slot, caddy, snap, rollback, deploys, faulted, disturbed>>

Finish ==
  /\ step = "finish"
  /\ Write([row EXCEPT !.status = "running", !.port = NewPort])
  /\ step' = "idle"
  /\ UNCHANGED <<mode, slot, caddy, snap, rollback, deploys, faulted, disturbed>>

DeployStep ==
  \/ Begin \/ Decide \/ StartMain \/ CheckMain \/ SetupProxy
  \/ StartStaging \/ CheckStaging \/ HealthCheck \/ SwitchUpstream
  \/ RetireMain \/ Rename \/ Finish

-----------------------------------------------------------------------------
(* Calls that take no lock, and the supervisors.                           *)

Disturbs == disturbed' = (disturbed \/ step # "idle")

\* systemctl start answers before the process can fail; docker start does not.
StartProject ==
  /\ row.exists /\ slot["main"].def # NoPort
  /\ \E m \in IF IsRunning("main") THEN {slot["main"]} ELSE Launched("main", slot["main"].def) :
       slot' = [slot EXCEPT !["main"] = m]
  /\ SetStatus("running")
  /\ Disturbs
  /\ UNCHANGED <<mode, caddy, step, snap, rollback, deploys, faulted>>

StopProject ==
  /\ row.exists /\ slot["main"].def # NoPort
  /\ slot' = [slot EXCEPT !["main"].run = NoPort, !["main"].want = FALSE]
  /\ SetStatus("stopped")
  /\ Disturbs
  /\ UNCHANGED <<mode, caddy, step, snap, rollback, deploys, faulted>>

RollbackRead ==
  /\ row.exists /\ rollback = NoPort /\ deploys > 0
  /\ rollback' = row.port
  /\ Disturbs
  /\ UNCHANGED <<mode, slot, row, caddy, step, snap, deploys, faulted>>

\* Docker: the older image as the main container, on the port read before.
\* Bare: the unit is restarted, with the files the last build left.
RollbackRun ==
  /\ rollback # NoPort
  /\ \/ /\ mode = "docker"
        /\ \E m \in Launched("main", rollback) : slot' = [slot EXCEPT !["main"] = m]
        /\ SetStatus("running")
     \/ /\ mode = "docker"
        /\ slot' = [slot EXCEPT !["main"] = NotStarted(rollback)]
        /\ UNCHANGED row
     \/ /\ mode = "bare" /\ slot["main"].def # NoPort
        /\ \E m \in Launched("main", slot["main"].def) : slot' = [slot EXCEPT !["main"] = m]
        /\ UNCHANGED row
     \/ mode = "bare" /\ slot["main"].def = NoPort /\ UNCHANGED <<slot, row>>
  /\ rollback' = NoPort
  /\ Disturbs
  /\ UNCHANGED <<mode, caddy, step, snap, deploys, faulted>>

\* UpdateProject accepts any port; nothing but the next deployment looks at it.
EditPort ==
  /\ row.exists
  /\ \E p \in Ports \ {row.port} : row' = [row EXCEPT !.port = p]
  /\ disturbed' = TRUE
  /\ UNCHANGED <<mode, slot, caddy, step, snap, rollback, deploys, faulted>>

\* DeleteProject uninstalls the main unit or container and deletes the host and the
\* row; the configuration without the host may fail to load, which is not looked at.
DeleteProject ==
  /\ row.exists
  /\ slot' = [slot EXCEPT !["main"] = Absent]
  /\ \/ /\ caddy' = IF row.host THEN [db |-> NoPort, live |-> NoPort] ELSE caddy
        /\ UNCHANGED faulted
     \/ /\ row.host
        /\ caddy' = [caddy EXCEPT !.db = NoPort]
        /\ faulted' = TRUE
  /\ row' = [row EXCEPT !.exists = FALSE]
  /\ disturbed' = (disturbed \/ step # "idle" \/ rollback # NoPort)
  /\ UNCHANGED <<mode, step, snap, rollback, deploys>>

\* The supervisor starts a process that exited, once its port is free.
Supervise(s) ==
  /\ slot[s].want /\ ~IsRunning(s) /\ slot[s].def # NoPort /\ ~Bound(slot[s].def)
  /\ slot' = [slot EXCEPT ![s].run = slot[s].def]
  /\ UNCHANGED <<mode, row, caddy, step, snap, rollback, deploys, faulted, disturbed>>

\* Another host's change renders the whole Caddyfile again.
OtherHostApplied ==
  /\ caddy' = [caddy EXCEPT !.live = caddy.db]
  /\ UNCHANGED <<mode, slot, row, step, snap, rollback, deploys, faulted, disturbed>>

Next ==
  \/ DeployStep
  \/ StartProject \/ StopProject \/ RollbackRead \/ RollbackRun \/ EditPort \/ DeleteProject
  \/ \E s \in Slots : Supervise(s)
  \/ OtherHostApplied

Spec == Init /\ [][Next]_vars

-----------------------------------------------------------------------------
(* Properties.                                                             *)

Clean == ~faulted /\ ~disturbed

\* Some process listens on the port that the domain's traffic is sent to.
Served == Bound(caddy.live)

\* No step of a zero-downtime deploy, failing or not, leaves the port that Caddy
\* sends the domain's traffic to without a process, in either mode.
ZeroDowntime ==
  [][(step \in StageSteps \cup {"stage"} /\ Clean' /\ Served) => Served']_vars

\* Between deployments, a project listed as running (GetProject asks the main process)
\* has its process, its row and its traffic on one port.
PortsAgree ==
  step = "idle" /\ Clean /\ row.exists /\ row.host /\ row.status = "running" /\ IsRunning("main")
    => slot["main"].run = row.port /\ caddy.live = row.port

\* A deployment that fails leaves no staging process behind.
NoStagingLeft ==
  step = "idle" /\ row.status = "error" /\ Clean /\ mode = "docker" => ~IsRunning("staging")

\* DeleteProject "deletes a project and cleans up resources": in docker mode no process
\* of the project is left.
DeleteCleansUp ==
  ~row.exists /\ Clean /\ mode = "docker" /\ step = "idle" => \A s \in Slots : ~IsRunning(s)

\* After the promotion the new version runs as the main process: it is what the panel
\* lists, stops, restarts and deletes, and what the next deployment compares with.
StagingPromoted ==
  step = "finish" /\ Clean => slot["main"].run = NewPort
=============================================================================
