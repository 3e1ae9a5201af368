------------------------------ MODULE DeployExtras ------------------------------
(***************************************************************************)
(* The extra processes of a deploy project (workers beside its main        *)
(* process), for one of them: its row, and the systemd units or containers *)
(* of its instances, which are named after the row's Name and numbered up  *)
(* to its Instances. Service: src/plugins/deploy/service.go; units and     *)
(* containers: process.go and docker_runner.go.                            *)
(***************************************************************************)
EXTENDS Naturals, FiniteSets

CONSTANTS ExtraNames,    \* names the process can be given
          MaxInstances   \* bound on Instances

ASSUME ExtraAssumption == MaxInstances \in Nat \ {0}

VARIABLES extra,     \* the row: exists, name, instances, enabled
          units,     \* instances whose unit or container exists
          up,        \* instances that run
          starting,  \* what StartExtraProcesses of a build has read: a row, or NoRow
          altered,   \* an update renamed the process or took instances from it
          overlap    \* a request came while StartExtraProcesses was at work

extraVars == <<extra, units, up, starting, altered, overlap>>

NoRow == [name |-> "none", n |-> 0]
Instance == ExtraNames \X (1..MaxInstances)

ExtraTypeOK ==
  /\ extra \in [exists : BOOLEAN, name : ExtraNames, n : 1..MaxInstances, enabled : BOOLEAN]
  /\ units \subseteq Instance /\ up \subseteq units
  /\ starting \in [name : ExtraNames, n : 1..MaxInstances] \cup {NoRow}
  /\ altered \in BOOLEAN /\ overlap \in BOOLEAN

ExtraInit ==
  /\ extra \in [exists : {FALSE}, name : ExtraNames, n : 1..MaxInstances, enabled : {TRUE}]
  /\ units = {} /\ up = {} /\ starting = NoRow
  /\ altered = FALSE /\ overlap = FALSE

\* ExtraProcessServiceName and ExtraProcessContainerName, for the instances of a row.
InstancesOf(p) == {<<p.name, i>> : i \in 1..p.n}

Overlaps == overlap' = (overlap \/ starting # NoRow)

\* The row only: the next build starts it. Enabled = FALSE is taken for a missing value
\* and becomes the column's default, TRUE.
CreateExtraProcess ==
  /\ ~extra.exists
  /\ \E name \in ExtraNames, n \in 1..MaxInstances :
       extra' = [exists |-> TRUE, name |-> name, n |-> n, enabled |-> TRUE]
  /\ altered' = (units # {})
  /\ Overlaps
  /\ UNCHANGED <<units, up, starting>>

\* The columns only: running instances are left alone, under their old names.
UpdateExtraProcess ==
  /\ extra.exists
  /\ \E name \in ExtraNames, n \in 1..MaxInstances, on \in BOOLEAN :
       /\ extra' = [extra EXCEPT !.name = name, !.n = n, !.enabled = on]
       /\ altered' = (altered \/ ~(units \subseteq InstancesOf(extra')))
  /\ Overlaps
  /\ UNCHANGED <<units, up, starting>>

DeleteRowOnly ==
  /\ extra.exists
  /\ extra' = [extra EXCEPT !.exists = FALSE]
  /\ Overlaps
  /\ UNCHANGED <<units, up, starting, altered>>

\* DeleteExtraProcess and DeleteProject: the instances the row names are stopped and
\* removed, then the row.
DeleteExtraProcess ==
  /\ extra.exists
  /\ units' = units \ InstancesOf(extra) /\ up' = up \ InstancesOf(extra)
  /\ extra' = [extra EXCEPT !.exists = FALSE]
  /\ Overlaps
  /\ UNCHANGED <<starting, altered>>

\* RestartExtraProcess: one by one, until an instance that does not exist.
RestartExtraProcess ==
  /\ extra.exists
  /\ up' = up \cup {x \in InstancesOf(extra) : \A i \in 1..x[2] : <<extra.name, i>> \in units}
  /\ Overlaps
  /\ UNCHANGED <<extra, units, starting, altered>>

\* A build has succeeded: StartExtraProcesses reads the enabled rows,
StartExtraProcesses ==
  /\ extra.exists /\ extra.enabled /\ starting = NoRow
  /\ starting' = [name |-> extra.name, n |-> extra.n]
  /\ UNCHANGED <<extra, units, up, altered, overlap>>

\* docker: RunExtraProcess replaces the containers one by one and gives up at the first
\* that fails, which may have been created without starting.
RunExtraProcess ==
  /\ starting # NoRow
  /\ \E last \in 0..starting.n, made \in BOOLEAN :
       LET ran  == {x \in InstancesOf(starting) : x[2] <= last}
           next == {x \in InstancesOf(starting) : x[2] = last + 1} IN
         /\ units' = (units \ next) \cup ran \cup (IF made THEN next ELSE {})
         /\ up' = (up \ next) \cup ran
  /\ starting' = NoRow
  /\ UNCHANGED <<extra, altered, overlap>>

\* bare: InstallExtraProcess writes every unit or fails before, StartExtraProcess starts
\* them one by one until one fails.
InstallExtraProcess ==
  /\ starting # NoRow
  /\ \/ /\ units' = units \cup InstancesOf(starting)
        /\ \E last \in 0..starting.n : up' = up \cup {x \in InstancesOf(starting) : x[2] <= last}
     \/ UNCHANGED <<units, up>>
  /\ starting' = NoRow
  /\ UNCHANGED <<extra, altered, overlap>>

ExtraNext ==
  \/ CreateExtraProcess \/ UpdateExtraProcess \/ DeleteExtraProcess \/ RestartExtraProcess
  \/ StartExtraProcesses \/ RunExtraProcess \/ InstallExtraProcess

ExtraSpec == ExtraInit /\ [][ExtraNext]_extraVars

-----------------------------------------------------------------------------

\* "DeleteExtraProcess stops and deletes an extra process": an instance that exists
\* belongs to the row, and none is left without it, unless the process was renamed or
\* shrunk while instances existed, or a request came while a build was starting them.
ExtrasBelong ==
  ~altered /\ ~overlap => units \subseteq (IF extra.exists THEN InstancesOf(extra) ELSE {})
=============================================================================
