------------------------------- MODULE Firewall -------------------------------
(***************************************************************************)
(* plugins/firewall and the firewall operations of                         *)
(* internal/plugin/coreapi.go: a rule is changed in the permanent          *)
(* configuration, then firewalld reloads it.                               *)
(*                                                                         *)
(* The port to protect is the setting "port", or 39921; nothing sets it,   *)
(* so that of a panel that listens elsewhere is not known (fwKnown).  A    *)
(* range of ports that holds the panel's is treated as that port itself.   *)
(***************************************************************************)
EXTENDS Naturals, FiniteSets

CONSTANTS FwZones, FwReqs

NoZone == "none"
ASSUME ZoneAssumption == NoZone \notin FwZones

VARIABLES
  fwKnown,     \* the panel listens on the port that the plugin takes it to
  fwDaemon,    \* "absent", "stopped", "running"
  fwDefault,   \* the default zone
  fwPerm,      \* zone -> rules of the permanent configuration
  fwLive,      \* zone -> rules in force while it runs
  fwReq,       \* the requests: [step, op, zone, rule, todo, ok]
  fwBehind,    \* since the last reload that worked, one has failed or was not reached, or someone changed what is in force
  fwGuarded    \* zones in which a start of firewalld by the panel has opened everything it should

fwVars == <<fwKnown, fwDaemon, fwDefault, fwPerm, fwLive, fwReq, fwBehind, fwGuarded>>

Essential == {"panel", "ssh"}
FwRules == Essential \cup {"web"}    \* "web": http and https, or any other port, service or rich rule
FwDone == [step |-> "done", op |-> "add", zone |-> NoZone, rule |-> "web", todo |-> {}, ok |-> TRUE]

FwInit ==
  /\ fwKnown \in BOOLEAN
  /\ fwDaemon \in {"absent", "stopped", "running"}
  /\ fwDefault \in FwZones
  /\ fwPerm = [z \in FwZones |-> {"ssh"}] /\ fwLive = fwPerm
  /\ fwReq = [r \in FwReqs |-> FwDone]
  /\ fwBehind = FALSE /\ fwGuarded = {}

FwAt(r, step) == fwReq[r].step = step
FwEnd(r) == fwReq' = [fwReq EXCEPT ![r] = FwDone]

\* checkPanelPort, checkProtectedService. Rich rules are not looked at.
Protected(rule) == rule = "ssh" \/ (rule = "panel" /\ fwKnown)

\* A request names a zone, or none: the default one, or "public" when firewalld does not say.
AddRule(r, zone, rule) ==
  /\ FwAt(r, "done")
  /\ fwReq' = [fwReq EXCEPT ![r] = [FwDone EXCEPT !.step = "command", !.zone = zone, !.rule = rule]]
  /\ UNCHANGED <<fwKnown, fwDaemon, fwDefault, fwPerm, fwLive, fwBehind, fwGuarded>>

RemoveAnyRule(r, zone, rule) ==
  /\ FwAt(r, "done")
  /\ fwReq' = [fwReq EXCEPT ![r] = [FwDone EXCEPT !.step = "command", !.op = "remove", !.zone = zone, !.rule = rule]]
  /\ UNCHANGED <<fwKnown, fwDaemon, fwDefault, fwPerm, fwLive, fwBehind, fwGuarded>>

RemoveRule(r, zone, rule) == ~Protected(rule) /\ RemoveAnyRule(r, zone, rule)

Changed(perm, req) ==
  [perm EXCEPT ![req.zone] = IF req.op = "add" THEN @ \cup {req.rule} ELSE @ \ {req.rule}]

\* firewall-cmd --permanent; it may fail, and does when firewalld does not run.
RunCommand(r) ==
  /\ FwAt(r, "command")
  /\ \/ /\ fwDaemon = "running"
        /\ fwPerm' = Changed(fwPerm, fwReq[r])
        /\ fwReq' = [fwReq EXCEPT ![r].step = "reload"]
     \/ FwEnd(r) /\ UNCHANGED fwPerm
  /\ UNCHANGED <<fwKnown, fwDaemon, fwDefault, fwLive, fwBehind, fwGuarded>>

ReloadForgotten(r) ==
  /\ FwAt(r, "reload") /\ FwEnd(r)
  /\ UNCHANGED <<fwKnown, fwDaemon, fwDefault, fwPerm, fwLive, fwBehind, fwGuarded>>

\* The reload puts the permanent configuration in force; what was only in force is lost. When it
\* fails, the plugin's request answers so, the core API's answers success.
Reload(r) ==
  /\ FwEnd(r)
  /\ \/ fwDaemon = "running" /\ fwLive' = fwPerm /\ fwBehind' = FALSE
     \/ fwBehind' = TRUE /\ UNCHANGED fwLive

RunReload(r) ==
  /\ FwAt(r, "reload") /\ Reload(r)
  /\ UNCHANGED <<fwKnown, fwDaemon, fwDefault, fwPerm, fwGuarded>>

\* The reload that a user asks for.
ReloadFirewall(r) ==
  /\ FwAt(r, "done") /\ Reload(r)
  /\ UNCHANGED <<fwKnown, fwDaemon, fwDefault, fwPerm, fwGuarded>>

\* systemctl start, and the last step of the installation, which is refused where firewalld is there.
Starting(r, from) ==
  /\ FwAt(r, "done") /\ fwDaemon \in from
  /\ \/ /\ fwDaemon' = "running"
        /\ fwLive' = IF fwDaemon = "running" THEN fwLive ELSE fwPerm
        /\ fwReq' = [fwReq EXCEPT ![r] = [FwDone EXCEPT !.step = "open", !.todo = FwRules, !.ok = fwKnown]]
     \/ UNCHANGED <<fwDaemon, fwLive, fwReq>>
  /\ UNCHANGED <<fwKnown, fwDefault, fwPerm, fwBehind, fwGuarded>>

StartFirewalld(r) == Starting(r, {"stopped", "running"})
InstallFirewalld(r) == Starting(r, {"absent"})

NextToOpen(todo) == CHOOSE rule \in todo : ("panel" \in todo => rule = "panel") /\ ("ssh" \in todo => rule # "web")

\* One after the other the port it takes for the panel's, ssh and the web are opened in the zone that
\* is the default then. A failure is passed over.
OpenEssential(r) ==
  /\ FwAt(r, "open") /\ fwReq[r].todo # {}
  /\ LET rule == NextToOpen(fwReq[r].todo) IN
       \/ /\ fwDaemon = "running"
          /\ fwPerm' = [fwPerm EXCEPT ![fwDefault] = IF rule = "panel" /\ ~fwKnown THEN @ ELSE @ \cup {rule}]
          /\ fwReq' = [fwReq EXCEPT ![r].todo = @ \ {rule}, ![r].zone = fwDefault, ![r].ok = @ /\ fwReq[r].zone \in {NoZone, fwDefault}]
       \/ /\ fwReq' = [fwReq EXCEPT ![r].todo = @ \ {rule}, ![r].ok = @ /\ rule \notin Essential]
          /\ UNCHANGED fwPerm
  /\ UNCHANGED <<fwKnown, fwDaemon, fwDefault, fwLive, fwBehind, fwGuarded>>

OpenReload(r) ==
  /\ FwAt(r, "open") /\ fwReq[r].todo = {} /\ Reload(r)
  /\ fwGuarded' = IF fwReq[r].ok /\ fwReq[r].zone \in FwZones THEN fwGuarded \cup {fwReq[r].zone} ELSE fwGuarded
  /\ UNCHANGED <<fwKnown, fwDaemon, fwDefault, fwPerm>>

\* What others do to firewalld: it stops, it starts, its default zone changes, or a rule is taken
\* in force only.
Outside ==
  /\ \/ /\ fwDaemon = "running" /\ fwDaemon' = "stopped"
        /\ UNCHANGED <<fwDefault, fwLive, fwBehind>>
     \/ /\ fwDaemon = "stopped" /\ fwDaemon' = "running" /\ fwLive' = fwPerm /\ fwBehind' = FALSE
        /\ UNCHANGED fwDefault
     \/ /\ fwDaemon = "running" /\ \E z \in FwZones : fwLive' = [fwLive EXCEPT ![z] = @ \cup {"web"}]
        /\ fwBehind' = TRUE
        /\ UNCHANGED <<fwDaemon, fwDefault>>
     \/ fwDefault' \in FwZones \ {fwDefault} /\ UNCHANGED <<fwDaemon, fwLive, fwBehind>>
  /\ UNCHANGED <<fwKnown, fwPerm, fwReq, fwGuarded>>

FwPanelDies ==
  /\ \E r \in FwReqs : ~FwAt(r, "done")
  /\ fwReq' = [r \in FwReqs |-> FwDone] /\ fwBehind' = TRUE
  /\ UNCHANGED <<fwKnown, fwDaemon, fwDefault, fwPerm, fwLive, fwGuarded>>

FwNext ==
  \/ \E r \in FwReqs :
       \/ \E z \in FwZones, rule \in FwRules : AddRule(r, z, rule) \/ RemoveRule(r, z, rule)
       \/ RunCommand(r) \/ RunReload(r) \/ ReloadFirewall(r)
       \/ StartFirewalld(r) \/ InstallFirewalld(r) \/ OpenEssential(r) \/ OpenReload(r)
  \/ Outside \/ FwPanelDies

FwSpec == FwInit /\ [][FwNext]_fwVars

-----------------------------------------------------------------------------
FwTypeOK ==
  /\ fwKnown \in BOOLEAN /\ fwDaemon \in {"absent", "stopped", "running"} /\ fwDefault \in FwZones
  /\ \A z \in FwZones : fwPerm[z] \subseteq FwRules /\ fwLive[z] \subseteq FwRules
  /\ \A r \in FwReqs : fwReq[r].step \in {"done", "command", "reload", "open"} /\ fwReq[r].todo \subseteq FwRules
  /\ fwBehind \in BOOLEAN /\ fwGuarded \subseteq FwZones

\* What is in force is what will be after the next start, unless a request is between its command
\* and its reload, a reload has failed, or others changed what is in force (every change of the
\* plugin and of the core API ends with a reload).
InForce ==
  (fwDaemon = "running" /\ ~fwBehind /\ \A r \in FwReqs : fwReq[r].step \notin {"reload", "open"}) => fwLive = fwPerm

\* Where the panel has opened its port and ssh, no sequence of its own requests closes them, now or
\* after the next reload (service.go, "this would lock you out").
StaysOpen ==
  \A z \in fwGuarded : Essential \subseteq fwPerm[z] /\ (fwDaemon = "running" /\ ~fwBehind => Essential \subseteq fwLive[z])

FirewallSound == InForce /\ StaysOpen
=============================================================================
