------------------------------ MODULE CaddyUpgrade ------------------------------
(***************************************************************************)
(* The Caddy binary and its process under Manager.Upgrade, Start and Stop  *)
(* (src/internal/caddy/manager.go). All three hold the manager's mutex, an *)
(* upgrade over its downloads too. The panel may die between two steps of  *)
(* an upgrade. HostConfig models what the process serves.                  *)
(***************************************************************************)
EXTENDS Naturals

CONSTANT MaxUpgrades   \* bound on upgrades

ASSUME UpgradeAssumption == MaxUpgrades \in Nat

VARIABLES bin,       \* the file CaddyBin: "old", "new" or "none"
          saved,     \* the file CaddyBin.bak
          proc,      \* the process: its version, or "none", and the data directory it uses:
                     \* the panel's, or that of the user's home
          upgrade,   \* step of the upgrade that holds the mutex, or "idle"
          was,       \* IsRunning before the upgrade stopped Caddy
          last,      \* the last upgrade: "none", "ok", "failed"; "none" again after any
                     \* other event
          before,    \* the binary when the upgrade began
          upgrades,  \* upgrades begun
          torn       \* the panel died during an upgrade

upgVars == <<bin, saved, proc, upgrade, was, last, before, upgrades, torn>>

Down == [ver |-> "none", home |-> "panel"]
Versions == {"old", "new"}
UpgSteps == {"idle", "download", "stop", "backup", "install", "restart", "cleanup"}

UpgTypeOK ==
  /\ bin \in Versions \cup {"none"} /\ saved \in Versions \cup {"none"}
  /\ proc \in [ver : Versions \cup {"none"}, home : {"panel", "user"}]
  /\ upgrade \in UpgSteps /\ was \in BOOLEAN
  /\ last \in {"none", "ok", "failed"} /\ before \in Versions \cup {"none"}
  /\ upgrades \in 0..MaxUpgrades /\ torn \in BOOLEAN

UpgInit ==
  /\ bin = "old" /\ saved = "none" /\ proc = Down
  /\ upgrade = "idle" /\ was = FALSE /\ last = "none" /\ before = "none"
  /\ upgrades = 0 /\ torn = FALSE

FailUpgrade == upgrade' = "idle" /\ last' = "failed"

\* The version asked for is fetched, unless it is the one installed.
BeginUpgrade ==
  /\ upgrade = "idle" /\ bin # "new" /\ upgrades < MaxUpgrades
  /\ upgrade' = "download" /\ upgrades' = upgrades + 1
  /\ before' = bin /\ last' = "none"
  /\ UNCHANGED <<bin, saved, proc, was, torn>>

\* The archive, its checksum and its extraction: any of them may fail, before Caddy is
\* touched.
Download ==
  /\ upgrade = "download"
  /\ \/ FailUpgrade
     \/ upgrade' = "stop" /\ UNCHANGED last
  /\ UNCHANGED <<bin, saved, proc, was, before, upgrades, torn>>

\* "caddy stop", whose failure is ignored.
StopForUpgrade ==
  /\ upgrade = "stop" /\ upgrade' = "backup"
  /\ was' = (proc.ver # "none")
  /\ proc' \in {Down, proc}
  /\ UNCHANGED <<bin, saved, last, before, upgrades, torn>>

BackupBinary ==
  /\ upgrade = "backup" /\ upgrade' = "install"
  /\ IF bin = "none" THEN UNCHANGED <<bin, saved>> ELSE saved' = bin /\ bin' = "none"
  /\ UNCHANGED <<proc, was, last, before, upgrades, torn>>

\* os.Rename(backupPath, caddyBin).
PutBack == bin' = (IF saved = "none" THEN bin ELSE saved) /\ saved' = "none"

InstallNoPutBack ==
  /\ upgrade = "install"
  /\ \/ bin' = "new" /\ upgrade' = "restart" /\ UNCHANGED <<saved, last>>
     \/ FailUpgrade /\ UNCHANGED <<bin, saved>>
  /\ UNCHANGED <<proc, was, before, upgrades, torn>>

\* The new file is written, or the old one put back: Caddy is not started again then.
InstallBinary ==
  /\ upgrade = "install"
  /\ \/ bin' = "new" /\ upgrade' = "restart" /\ UNCHANGED <<saved, last>>
     \/ PutBack /\ FailUpgrade
  /\ UNCHANGED <<proc, was, before, upgrades, torn>>

\* Caddy is started if it ran before, in the panel's data directory. It may fail to, and
\* does if the old process has not stopped: then the old binary is put back and
\* started, without the variables that name the panel's directory.
RestartCaddy ==
  /\ upgrade = "restart"
  /\ \/ /\ ~was \/ proc.ver = "none"
        /\ proc' = IF was THEN [ver |-> bin, home |-> "panel"] ELSE proc
        /\ upgrade' = "cleanup"
        /\ UNCHANGED <<bin, saved, last>>
     \/ /\ was
        /\ PutBack /\ FailUpgrade
        /\ proc' \in {Down} \cup (IF saved = "none" THEN {} ELSE {[ver |-> saved, home |-> "user"]})
  /\ UNCHANGED <<was, before, upgrades, torn>>

FinishUpgrade ==
  /\ upgrade = "cleanup"
  /\ saved' = "none"
  /\ upgrade' = "idle" /\ last' = "ok"
  /\ UNCHANGED <<bin, proc, was, before, upgrades, torn>>

\* Start and Stop, by a user or at the panel's start.
StartCaddyProcess ==
  /\ upgrade = "idle" /\ proc.ver = "none" /\ bin # "none"
  /\ proc' = [ver |-> bin, home |-> "panel"]
  /\ last' = "none"
  /\ UNCHANGED <<bin, saved, upgrade, was, before, upgrades, torn>>

StopCaddyWord ==
  /\ upgrade = "idle" /\ proc.ver # "none" /\ bin # "none"
  /\ proc' = [Down EXCEPT !.ver = "stopped"]
  /\ last' = "none"
  /\ UNCHANGED <<bin, saved, upgrade, was, before, upgrades, torn>>

StopCaddyProcess ==
  /\ upgrade = "idle" /\ proc.ver # "none" /\ bin # "none"
  /\ proc' = Down
  /\ last' = "none"
  /\ UNCHANGED <<bin, saved, upgrade, was, before, upgrades, torn>>

\* The panel dies and is started again; nothing takes a left-over .bak up.
PanelDies ==
  /\ upgrade' = "idle" /\ last' = "none" /\ was' = FALSE /\ before' = "none"
  /\ torn' = (torn \/ upgrade # "idle")
  /\ UNCHANGED <<bin, saved, proc, upgrades>>

UpgNext ==
  \/ BeginUpgrade \/ Download \/ StopForUpgrade \/ BackupBinary \/ InstallBinary \/ RestartCaddy
  \/ FinishUpgrade \/ StartCaddyProcess \/ StopCaddyProcess \/ PanelDies

UpgSpec == UpgInit /\ [][UpgNext]_upgVars

-----------------------------------------------------------------------------

\* An upgrade that the panel survives is all or nothing for the binary: after a failure
\* CaddyBin is the file of before, after a success the new one, and then a Caddy that
\* ran before runs the new version in the panel's own data directory.
UpgradeAtomic ==
  ~torn =>
    /\ last = "failed" => bin = before /\ saved = "none"
    /\ last = "ok" => bin = "new" /\ saved = "none" /\ (was => proc = [ver |-> "new", home |-> "panel"])
=============================================================================
