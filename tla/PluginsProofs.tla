---------------------------- MODULE PluginsProofs ----------------------------
(***************************************************************************)
(* What the plugin manager keeps true, for every set of plugins and every  *)
(* dependency relation: proved from one inductive invariant, because the   *)
(* three properties need what Enable and Disable know between their steps. *)
(***************************************************************************)
EXTENDS Plugins, TLAPS

\* No plugin that was enabled in the regular way, but p itself, needs p.
Unneeded(p) == \A q \in Plugins \ shown : q # p /\ Enabled(q) => p \notin Deps[q]

\* Before the panel serves requests nothing enables or disables a plugin; the rows that
\* seedDefaultStates has yet to insert are not there, and what StartAll has passed runs.
BootInv ==
  /\ phase # "serving" => pc = "idle"
  /\ phase = "seed" => \A p \in todo : row[p] = "none"
  /\ phase = "start" => \A p \in Plugins \ todo : Enabled(p) => p \in running

\* What Enable and Disable have checked still holds when they write the row, although
\* SetSidebarVisible may have written in between.
StepInv ==
  /\ pc = "persistOn" => Satisfied(row, who)
  /\ pc \in {"unguard", "start"} => Enabled(who)
  /\ pc \in {"stop", "block", "persistOff"} => Enabled(who) /\ Unneeded(who)
  /\ pc \in {"block", "persistOff"} => who \notin running
  /\ pc = "persistOff" => who \in guard

ManagerInv ==
  TypeOK /\ BootInv /\ StepInv /\ DepsEnabled /\ DisabledIsBlocked /\ RunningIsEnabled

-----------------------------------------------------------------------------
\* The start of the panel.
LEMMA InitManager == Init => ManagerInv
  BY DefaultAssumption DEF Init, ManagerInv, TypeOK, BootInv, StepInv, DepsEnabled,
     DisabledIsBlocked, RunningIsEnabled, Enabled, Phases, Pcs

\* Every step keeps the type invariant.
LEMMA TypeStep == TypeOK /\ [Next]_vars => TypeOK'
<1> SUFFICES ASSUME TypeOK, [Next]_vars PROVE TypeOK'
  OBVIOUS
<1> USE DefaultAssumption DEF TypeOK, Phases, Pcs
<1>1. CASE Migrate
  BY <1>1 DEF Migrate, Enter
<1>2. CASE NextPhase
  BY <1>2 DEF NextPhase, Enter
<1>3. CASE Restart
  BY <1>3 DEF Restart, Enter
<1>4. ASSUME NEW p \in Plugins, Seed(p) PROVE TypeOK'
  BY <1>4 DEF Seed
<1>5. ASSUME NEW p \in Plugins, InitPlugin(p) PROVE TypeOK'
  BY <1>5 DEF InitPlugin, Enter
<1>6. ASSUME NEW p \in Plugins, StartPlugin(p) PROVE TypeOK'
  BY <1>6 DEF StartPlugin, Enter
<1>7. ASSUME NEW p \in Plugins, Enable(p) PROVE TypeOK'
  BY <1>7 DEF Enable
<1>8. ASSUME NEW p \in Plugins, Disable(p) PROVE TypeOK'
  BY <1>8 DEF Disable
<1>9. ASSUME NEW p \in Plugins, SetSidebarVisible(p) PROVE TypeOK'
  BY <1>9 DEF SetSidebarVisible
<1>10. CASE PersistOn \/ Unguard \/ Start \/ Return
  BY <1>10 DEF PersistOn, Unguard, Start, Return, Goto
<1>11. CASE Stop \/ Block \/ PersistOff
  BY <1>11 DEF Stop, Block, PersistOff, Goto
<1>12. CASE UNCHANGED vars
  BY <1>12 DEF vars
<1> QED
  BY <1>1, <1>2, <1>3, <1>4, <1>5, <1>6, <1>7, <1>8, <1>9, <1>10, <1>11, <1>12 DEF Next

\* Every step keeps the invariant. The rows change in four actions only: Seed enables and
\* disables nothing, PersistOn and SetSidebarVisible enable one plugin, PersistOff disables
\* one that nobody needs, that is stopped and blocked.
LEMMA ManagerStep == ManagerInv /\ [Next]_vars => ManagerInv'
<1> SUFFICES ASSUME ManagerInv, [Next]_vars PROVE ManagerInv'
  OBVIOUS
<1>0. TypeOK'
  BY TypeStep DEF ManagerInv
<1> USE <1>0, DefaultAssumption, DepsAssumption
        DEF ManagerInv, TypeOK, BootInv, StepInv, DepsEnabled, DisabledIsBlocked,
            RunningIsEnabled, Enabled, Satisfied, Unneeded, IsOn, Phases, Pcs
<1>1. CASE Migrate
  BY <1>1 DEF Migrate, Enter
<1>2. CASE NextPhase
  BY <1>2 DEF NextPhase, Enter
<1>3. CASE Restart
  BY <1>3 DEF Restart, Enter
<1>4. ASSUME NEW p \in Plugins, Seed(p) PROVE ManagerInv'
  <2>1. \A q \in Plugins : IsOn(row', q) <=> IsOn(row, q)
    BY <1>4 DEF Seed
  <2> QED
    BY <1>4, <2>1 DEF Seed
<1>5. ASSUME NEW p \in Plugins, InitPlugin(p) PROVE ManagerInv'
  BY <1>5 DEF InitPlugin, Enter
<1>6. ASSUME NEW p \in Plugins, StartPlugin(p) PROVE ManagerInv'
  BY <1>6 DEF StartPlugin, Enter
<1>7. ASSUME NEW p \in Plugins, Enable(p) PROVE ManagerInv'
  BY <1>7 DEF Enable
<1>8. ASSUME NEW p \in Plugins, Disable(p) PROVE ManagerInv'
  BY <1>8 DEF Disable, Dependents
<1>9. ASSUME NEW p \in Plugins, SetSidebarVisible(p) PROVE ManagerInv'
  BY <1>9 DEF SetSidebarVisible
<1>10. CASE PersistOn
  BY <1>10 DEF PersistOn, Goto
<1>11. CASE Unguard
  BY <1>11 DEF Unguard, Goto
<1>12. CASE Start
  BY <1>12 DEF Start, Goto
<1>13. CASE Return
  BY <1>13 DEF Return, Goto
<1>14. CASE Stop
  BY <1>14 DEF Stop, Goto
<1>15. CASE Block
  BY <1>15 DEF Block, Goto
<1>16. CASE PersistOff
  BY <1>16 DEF PersistOff, Goto
<1>17. CASE UNCHANGED vars
  BY <1>17 DEF vars
<1> QED
  BY <1>1, <1>2, <1>3, <1>4, <1>5, <1>6, <1>7, <1>8, <1>9, <1>10, <1>11, <1>12, <1>13,
     <1>14, <1>15, <1>16, <1>17 DEF Next

\* The manager's invariant holds throughout.
LEMMA ManagerInvariant == Spec => []ManagerInv
  BY InitManager, ManagerStep, PTL DEF Spec

-----------------------------------------------------------------------------
\* The manager's state keeps its types: manager.go's maps, rows and steps.
THEOREM PluginTypes == Spec => []TypeOK
<1>1. ManagerInv => TypeOK
  BY DEF ManagerInv
<1> QED
  BY <1>1, ManagerInvariant, PTL

\* Enable's check of the dependencies and Disable's check of the dependents keep the set
\* of enabled plugins closed, whatever fails and whenever the panel restarts.
THEOREM DependenciesStayEnabled == Spec => []DepsEnabled
<1>1. ManagerInv => DepsEnabled
  BY DEF ManagerInv
<1> QED
  BY <1>1, ManagerInvariant, PTL

\* The guard's map covers every plugin the database disables, at every moment.
THEOREM GuardCoversDisabled == Spec => []DisabledIsBlocked
<1>1. ManagerInv => DisabledIsBlocked
  BY DEF ManagerInv
<1> QED
  BY <1>1, ManagerInvariant, PTL

\* Only plugins that the database enables have background tasks, at every moment.
THEOREM OnlyEnabledRun == Spec => []RunningIsEnabled
<1>1. ManagerInv => RunningIsEnabled
  BY DEF ManagerInv
<1> QED
  BY <1>1, ManagerInvariant, PTL

\* StartAll never starts a plugin before one it depends on: its order, the closed set of
\* enabled plugins and its stop at the first error together.
THEOREM DependenciesStartFirst == Spec => DepsStartedFirst
<1>1. ASSUME ManagerInv, [Next]_vars, NEW p \in Plugins \ shown,
             phase = "start", p \in running' \ running
      PROVE  Deps[p] \subseteq running
  <2>1. PICK q \in Plugins : StartPlugin(q)
    BY <1>1 DEF Next, vars, Migrate, NextPhase, Restart, Seed, InitPlugin, Enable, Disable,
       SetSidebarVisible, PersistOn, Unguard, Start, Return, Stop, Block, PersistOff,
       ManagerInv, BootInv
  <2>2. q = p /\ Due(p) /\ Enabled(p)
    BY <1>1, <2>1 DEF StartPlugin
  <2>3. \A d \in Deps[p] : Enabled(d) /\ d \in Plugins \ todo
    BY <1>1, <2>2, DepsAssumption DEF ManagerInv, DepsEnabled, Satisfied, Enabled, Due
  <2> QED
    BY <1>1, <2>3 DEF ManagerInv, BootInv
<1>2. ManagerInv /\ [Next]_vars
      => (\A p \in Plugins \ shown :
            phase = "start" /\ p \in running' \ running => Deps[p] \subseteq running)
  BY <1>1
<1> QED
  BY <1>2, ManagerInvariant, PTL DEF Spec, DepsStartedFirst
=============================================================================
