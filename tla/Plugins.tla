------------------------------- MODULE Plugins -------------------------------
(***************************************************************************)
(* The plugin manager (src/internal/plugin/manager.go): the start of the   *)
(* panel (seedDefaultStates, InitAll, StartAll), Enable, Disable and       *)
(* SetSidebarVisible, over the three places that say whether a plugin is   *)
(* on: its row in plugin_states, the guard's map of disabled plugins, and  *)
(* its background tasks. Enable and Disable hold the manager's mutex, so   *)
(* one of them is in progress at most; SetSidebarVisible takes no lock,    *)
(* requests consult the guard at any time, and the panel may stop between  *)
(* any two steps.                                                          *)
(***************************************************************************)
EXTENDS Naturals

CONSTANTS Plugins,
          Deps,      \* Deps[p]: the plugins that p's metadata names as dependencies
          Default    \* the plugin that is enabled without a row: "ai"

ASSUME DepsAssumption == Deps \in [Plugins -> SUBSET Plugins]
ASSUME DefaultAssumption == Default \in Plugins /\ Deps[Default] = {}

VARIABLES row,       \* row[p]: the enabled column of p's row, or "none"
          guard,     \* the disabled map that PluginGuardMiddleware consults
          routed,    \* the plugins whose routes are registered
          running,   \* the plugins whose background tasks run
          phase,     \* the start of the panel, up to serving requests
          todo,      \* the plugins the current phase has yet to handle
          pc, who,   \* the step of the Enable or Disable in progress, and its plugin
          shown      \* history: the rows that SetSidebarVisible created

vars == <<row, guard, routed, running, phase, todo, pc, who, shown>>

Phases == {"migrate", "seed", "init", "start", "serving"}
Pcs == {"idle", "persistOn", "unguard", "start", "enabled", "stop", "block", "persistOff"}

TypeOK ==
  /\ row \in [Plugins -> {"none", "on", "off"}]
  /\ guard \subseteq Plugins /\ routed \subseteq Plugins /\ running \subseteq Plugins
  /\ phase \in Phases /\ todo \subseteq Plugins
  /\ pc \in Pcs /\ who \in Plugins
  /\ shown \subseteq Plugins

\* isEnabled, of the rows r.
IsOn(r, p) == r[p] = "on" \/ (r[p] = "none" /\ p = Default)
Enabled(p) == IsOn(row, p)

Satisfied(r, p) == \A d \in Deps[p] : IsOn(r, d)

\* The rows an installed panel may have: none on a fresh install, and none for a plugin
\* that the running version is the first to have.
Init ==
  /\ row \in [Plugins -> {"none", "on", "off"}]
  /\ \A p \in Plugins : IsOn(row, p) => Satisfied(row, p)
  /\ guard = {} /\ routed = {} /\ running = {}
  /\ phase = "migrate" /\ todo = Plugins
  /\ pc = "idle" /\ who = Default
  /\ shown = {}

-----------------------------------------------------------------------------
(* The start of the panel.                                                 *)

Enter(p) == phase' = p /\ todo' = Plugins

\* seedDefaultStates does nothing once the table has a row.
Migrate ==
  /\ phase = "migrate"
  /\ Enter(IF \A p \in Plugins : row[p] = "none" THEN "seed" ELSE "init")
  /\ UNCHANGED <<row, guard, routed, running, pc, who, shown>>

\* One row; an error of the insertion is ignored.
Seed(p) ==
  /\ phase = "seed" /\ p \in todo
  /\ todo' = todo \ {p}
  /\ \/ row' = [row EXCEPT ![p] = IF p = Default THEN "on" ELSE "off"]
     \/ UNCHANGED row
  /\ UNCHANGED <<guard, routed, running, phase, pc, who, shown>>

\* The topological order: p comes once its dependencies have.
Due(p) == p \in todo /\ Deps[p] \cap todo = {}

\* The disabled map filled after the plugin has registered its routes, if its Init
\* succeeds.
InitPluginLate(p) ==
  /\ phase = "init" /\ Due(p)
  /\ routed' = routed \cup {p}
  /\ \/ /\ todo' = todo \ {p} /\ UNCHANGED phase
        /\ guard' = IF Enabled(p) THEN guard ELSE guard \cup {p}
     \/ /\ ~Enabled(p) /\ todo' = todo \ {p} /\ UNCHANGED <<phase, guard>>
     \/ Enabled(p) /\ Enter("start") /\ UNCHANGED guard
  /\ UNCHANGED <<row, running, pc, who, shown>>

\* A disabled plugin is guarded, then initialised like the others. A data directory that
\* cannot be made, and Init's error when the plugin is enabled, break InitAll off; main
\* goes on with StartAll.
InitPlugin(p) ==
  /\ phase = "init" /\ Due(p)
  /\ guard' = IF Enabled(p) THEN guard ELSE guard \cup {p}
  /\ \/ Enter("start") /\ UNCHANGED routed
     \/ /\ routed' = routed \cup {p}
        /\ \/ todo' = todo \ {p} /\ UNCHANGED phase
           \/ Enabled(p) /\ Enter("start")
  /\ UNCHANGED <<row, running, pc, who, shown>>

\* A failed start that is logged and passed over.
StartPluginGoesOn(p) ==
  /\ phase = "start" /\ Due(p)
  /\ \/ Enabled(p) /\ running' = running \cup {p}
     \/ UNCHANGED running
  /\ todo' = todo \ {p}
  /\ UNCHANGED <<row, guard, routed, phase, pc, who, shown>>

\* StartAll: an enabled plugin's Start; its error breaks StartAll off.
StartPlugin(p) ==
  /\ phase = "start" /\ Due(p)
  /\ \/ Enabled(p) /\ running' = running \cup {p} /\ todo' = todo \ {p} /\ UNCHANGED phase
     \/ ~Enabled(p) /\ todo' = todo \ {p} /\ UNCHANGED <<running, phase>>
     \/ Enabled(p) /\ Enter("serving") /\ UNCHANGED running
  /\ UNCHANGED <<row, guard, routed, pc, who, shown>>

NextPhase ==
  /\ phase \in {"seed", "init", "start"} /\ todo = {}
  /\ Enter(CASE phase = "seed" -> "init" [] phase = "init" -> "start" [] OTHER -> "serving")
  /\ UNCHANGED <<row, guard, routed, running, pc, who, shown>>

-----------------------------------------------------------------------------
(* Enable.                                                                 *)

Goto(l) == pc' = l /\ UNCHANGED who

\* Enable does not look at the dependencies.
EnableUnchecked(p) ==
  /\ phase = "serving" /\ pc = "idle"
  /\ who' = p
  /\ pc' = IF Enabled(p) THEN "enabled" ELSE "persistOn"
  /\ UNCHANGED <<row, guard, routed, running, phase, todo, shown>>

\* Nothing to do, or every dependency is enabled; otherwise Enable returns an error.
Enable(p) ==
  /\ phase = "serving" /\ pc = "idle"
  /\ who' = p
  /\ \/ Enabled(p) /\ pc' = "enabled"
     \/ ~Enabled(p) /\ Satisfied(row, p) /\ pc' = "persistOn"
  /\ UNCHANGED <<row, guard, routed, running, phase, todo, shown>>

PersistOn ==
  /\ pc = "persistOn"
  /\ \/ row' = [row EXCEPT ![who] = "on"] /\ Goto("unguard")
     \/ UNCHANGED row /\ Goto("idle")
  /\ UNCHANGED <<guard, routed, running, phase, todo, shown>>

Unguard ==
  /\ pc = "unguard"
  /\ guard' = guard \ {who}
  /\ Goto("start")
  /\ UNCHANGED <<row, routed, running, phase, todo, shown>>

\* A Start that fails is logged: the plugin stays enabled.
Start ==
  /\ pc = "start"
  /\ running' \in {running, running \cup {who}}
  /\ Goto("enabled")
  /\ UNCHANGED <<row, guard, routed, phase, todo, shown>>

\* Enable returns nil.
Return ==
  /\ pc = "enabled"
  /\ Goto("idle")
  /\ UNCHANGED <<row, guard, routed, running, phase, todo, shown>>

-----------------------------------------------------------------------------
(* Disable and SetSidebarVisible.                                          *)

Dependents(p) == {q \in Plugins \ {p} : Enabled(q) /\ p \in Deps[q]}

Disable(p) ==
  /\ phase = "serving" /\ pc = "idle"
  /\ Enabled(p) /\ Dependents(p) = {}
  /\ who' = p /\ pc' = "stop"
  /\ UNCHANGED <<row, guard, routed, running, phase, todo, shown>>

\* A row written with a status of its own.
PersistOffWord ==
  /\ pc = "persistOff"
  /\ row' = [row EXCEPT ![who] = "disabled"]
  /\ Goto("idle")
  /\ UNCHANGED <<guard, routed, running, phase, todo, shown>>

\* The plugin's tasks left running.
StopSkipped ==
  /\ pc = "stop"
  /\ Goto("block")
  /\ UNCHANGED <<row, guard, routed, running, phase, todo, shown>>

Stop ==
  /\ pc = "stop"
  /\ running' = running \ {who}
  /\ Goto("block")
  /\ UNCHANGED <<row, guard, routed, phase, todo, shown>>

Block ==
  /\ pc = "block"
  /\ guard' = guard \cup {who}
  /\ Goto("persistOff")
  /\ UNCHANGED <<row, routed, running, phase, todo, shown>>

\* The row is written, or the error returned: the plugin is then stopped and blocked,
\* and enabled in the database.
PersistOff ==
  /\ pc = "persistOff"
  /\ \/ row' = [row EXCEPT ![who] = "off"]
     \/ UNCHANGED row
  /\ Goto("idle")
  /\ UNCHANGED <<guard, routed, running, phase, todo, shown>>

\* Without a row one is created; its enabled column takes the default, true. (With a
\* row, only the sidebar column changes.)
SetSidebarVisible(p) ==
  /\ phase = "serving" /\ row[p] = "none"
  /\ row' = [row EXCEPT ![p] = "on"]
  /\ shown' = shown \cup {p}
  /\ UNCHANGED <<guard, routed, running, phase, todo, pc, who>>

\* The panel stops, at any point, and starts again: the rows are all that is left.
Restart ==
  /\ guard' = {} /\ routed' = {} /\ running' = {}
  /\ Enter("migrate")
  /\ pc' = "idle" /\ UNCHANGED who
  /\ UNCHANGED <<row, shown>>

Next ==
  \/ Migrate \/ NextPhase \/ Restart
  \/ \E p \in Plugins : \/ Seed(p) \/ InitPlugin(p) \/ StartPlugin(p)
                        \/ Enable(p) \/ Disable(p) \/ SetSidebarVisible(p)
  \/ PersistOn \/ Unguard \/ Start \/ Return
  \/ Stop \/ Block \/ PersistOff

Spec == Init /\ [][Next]_vars

-----------------------------------------------------------------------------
(* Properties.                                                             *)

\* An enabled plugin has its dependencies enabled, through restarts, failed writes and
\* upgrades; the plugins whose row SetSidebarVisible created are the exception.
DepsEnabled == \A p \in Plugins \ shown : Enabled(p) => Satisfied(row, p)

\* The guard blocks every plugin that the database disables, at every moment: also in
\* the middle of Enable and Disable, when one of their writes fails, and while InitAll
\* is not through or broke off.
DisabledIsBlocked == \A p \in routed : ~Enabled(p) => p \in guard

\* No background task runs for a plugin that the database disables, at every moment.
RunningIsEnabled == \A p \in running : Enabled(p)

\* StartAll starts a plugin after all its dependencies have been started.
DepsStartedFirst ==
  [][\A p \in Plugins \ shown :
       phase = "start" /\ p \in running' \ running => Deps[p] \subseteq running]_vars

\* "Enable enables a plugin. Takes effect immediately: updates the disabled map": when
\* it returns nil, requests for the plugin are not blocked.
EnableTakesEffect == pc = "enabled" => who \notin guard
=============================================================================
