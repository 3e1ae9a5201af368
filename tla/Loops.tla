---------------------------------- MODULE Loops ----------------------------------
(***************************************************************************)
(* The background loops of four plugins, while the plugin manager enables  *)
(* and disables the plugin (src/internal/plugin/manager.go): the metrics   *)
(* collection (src/plugins/monitoring/service.go), the daily inspection    *)
(* (src/plugins/ai/inspection.go), the sync of the app sources             *)
(* (src/plugins/appstore/updater.go) and the clean-up of terminals         *)
(* (src/plugins/filemanager/plugin.go). A behaviour is about one of them.  *)
(*                                                                         *)
(* Each is stopped by closing a channel held in a field. A loop reads the  *)
(* field anew whenever it begins to wait; while it works it holds none.    *)
(***************************************************************************)
EXTENDS Naturals, FiniteSets

CONSTANTS LoopIds, Savers,  \* goroutines; requests that save the inspection's settings
          MaxChannels

ASSUME LoopAssumption == MaxChannels \in Nat \ {0}

VARIABLES lpKind,
          lpEnabled,   \* the plugin's row in plugin_states
          lpBlocked,   \* the manager's disabled map
          lpWanted,    \* inspection_enabled is "true"
          lpRunning,   \* InspectionService.running
          lpChannel,   \* the number of the channel in the field, 0 for nil
          lpMade,      \* the number of channels made
          lpClosed,    \* the channels that are closed
          lpLoop,
          lpSaver,     \* where each request to save the settings is
          lpPanics,    \* a Stop has closed a closed channel
          lpMet        \* what excuses a second loop, see OneLoop

lpVars == <<lpKind, lpEnabled, lpBlocked, lpWanted, lpRunning, lpChannel, lpMade, lpClosed, lpLoop,
            lpSaver, lpPanics, lpMet>>

Kinds == {"monitoring", "inspection", "updater", "terminals"}
Channels == 1..MaxChannels

LoopTypeOK ==
  /\ lpKind \in Kinds
  /\ {lpEnabled, lpBlocked, lpWanted, lpRunning, lpPanics} \subseteq BOOLEAN
  /\ lpMade \in 0..MaxChannels /\ lpChannel \in 0..lpMade /\ lpClosed \subseteq 1..lpMade
  /\ lpLoop \in [LoopIds -> [at : {"none", "work", "wait"}, on : 0..MaxChannels]]
  /\ lpSaver \in [Savers -> {"idle", "saved", "stopped", "fresh"}]
  /\ lpMet \subseteq {"busy", "savers", "unsaved", "again"}

\* The plugin is disabled, as most are on a new installation. Two of the constructors make
\* the channel, the other two services make it in Start.
LoopInit ==
  /\ lpKind \in Kinds
  /\ lpEnabled = FALSE /\ lpBlocked = TRUE /\ lpWanted \in BOOLEAN /\ lpRunning = FALSE
  /\ lpMade = (IF lpKind \in {"inspection", "updater"} THEN 1 ELSE 0)
  /\ lpChannel = lpMade /\ lpClosed = {}
  /\ lpLoop = [l \in LoopIds |-> [at |-> "none", on |-> 0]]
  /\ lpSaver = [s \in Savers |-> "idle"]
  /\ lpPanics = FALSE /\ lpMet = {}

-----------------------------------------------------------------------------
(* A goroutine: go, select, the work.                                      *)

Spawn == \E l \in LoopIds : /\ lpLoop[l].at = "none"
                            /\ lpLoop' = [lpLoop EXCEPT ![l] = [at |-> "work", on |-> 0]]

LoopWaits(l) ==
  /\ lpLoop[l].at = "work"
  /\ lpLoop' = [lpLoop EXCEPT ![l] = [at |-> "wait", on |-> lpChannel]]
  /\ UNCHANGED <<lpKind, lpEnabled, lpBlocked, lpWanted, lpRunning, lpChannel, lpMade, lpClosed, lpSaver,
                 lpPanics, lpMet>>

\* When both are ready, select takes either.
LoopWakes(l) ==
  /\ lpLoop[l].at = "wait"
  /\ \/ /\ lpLoop' = [lpLoop EXCEPT ![l] = [at |-> "work", on |-> 0]]
        /\ lpMet' = lpMet \cup {m \in {"busy"} : lpLoop[l].on \in lpClosed}
     \/ /\ lpLoop[l].on \in lpClosed /\ lpLoop' = [lpLoop EXCEPT ![l] = [at |-> "none", on |-> 0]]
        /\ UNCHANGED lpMet
  /\ UNCHANGED <<lpKind, lpEnabled, lpBlocked, lpWanted, lpRunning, lpChannel, lpMade, lpClosed, lpSaver,
                 lpPanics>>

-----------------------------------------------------------------------------
(* Start and Stop of each kind: the channel, running and the loops.        *)

NewChannel == /\ lpMade < MaxChannels
              /\ lpMade' = lpMade + 1 /\ lpChannel' = lpMade + 1

Busy == {l \in LoopIds : lpLoop[l].at = "work"}
Meets(what, when) == lpMet' = lpMet \cup {w \in {what} : when}

\* The channel of an earlier Start is closed first.
StartMonitoring ==
  /\ lpKind = "monitoring"
  /\ NewChannel /\ lpClosed' = lpClosed \cup ({lpChannel} \ {0}) /\ Spawn
  /\ Meets("busy", Busy # {})
  /\ UNCHANGED lpRunning

StartTerminals ==
  /\ lpKind = "terminals"
  /\ NewChannel /\ Spawn /\ Meets("busy", Busy # {})
  /\ UNCHANGED <<lpClosed, lpRunning>>

\* The channel is the one of NewUpdater for ever.
StartUpdater ==
  /\ lpKind = "updater"
  /\ Spawn
  /\ UNCHANGED <<lpChannel, lpMade, lpClosed, lpRunning, lpMet>>

\* Only if the setting asks for it; the channel is made by NewInspectionService or Reschedule.
StartInspection ==
  /\ lpKind = "inspection"
  /\ \/ ~lpWanted /\ UNCHANGED <<lpLoop, lpRunning>>
     \/ lpWanted /\ Spawn /\ lpRunning' = TRUE
  /\ lpMet' = lpMet \cup {m \in {"savers"} : lpWanted /\ (lpRunning \/ lpBlocked')}
                   \cup {m \in {"again"} : lpWanted /\ lpChannel \in lpClosed}
  /\ UNCHANGED <<lpChannel, lpMade, lpClosed>>

LoopStart == StartMonitoring \/ StartTerminals \/ StartUpdater \/ StartInspection

StopMonitoring == /\ lpKind = "monitoring"
                  /\ lpClosed' = lpClosed \cup ({lpChannel} \ {0})
                  /\ UNCHANGED lpRunning

\* Nothing asks whether the channel is open: closing it a second time panics.
StopTerminals == /\ lpKind = "terminals"
                 /\ lpClosed' = lpClosed \cup ({lpChannel} \ {0})
                 /\ UNCHANGED lpRunning

StopUpdater == /\ lpKind = "updater"
               /\ lpClosed' = lpClosed \cup {lpChannel}
               /\ UNCHANGED lpRunning

StopPanics == /\ lpChannel \in lpClosed
              /\ lpKind = "terminals" \/ (lpKind = "inspection" /\ lpRunning)

StopKeepsRunning ==
  /\ lpKind = "inspection" /\ UNCHANGED lpRunning
  /\ lpClosed' = IF lpRunning THEN lpClosed \cup {lpChannel} ELSE lpClosed

\* running stays TRUE when the close panics.
StopInspection ==
  /\ lpKind = "inspection"
  /\ lpClosed' = IF lpRunning THEN lpClosed \cup {lpChannel} ELSE lpClosed
  /\ lpRunning' = (lpRunning /\ StopPanics)

LoopStop == /\ StopMonitoring \/ StopTerminals \/ StopUpdater \/ StopInspection
            /\ lpPanics' = (lpPanics \/ StopPanics)

-----------------------------------------------------------------------------
(* The plugin manager, under its mutex.                                    *)

EnableLoop ==
  /\ ~lpEnabled /\ lpEnabled' = TRUE /\ lpBlocked' = FALSE
  /\ LoopStart
  /\ UNCHANGED <<lpKind, lpWanted, lpSaver, lpPanics>>

\* Stop, the map, and the row, whose write may fail. After a panic neither is reached.
DisableLoop ==
  /\ lpEnabled /\ LoopStop
  /\ IF StopPanics THEN UNCHANGED <<lpEnabled, lpBlocked, lpMet>>
     ELSE /\ lpBlocked' = TRUE
          /\ lpEnabled' \in BOOLEAN /\ Meets("unsaved", lpEnabled')
  /\ UNCHANGED <<lpKind, lpWanted, lpChannel, lpMade, lpLoop, lpSaver>>

-----------------------------------------------------------------------------
(* UpdateInspectionConfig and Reschedule: the setting, then Stop, a new    *)
(* channel and Start, each under the service's mutex, not all of them.     *)

SaverAt(s, from, to) == lpSaver[s] = from /\ lpSaver' = [lpSaver EXCEPT ![s] = to]

SaveInspection(s) ==
  /\ lpKind = "inspection" /\ ~lpBlocked
  /\ SaverAt(s, "idle", "saved") /\ lpWanted' \in BOOLEAN
  /\ Meets("savers", \E t \in Savers : lpSaver[t] # "idle")
  /\ UNCHANGED <<lpKind, lpEnabled, lpBlocked, lpRunning, lpChannel, lpMade, lpClosed, lpLoop, lpPanics>>

\* A panic ends the request.
RescheduleStop(s) ==
  /\ SaverAt(s, "saved", IF StopPanics THEN "idle" ELSE "stopped")
  /\ LoopStop
  /\ UNCHANGED <<lpKind, lpEnabled, lpBlocked, lpWanted, lpChannel, lpMade, lpLoop, lpMet>>

RescheduleChannel(s) ==
  /\ SaverAt(s, "stopped", "fresh")
  /\ NewChannel
  /\ lpMet' = lpMet \cup {m \in {"busy"} : Busy # {}} \cup {m \in {"savers"} : lpRunning}
  /\ UNCHANGED <<lpKind, lpEnabled, lpBlocked, lpWanted, lpRunning, lpClosed, lpLoop, lpPanics>>

\* The plugin may have been disabled, or enabled, in between.
RescheduleStart(s) ==
  /\ SaverAt(s, "fresh", "idle")
  /\ UNCHANGED <<lpKind, lpEnabled, lpBlocked, lpWanted, lpPanics>>
  /\ StartInspection

LoopNext ==
  \/ EnableLoop \/ DisableLoop
  \/ \E l \in LoopIds : LoopWaits(l) \/ LoopWakes(l)
  \/ \E s \in Savers : SaveInspection(s) \/ RescheduleStop(s) \/ RescheduleChannel(s) \/ RescheduleStart(s)

LoopSpec == LoopInit /\ [][LoopNext]_lpVars

-----------------------------------------------------------------------------
(* Properties                                                              *)

\* Loops that go on: no closed channel will end them.
Lasting == {l \in LoopIds : \/ lpLoop[l].at = "wait" /\ lpLoop[l].on \notin lpClosed
                            \/ lpLoop[l].at = "work" /\ lpChannel \notin lpClosed}

\* Never two loops of a plugin, and none that goes on after the plugin was disabled. The code
\* does not keep this when a channel is replaced while an old loop works and has not seen its
\* channel closed ("busy"), or when settings are saved during another change ("savers").
OneLoop == lpMet \cap {"busy", "savers"} = {} => Cardinality(Lasting) <= 1 /\ (lpBlocked => Lasting = {})

\* An enabled plugin has its loop, unless its channel is closed for good: the updater's after
\* the first Disable, and the inspection's until its settings are saved.
LoopRuns ==
  LET wanted == /\ lpEnabled /\ ~lpBlocked /\ lpMet \subseteq {"again"} /\ ~lpPanics
                /\ lpKind = "inspection" => lpWanted
                /\ lpKind \in {"inspection", "updater"} => lpChannel \notin lpClosed
                /\ \A s \in Savers : lpSaver[s] = "idle"
  IN wanted => Lasting # {}

\* Stop never closes a closed channel, except the inspection's, started again with it, and
\* the terminals', when the row of an earlier Disable could not be written.
StopSafe == lpPanics => \/ lpKind = "inspection" /\ "again" \in lpMet
                        \/ lpKind = "terminals" /\ "unsaved" \in lpMet

LoopsSound == OneLoop /\ LoopRuns /\ StopSafe
=============================================================================
