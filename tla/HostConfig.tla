----------------------------- MODULE HostConfig -----------------------------
(***************************************************************************)
(* How a change of a host reaches Caddy: HostService                       *)
(* (src/internal/service/host.go) changes the database and ApplyConfig     *)
(* renders all of it into the Caddyfile, which caddy.Manager               *)
(* (src/internal/caddy/manager.go) validates, writes and reloads. The      *)
(* Caddyfile editor and the Start, Stop and Reload buttons act on the same *)
(* file and process.                                                       *)
(*                                                                         *)
(* ApplyConfig takes no lock of its own: the manager's mutex covers one    *)
(* write (temporary file, validation, backup, rename) and nothing between  *)
(* the read of the database and the reload. Every read and write of the    *)
(* database, the file or the process is a step here, and requests          *)
(* interleave between them.                                                *)
(***************************************************************************)
EXTENDS Naturals

CONSTANTS Hosts,
          Calls,        \* requests that create, delete, toggle or update a host
          Editors,      \* requests of the Caddyfile editor and the Reload button
          AutoReload,   \* the values the auto_reload setting may take
          MaxRestarts   \* bound on restarts of the panel

ASSUME CallersAssumption == Calls \cap Editors = {} /\ "boot" \notin Calls \cup Editors
ASSUME AutoReloadAssumption == AutoReload \subseteq BOOLEAN /\ AutoReload # {}
ASSUME MaxRestartsAssumption == MaxRestarts \in Nat

VARIABLES db,        \* db[h]: the host's row, and whether what belongs to it is there
          file,      \* the content of the Caddyfile
          live,      \* the content Caddy has loaded
          running,   \* does Caddy run
          auto,      \* the auto_reload setting
          pc,        \* where each request, and the start of the panel, stands
          target,    \* the host a request is about
          seen,      \* the host as a request has read it
          new,       \* the content a request has rendered, then the one its reload has read
          old,       \* the content a request keeps for its rollback
          restarts,
          crowd,     \* history: requests have overlapped since the last quiet moment
          ahead,     \* history: the database may differ from the file
          stale,     \* history: the file may differ from what Caddy runs
          revived    \* history: Toggle has inserted a host again that was deleted

vars == <<db, file, live, running, auto, pc, target, seen, new, old,
          restarts, crowd, ahead, stale, revived>>

disk == <<db, file>>
caddy == <<live, running>>
request == <<target, seen>>
local == <<new, old>>
history == <<crowd, ahead, stale>>

boot == "boot"
Callers == Calls \cup {boot}

\* A row is enabled or disabled; a host is whole when its upstreams, headers, access
\* rules and users are in their tables.
HostState == [row : {"absent", "on", "off"}, whole : BOOLEAN]
Absent == [row |-> "absent", whole |-> FALSE]
Exists(h) == db[h].row # "absent"

\* The content rendered from the database: the hosts that are enabled, each as it is.
\* What the editor saves is a content of no database.
Render(d) == {<<h, d[h].whole>> : h \in {g \in Hosts : d[g].row = "on"}}
Edited == {<<"editor", TRUE>>}
Content == SUBSET ((Hosts \cup {"editor"}) \X BOOLEAN)

Applying == {"list", "old", "write", "check", "reload", "loading", "rollback", "start"}
Active == Applying \cup {"toggle", "update", "stripped", "autostart"}
Over == {"ok", "failed", "broken", "refused", "lost"}

TypeOK ==
  /\ db \in [Hosts -> HostState]
  /\ file \in Content /\ live \in Content /\ running \in BOOLEAN
  /\ auto \in AutoReload
  /\ pc \in [Callers \cup Editors -> {"idle"} \cup Active \cup Over]
  /\ target \in [Calls -> Hosts \cup {"none"}]
  /\ seen \in [Calls -> HostState]
  /\ new \in [Callers \cup Editors -> Content] /\ old \in [Callers \cup Editors -> Content]
  /\ restarts \in 0..MaxRestarts
  /\ crowd \in BOOLEAN /\ ahead \in BOOLEAN /\ stale \in BOOLEAN
  /\ revived \in BOOLEAN

\* The panel starts, with the hosts and the file of an earlier life; Caddy is down.
Init ==
  /\ db \in [Hosts -> {Absent} \cup [row : {"on", "off"}, whole : {TRUE}]]
  /\ file = Render(db) /\ live = {} /\ running = FALSE
  /\ auto \in AutoReload
  /\ pc = [c \in Callers \cup Editors |-> IF c = boot THEN "list" ELSE "idle"]
  /\ target = [c \in Calls |-> "none"]
  /\ seen = [c \in Calls |-> Absent]
  /\ new = [c \in Callers \cup Editors |-> {}] /\ old = [c \in Callers \cup Editors |-> {}]
  /\ restarts = 0
  /\ crowd = FALSE /\ ahead = TRUE /\ stale = TRUE /\ revived = FALSE

-----------------------------------------------------------------------------
(* Helpers.                                                                *)

Goto(c, l) == pc' = [pc EXCEPT ![c] = l]
Busy == \E c \in Callers \cup Editors : pc[c] \in Active
Serving == pc[boot] \in Over

\* What the history records when a request begins, or Caddy is started or stopped.
Enter == /\ crowd' = Busy
         /\ ahead' = (ahead \/ Busy)
         /\ stale' = (stale \/ Busy)

\* A request begins: idle, and the panel serves requests.
Begin(c) == pc[c] = "idle" /\ Serving /\ Enter

\* A request returns; what it read and rendered goes with it.
Forget(c) == new' = [new EXCEPT ![c] = {}] /\ old' = [old EXCEPT ![c] = {}]

\* ApplyConfig returns without an error; r: it saw Caddy load the file.
Succeed(c, r) ==
  /\ Goto(c, IF c = boot THEN "autostart" ELSE "ok")
  /\ ahead' = (ahead /\ crowd)
  /\ stale' = IF crowd THEN stale ELSE ~r
  /\ Forget(c) /\ UNCHANGED crowd

\* It returns an error; the file is as before, unless the rollback failed too.
Fails(c, how) ==
  /\ Goto(c, IF c = boot THEN "autostart" ELSE how)
  /\ ahead' = TRUE
  /\ stale' = (stale \/ how = "broken")
  /\ Forget(c) /\ UNCHANGED crowd

-----------------------------------------------------------------------------
(* The requests that change hosts, up to their call of ApplyConfig.        *)

\* Create: the domain is free; the row and what belongs to it are inserted.
Create(c, h) ==
  /\ Begin(c) /\ ~Exists(h)
  /\ \E r \in {"on", "off"} : db' = [db EXCEPT ![h] = [row |-> r, whole |-> TRUE]]
  /\ target' = [target EXCEPT ![c] = h]
  /\ Goto(c, "list")
  /\ UNCHANGED <<file, caddy, auto, seen, local, restarts, revived>>

Delete(c, h) ==
  /\ Begin(c) /\ Exists(h)
  /\ db' = [db EXCEPT ![h] = Absent]
  /\ target' = [target EXCEPT ![c] = h]
  /\ Goto(c, "list")
  /\ UNCHANGED <<file, caddy, auto, seen, local, restarts, revived>>

\* Toggle and Update read the host and all that belongs to it first.
Get(c, h, op) ==
  /\ Begin(c) /\ Exists(h)
  /\ target' = [target EXCEPT ![c] = h]
  /\ seen' = [seen EXCEPT ![c] = db[h]]
  /\ Goto(c, op)
  /\ UNCHANGED <<disk, caddy, auto, local, restarts, revived>>

\* A flag of another spelling.
ToggleWord(c) ==
  /\ pc[c] = "toggle"
  /\ db' = [db EXCEPT ![target[c]].row = "disabled"]
  /\ Goto(c, "list")
  /\ seen' = [seen EXCEPT ![c] = Absent]
  /\ UNCHANGED <<file, caddy, auto, target, local, restarts, revived, history>>

\* Toggle saves all it has read, with the flag inverted; Save inserts the row, and what
\* belonged to it, again if it is gone.
Toggle(c) ==
  /\ pc[c] = "toggle"
  /\ db' = [db EXCEPT ![target[c]] = [row |-> IF seen[c].row = "on" THEN "off" ELSE "on",
                                      whole |-> @.whole \/ seen[c].whole]]
  /\ revived' = (revived \/ ~Exists(target[c]))
  /\ Goto(c, "list")
  /\ seen' = [seen EXCEPT ![c] = Absent]
  /\ UNCHANGED <<file, caddy, auto, target, local, restarts, history>>

\* Update deletes the host's upstreams, headers, rules and users, ...
UpdateStrip(c) ==
  /\ pc[c] = "update"
  /\ db' = [db EXCEPT ![target[c]].whole = FALSE]
  /\ Goto(c, "stripped")
  /\ UNCHANGED <<file, caddy, auto, request, local, restarts, revived, history>>

\* The new upstreams are never inserted.
UpdateSaveBare(c) ==
  /\ pc[c] = "stripped"
  /\ db' = [db EXCEPT ![target[c]] = [row |-> seen[c].row, whole |-> FALSE]]
  /\ Goto(c, "list")
  /\ seen' = [seen EXCEPT ![c] = Absent]
  /\ UNCHANGED <<file, caddy, auto, target, local, restarts, revived, history>>

\* ... then saves the row it has read, changed, and inserts the new ones, ...
UpdateSave(c) ==
  /\ pc[c] = "stripped"
  /\ db' = [db EXCEPT ![target[c]] = [row |-> seen[c].row, whole |-> TRUE]]
  /\ Goto(c, "list")
  /\ seen' = [seen EXCEPT ![c] = Absent]
  /\ UNCHANGED <<file, caddy, auto, target, local, restarts, revived, history>>

\* ... unless a user's name is refused: it returns there, nothing is put back and
\* the configuration is not applied.
UpdateRefused(c) ==
  /\ pc[c] = "stripped"
  /\ Goto(c, "refused")
  /\ ahead' = TRUE
  /\ seen' = [seen EXCEPT ![c] = Absent]
  /\ UNCHANGED <<disk, caddy, auto, target, local, restarts, revived, crowd, stale>>

-----------------------------------------------------------------------------
(* ApplyConfig.                                                            *)

\* The hosts are listed and rendered.
List(c) ==
  /\ pc[c] = "list"
  /\ new' = [new EXCEPT ![c] = Render(db)]
  /\ Goto(c, "old")
  /\ UNCHANGED <<disk, caddy, auto, request, old, restarts, revived, history>>

\* The old content is read after the new one was written.
ReadOldLate(c) ==
  /\ pc[c] = "old"
  /\ old' = [old EXCEPT ![c] = new[c]]
  /\ Goto(c, "write")
  /\ UNCHANGED <<disk, caddy, auto, request, new, restarts, revived, history>>

ReadOld(c) ==
  /\ pc[c] = "old"
  /\ old' = [old EXCEPT ![c] = file]
  /\ Goto(c, "write")
  /\ UNCHANGED <<disk, caddy, auto, request, new, restarts, revived, history>>

\* WriteCaddyfile refused, and ApplyConfig going on.
WriteUnchecked(c) ==
  /\ pc[c] = "write"
  /\ \E f \in {file, new[c]} : file' = f
  /\ Goto(c, "check")
  /\ UNCHANGED <<db, caddy, auto, request, local, restarts, revived, history>>

\* WriteCaddyfile: the content is invalid, or becomes the file in one rename.
Write(c) ==
  /\ pc[c] = "write"
  /\ \/ file' = new[c] /\ Goto(c, "check") /\ UNCHANGED <<local, history>>
     \/ Fails(c, "failed") /\ UNCHANGED file
  /\ UNCHANGED <<db, caddy, auto, request, restarts, revived>>

\* The setting is read, and Caddy asked whether it runs.
Check(c) ==
  /\ pc[c] = "check"
  /\ IF ~auto THEN Succeed(c, FALSE)
              ELSE /\ Goto(c, IF running THEN "reload" ELSE "start")
                   /\ UNCHANGED <<local, history>>
  /\ UNCHANGED <<disk, caddy, auto, request, restarts, revived>>

\* Start, under the mutex. Its failure, when Caddy runs by then too, is only logged.
StartInApply(c) ==
  /\ pc[c] = "start"
  /\ \/ ~running /\ running' = TRUE /\ live' = file /\ Succeed(c, TRUE)
     \/ UNCHANGED caddy /\ Succeed(c, ~running)
  /\ UNCHANGED <<disk, auto, request, restarts, revived>>

\* `caddy reload` reads the file, and asks the running Caddy to load what it read.
ReloadRead(c) ==
  /\ pc[c] = "reload"
  /\ new' = [new EXCEPT ![c] = file]
  /\ Goto(c, "loading")
  /\ UNCHANGED <<disk, caddy, auto, request, old, restarts, revived, history>>

ReloadLoads(c) ==
  /\ pc[c] = "loading" /\ running
  /\ live' = new[c]
  /\ \/ c \in Editors /\ Goto(c, "ok") /\ Forget(c) /\ UNCHANGED history
     \/ c \in Callers /\ Succeed(c, TRUE)
  /\ UNCHANGED <<disk, running, auto, request, restarts, revived>>

\* Caddy refuses the content, or does not run any more.
ReloadFails(c) ==
  /\ pc[c] = "loading"
  /\ \/ c \in Editors /\ Goto(c, "failed") /\ Forget(c)
     \/ c \in Callers /\ Goto(c, "rollback") /\ UNCHANGED local
  /\ UNCHANGED <<disk, caddy, auto, request, restarts, revived, history>>

\* "Restore old Caddyfile so Caddy stays on the last known-good config"; a failure of
\* this write is logged as critical.
Rollback(c) ==
  /\ pc[c] = "rollback"
  /\ \/ file' = old[c] /\ Fails(c, "failed")
     \/ UNCHANGED file /\ Fails(c, "broken")
  /\ UNCHANGED <<db, caddy, auto, request, restarts, revived>>

-----------------------------------------------------------------------------
(* The start of the panel, the editor, the buttons and the setting.        *)

\* main: after ApplyConfig, start Caddy unless it runs; only then serve requests.
AutoStart ==
  /\ pc[boot] = "autostart"
  /\ Goto(boot, "ok")
  /\ \/ ~running /\ running' = TRUE /\ live' = file
     \/ UNCHANGED caddy
  /\ UNCHANGED <<disk, auto, request, local, restarts, revived, history>>

\* SaveCaddyfile: write, then reload if asked to. A failed reload rolls nothing back.
SaveCaddyfile(e) ==
  /\ pc[e] = "idle" /\ Serving
  /\ file' = Edited
  /\ Goto(e, "ok") \/ Goto(e, "reload")
  /\ crowd' = Busy /\ ahead' = TRUE /\ stale' = TRUE
  /\ UNCHANGED <<db, caddy, auto, request, local, restarts, revived>>

ReloadCaddy(e) ==
  /\ Begin(e)
  /\ Goto(e, "reload")
  /\ UNCHANGED <<disk, caddy, auto, request, local, restarts, revived>>

\* Caddy is started or stopped between two steps of a request.
Interfere == /\ crowd' = (crowd \/ Busy)
             /\ ahead' = (ahead \/ Busy)
             /\ stale' = (stale \/ Busy)

StartCaddy ==
  /\ Serving /\ ~running
  /\ running' = TRUE /\ live' = file
  /\ Interfere
  /\ UNCHANGED <<disk, auto, pc, request, local, restarts, revived>>

StopCaddy ==
  /\ Serving /\ running
  /\ running' = FALSE
  /\ Interfere
  /\ UNCHANGED <<disk, live, auto, pc, request, local, restarts, revived>>

SetAutoReload ==
  /\ Serving
  /\ auto' \in AutoReload \ {auto}
  /\ UNCHANGED <<disk, caddy, pc, request, local, restarts, revived, history>>

\* The panel stops and starts again. Caddy runs on, or goes down with it.
Restart ==
  /\ restarts < MaxRestarts
  /\ restarts' = restarts + 1
  /\ pc' = [c \in Callers \cup Editors |-> CASE c = boot -> "list"
                                              [] c # boot /\ pc[c] \in Active -> "lost"
                                              [] OTHER -> pc[c]]
  /\ running' \in {running, FALSE}
  /\ new' = [c \in Callers \cup Editors |-> {}] /\ old' = [c \in Callers \cup Editors |-> {}]
  /\ seen' = [c \in Calls |-> Absent]
  /\ crowd' = FALSE
  /\ ahead' = (ahead \/ Busy)
  /\ stale' = (stale \/ Busy)
  /\ UNCHANGED <<disk, live, auto, target, revived>>

HostChange(c) ==
  \/ \E h \in Hosts : Create(c, h) \/ Delete(c, h) \/ Get(c, h, "toggle") \/ Get(c, h, "update")
  \/ Toggle(c) \/ UpdateStrip(c) \/ UpdateSave(c) \/ UpdateRefused(c)

Apply(c) == List(c) \/ ReadOld(c) \/ Write(c) \/ Check(c) \/ StartInApply(c) \/ Rollback(c)

Reload(c) == ReloadRead(c) \/ ReloadLoads(c) \/ ReloadFails(c)

Next ==
  \/ \E c \in Calls : HostChange(c)
  \/ \E c \in Callers : Apply(c)
  \/ \E c \in Callers \cup Editors : Reload(c)
  \/ \E e \in Editors : SaveCaddyfile(e) \/ ReloadCaddy(e)
  \/ AutoStart \/ StartCaddy \/ StopCaddy \/ SetAutoReload \/ Restart

Spec == Init /\ [][Next]_vars

-----------------------------------------------------------------------------
(* Properties.                                                             *)

Quiet == ~Busy

\* Between requests Caddy runs the content of the file: one ApplyConfig that nobody
\* overlaps and that loads the file makes it so, whatever happened before, and later
\* ones keep it so even when the validation, the reload or the start fails. Excused are
\* overlaps, the editor, auto_reload turned off, and a rollback that fails itself.
LiveIsFile == Quiet /\ ~stale /\ running => live = file

\* Between requests the file is the database's rendering, from one undisturbed success
\* of ApplyConfig on until a request fails: a failed one leaves its row behind.
FileIsDb == Quiet /\ ~ahead => file = Render(db)

\* Between requests no host has lost its upstreams, rules and users, except through an
\* Update that refused a user's name or was cut off after deleting them, or when a Toggle
\* has saved again, as it had read it in the middle of an Update, a host deleted since.
NoHalfHost ==
  Quiet /\ ~revived => \A h \in Hosts : Exists(h) /\ ~db[h].whole =>
             \E c \in Calls : target[c] = h /\ pc[c] \in {"refused", "lost"}

\* "Restore old Caddyfile so Caddy stays on the last known-good config": once
\* another request was answered, with no editor and auto_reload on, what a rollback
\* restores is what Caddy runs.
KnownGoodRestored ==
  [][\A c, d \in Calls :
       pc[c] = "rollback" /\ pc'[c] = "failed" /\ pc[d] = "ok" /\ running => file' = live]_vars

\* "Toggle enables/disables a host", "Update modifies an existing host": only Create
\* brings a host into the database.
OnlyCreateAddsHosts ==
  [][\A h \in Hosts : ~Exists(h) /\ Exists(h)' =>
       \E c \in Calls : pc[c] = "idle" /\ pc'[c] = "list"]_vars
=============================================================================
