------------------------------ MODULE PhpRuntimes ------------------------------
(***************************************************************************)
(* A PHP-FPM runtime of the PHP plugin (src/plugins/php): a row that holds *)
(* the php.ini, pool and extension settings, a directory with the files    *)
(* generated from them, and a container that reads the files when it is    *)
(* restarted or rebuilt. A version has one runtime; this is one version.   *)
(*                                                                         *)
(* No request takes a lock. A request that changes the runtime works on    *)
(* the copy of the row it has read, writes the files and saves the whole   *)
(* copy; if the container then fails it puts things back. A setting is     *)
(* named after the request that brought it.                                *)
(***************************************************************************)
EXTENDS Naturals, FiniteSets

CONSTANTS PhpReqs,   \* what serves requests about the runtime, one at a time each
          PhpExts,   \* extensions
          PhpNames   \* names of sites

VARIABLES phpRow,     \* the runtime's row
          phpDir,     \* the settings in its directory
          phpCont,    \* its container: "none", "made" or "up"
          phpReq,     \* the requests: operation, step, the row's copy and what there was
          phpSite,    \* the rows of sites, which PhpSites writes
          phpUnsure   \* two requests have met, one was given up half-way, or the panel died in one

phpVars == <<phpRow, phpDir, phpCont, phpReq, phpSite, phpUnsure>>

PhpSettings == [there : BOOLEAN, ini : PhpReqs \cup {"default"}, fpm : PhpReqs \cup {"default"},
                ext : SUBSET PhpExts]
NoPhp == [there |-> FALSE, ini |-> "default", fpm |-> "default", ext |-> {}]
FreshPhp(ext) == [there |-> TRUE, ini |-> "default", fpm |-> "default", ext |-> ext]

PhpOps == {"none", "create", "delete", "lifecycle", "config", "install", "remove"}
PhpSteps == {"write", "insert", "up", "unrow", "erase", "ini", "fpm", "save", "restart",
             "putback", "rewrite", "dockerfile", "rebuild", "done", "failed"}

PhpSiteRow == [there : BOOLEAN, kind : {"fpm", "franken"}, domain : STRING, host : STRING]
NoPhpSite == [there |-> FALSE, kind |-> "fpm", domain |-> "none", host |-> "none"]

PhpTypeOK ==
  /\ phpRow \in PhpSettings /\ phpDir \in PhpSettings
  /\ phpCont \in {"none", "made", "up"}
  /\ phpReq \in [PhpReqs -> [op : PhpOps, step : PhpSteps, parts : SUBSET {"ini", "fpm"},
                             copy : PhpSettings, was : PhpSettings, old : PhpSettings, met : BOOLEAN]]
  /\ phpUnsure \in BOOLEAN

\* Between requests: the last one has ended, or failed and put things back.
PhpRest(step) == [op |-> "none", step |-> step, parts |-> {}, copy |-> NoPhp,
                  was |-> NoPhp, old |-> NoPhp, met |-> FALSE]

PhpInit ==
  /\ \/ phpRow = NoPhp /\ phpDir = NoPhp /\ phpCont = "none"
     \/ \E ext \in SUBSET PhpExts : /\ phpRow = FreshPhp(ext) /\ phpDir = FreshPhp(ext)
                                    /\ phpCont \in {"none", "up"}
  /\ phpReq = [r \in PhpReqs |-> PhpRest("done")]
  /\ phpSite = [n \in PhpNames |-> NoPhpSite]
  /\ phpUnsure = FALSE

PhpEnded == {"done", "failed"}
PhpBusy == \E r \in PhpReqs : phpReq[r].step \notin PhpEnded

PhpAt(r, step) == phpReq[r].step = step
PhpGo(r, step) ==
  phpReq' = [phpReq EXCEPT ![r] = IF step \in PhpEnded THEN PhpRest(step) ELSE [@ EXCEPT !.step = step]]

\* A request begins with the copy it will save. Those it meets remember that it came.
PhpBegin(r, op, step, parts, copy) ==
  /\ phpReq[r].step \in PhpEnded
  /\ phpReq' = [q \in PhpReqs |->
       IF q = r /\ step = "done" THEN PhpRest("done")
       ELSE IF q = r
       THEN [op |-> op, step |-> step, parts |-> parts, copy |-> copy,
             was |-> phpRow, old |-> NoPhp, met |-> PhpBusy]
       ELSE [phpReq[q] EXCEPT !.met = @ \/ phpReq[q].step \notin PhpEnded]]
  /\ phpUnsure' = (phpUnsure \/ PhpBusy)

\* docker compose in the runtime's directory, which may be gone: it may fail at any point.
PhpUp == phpDir.there /\ phpCont' = "up"
PhpUpFails == phpCont' \in {phpCont, "made"}

-----------------------------------------------------------------------------
(* Creation and deletion.                                                  *)

\* No runtime of the version has a row. The port is left out.
CreateRuntime(r) ==
  /\ ~phpRow.there
  /\ \E ext \in SUBSET PhpExts : PhpBegin(r, "create", "write", {}, FreshPhp(ext))
  /\ UNCHANGED <<phpRow, phpDir, phpCont, phpSite>>

\* The files, all of them generated from the defaults; a failure leaves what there is.
WriteRuntime(r) ==
  /\ PhpAt(r, "write")
  /\ \/ phpDir' = phpReq[r].copy /\ PhpGo(r, "insert") /\ phpUnsure' = phpReq[r].met
     \/ UNCHANGED <<phpDir, phpUnsure>> /\ PhpGo(r, "done")
  /\ UNCHANGED <<phpRow, phpCont, phpSite>>

\* The row. Another request for the version has taken the same port, which is unique: the
\* insert then fails, and the files it has overwritten stay as they are.
InsertRuntime(r) ==
  /\ PhpAt(r, "insert")
  /\ IF phpRow.there
     THEN PhpGo(r, "done") /\ UNCHANGED phpRow
     ELSE phpRow' = phpReq[r].copy /\ \E step \in {"up", "done"} : PhpGo(r, step)
  /\ UNCHANGED <<phpDir, phpCont, phpSite, phpUnsure>>

AutoStartRuntime(r) ==
  /\ PhpAt(r, "up")
  /\ \/ PhpUp /\ PhpGo(r, "done")
     \/ PhpUpFails /\ PhpGo(r, "unrow")
  /\ UNCHANGED <<phpRow, phpDir, phpSite, phpUnsure>>

\* The rollback of a creation, and the end of a deletion: row and directory, in the order
\* of each. The container that a failed start has made stays.
DropRuntimeRow(r) ==
  /\ PhpAt(r, "unrow")
  /\ phpRow' = NoPhp
  /\ PhpGo(r, IF phpReq[r].op = "create" THEN "erase" ELSE "done")
  /\ UNCHANGED <<phpDir, phpCont, phpSite, phpUnsure>>

EraseRuntimeDir(r) ==
  /\ PhpAt(r, "erase")
  /\ phpDir' = NoPhp
  /\ PhpGo(r, IF phpReq[r].op = "create" THEN "done" ELSE "unrow")
  /\ UNCHANGED <<phpRow, phpCont, phpSite, phpUnsure>>

\* A runtime that a site uses is kept, and so is one whose container does not go down,
\* which it does not without its directory.
DeleteRuntime(r) ==
  /\ phpRow.there
  /\ \A n \in PhpNames : ~(phpSite[n].there /\ phpSite[n].kind = "fpm")
  /\ \/ phpDir.there /\ phpCont' = "none" /\ PhpBegin(r, "delete", "erase", {}, NoPhp)
     \/ UNCHANGED phpCont /\ PhpBegin(r, "delete", "done", {}, NoPhp)
  /\ UNCHANGED <<phpRow, phpDir, phpSite>>

-----------------------------------------------------------------------------
(* Start, stop and restart: the row is read, then one call of compose.     *)

PhpLifecycle(r) ==
  /\ phpRow.there /\ phpDir.there
  /\ PhpBegin(r, "lifecycle", "done", {}, NoPhp)
  /\ UNCHANGED <<phpRow, phpDir, phpSite>>

StartRuntime(r) == PhpLifecycle(r) /\ (PhpUp \/ PhpUpFails)
StopRuntime(r) == PhpLifecycle(r) /\ phpCont' = "none"
RestartRuntime(r) == PhpLifecycle(r) /\ phpCont' = IF phpCont = "none" THEN "none" ELSE "up"

-----------------------------------------------------------------------------
(* The configuration: php.ini, the pool, or both; Optimize is a pool.      *)

UpdateConfig(r) ==
  /\ phpRow.there
  /\ \E parts \in SUBSET {"ini", "fpm"} : PhpBegin(r, "config", "ini", parts, phpRow)
  /\ UNCHANGED <<phpRow, phpDir, phpCont, phpSite>>

\* A part is validated, then written at once; the file it replaces is kept in memory.
WriteIni(r) ==
  /\ PhpAt(r, "ini")
  /\ IF "ini" \in phpReq[r].parts
     THEN \/ /\ phpDir.there /\ phpDir' = [phpDir EXCEPT !.ini = r]
             /\ phpReq' = [phpReq EXCEPT ![r].copy.ini = r, ![r].old = phpDir, ![r].step = "fpm"]
          \/ PhpGo(r, "done") /\ UNCHANGED phpDir
     ELSE PhpGo(r, "fpm") /\ UNCHANGED phpDir
  /\ UNCHANGED <<phpRow, phpCont, phpSite, phpUnsure>>

\* A pool that is refused leaves the php.ini written just before it.
WriteFpm(r) ==
  /\ PhpAt(r, "fpm")
  /\ IF "fpm" \in phpReq[r].parts
     THEN \/ /\ phpDir.there /\ phpDir' = [phpDir EXCEPT !.fpm = r]
             /\ phpReq' = [phpReq EXCEPT ![r].copy.fpm = r, ![r].step = "save",
                                         ![r].old = [phpDir EXCEPT !.ini =
                                           IF "ini" \in phpReq[r].parts THEN phpReq[r].old.ini ELSE @]]
             /\ UNCHANGED phpUnsure
          \/ PhpGo(r, "done") /\ UNCHANGED phpDir /\ phpUnsure' = (phpUnsure \/ "ini" \in phpReq[r].parts)
     ELSE PhpGo(r, "save") /\ UNCHANGED <<phpDir, phpUnsure>>
  /\ UNCHANGED <<phpRow, phpCont, phpSite>>

\* Save writes the whole copy, and inserts the row again if it has been deleted.
SaveRuntime(r) ==
  /\ PhpAt(r, "save")
  /\ phpRow' = phpReq[r].copy
  /\ PhpGo(r, IF phpReq[r].op = "config" THEN "restart" ELSE "dockerfile")
  /\ UNCHANGED <<phpDir, phpCont, phpSite, phpUnsure>>

RestartAfterConfig(r) ==
  /\ PhpAt(r, "restart")
  /\ \/ phpDir.there /\ PhpGo(r, "done")
     \/ PhpGo(r, "putback")
  /\ UNCHANGED <<phpRow, phpDir, phpCont, phpSite, phpUnsure>>

\* The row as it was read, and the files that were read before they were overwritten.
RestoreRow(r) ==
  /\ PhpAt(r, "putback") /\ phpReq[r].op = "config"
  /\ phpRow' = [phpReq[r].copy EXCEPT !.ini = phpReq[r].was.ini, !.fpm = phpReq[r].was.fpm]
  /\ PhpGo(r, "rewrite")
  /\ UNCHANGED <<phpDir, phpCont, phpSite, phpUnsure>>

RestoreOnlyIni(r) ==
  /\ PhpAt(r, "rewrite")
  /\ phpDir' = [phpDir EXCEPT !.ini = IF phpDir.there /\ "ini" \in phpReq[r].parts THEN phpReq[r].old.ini ELSE @]
  /\ PhpGo(r, "failed")
  /\ UNCHANGED <<phpRow, phpCont, phpSite, phpUnsure>>

RestoreFiles(r) ==
  /\ PhpAt(r, "rewrite")
  /\ LET Put(part, old, new) == IF phpDir.there /\ part \in phpReq[r].parts THEN old ELSE new IN
       phpDir' = [phpDir EXCEPT !.ini = Put("ini", phpReq[r].old.ini, @),
                                !.fpm = Put("fpm", phpReq[r].old.fpm, @)]
  /\ PhpGo(r, "failed")
  /\ UNCHANGED <<phpRow, phpCont, phpSite, phpUnsure>>

-----------------------------------------------------------------------------
(* Extensions: the row first, then Dockerfile, image and container.        *)

InstallExtensions(r) ==
  /\ phpRow.there
  /\ \E new \in SUBSET PhpExts \ {{}} :
       PhpBegin(r, "install", "save", {}, [phpRow EXCEPT !.ext = @ \cup new])
  /\ UNCHANGED <<phpRow, phpDir, phpCont, phpSite>>

RemoveExtension(r) ==
  /\ phpRow.there
  /\ \E e \in phpRow.ext : PhpBegin(r, "remove", "save", {}, [phpRow EXCEPT !.ext = @ \ {e}])
  /\ UNCHANGED <<phpRow, phpDir, phpCont, phpSite>>

\* Dockerfile and compose file; without extensions the base image is used.
WriteDockerfile(r) ==
  /\ PhpAt(r, "dockerfile")
  /\ \/ phpDir.there /\ phpDir' = [phpDir EXCEPT !.ext = phpReq[r].copy.ext] /\ PhpGo(r, "rebuild")
     \/ UNCHANGED phpDir /\ PhpGo(r, "putback")
  /\ UNCHANGED <<phpRow, phpCont, phpSite, phpUnsure>>

RebuildRuntime(r) ==
  /\ PhpAt(r, "rebuild")
  /\ \/ PhpUp /\ PhpGo(r, "done")
     \/ PhpUpFails /\ PhpGo(r, "putback")
  /\ UNCHANGED <<phpRow, phpDir, phpSite, phpUnsure>>

PutBackNothing(r) ==
  /\ PhpAt(r, "putback") /\ phpReq[r].op \in {"install", "remove"}
  /\ phpRow' = phpReq[r].copy
  /\ PhpGo(r, "failed")
  /\ phpUnsure' = (phpUnsure \/ phpDir.ext # phpRow'.ext)
  /\ UNCHANGED <<phpDir, phpCont, phpSite>>

\* The rollback saves the row again, and leaves the Dockerfile. RemoveExtension saves the
\* extensions it has read; InstallExtensions has kept the merged ones as the old ones.
PutBackExtensions(r) ==
  /\ PhpAt(r, "putback") /\ phpReq[r].op \in {"install", "remove"}
  /\ phpRow' = [phpReq[r].copy EXCEPT !.ext = IF phpReq[r].op = "remove" THEN phpReq[r].was.ext ELSE @]
  /\ PhpGo(r, "failed")
  /\ phpUnsure' = (phpUnsure \/ phpDir.ext # phpRow'.ext)
  /\ UNCHANGED <<phpDir, phpCont, phpSite>>

-----------------------------------------------------------------------------
\* The panel dies: the requests end where they are. Docker goes on.
PhpPanelDies ==
  /\ PhpBusy
  /\ phpReq' = [r \in PhpReqs |-> IF phpReq[r].step \in PhpEnded THEN phpReq[r]
                                  ELSE PhpRest("done")]
  /\ phpUnsure' = TRUE
  /\ UNCHANGED <<phpRow, phpDir, phpCont, phpSite>>

RuntimeRequest(r) ==
  \/ CreateRuntime(r) \/ WriteRuntime(r) \/ InsertRuntime(r) \/ AutoStartRuntime(r)
  \/ DropRuntimeRow(r) \/ EraseRuntimeDir(r) \/ DeleteRuntime(r)
  \/ StartRuntime(r) \/ StopRuntime(r) \/ RestartRuntime(r)

SettingsRequest(r) ==
  \/ UpdateConfig(r) \/ WriteIni(r) \/ WriteFpm(r) \/ SaveRuntime(r) \/ RestartAfterConfig(r)
  \/ RestoreRow(r) \/ RestoreFiles(r) \/ InstallExtensions(r) \/ RemoveExtension(r)
  \/ WriteDockerfile(r) \/ RebuildRuntime(r) \/ PutBackExtensions(r)

PhpNext == PhpPanelDies \/ \E r \in PhpReqs : RuntimeRequest(r) \/ SettingsRequest(r)

PhpSpec == PhpInit /\ [][PhpNext]_phpVars

-----------------------------------------------------------------------------

\* What the panel shows of a runtime is what its container is built and configured with:
\* the row's settings are those of the directory's files, and a change whose restart fails
\* leaves both as they were, unless requests have met, a pool was refused after its php.ini
\* was written, a rollback left its Dockerfile, or the panel died in a request.
PhpFilesMatch ==
  phpRow.there /\ ~PhpBusy /\ ~phpUnsure => phpDir = phpRow

\* A change of the configuration and the removal of an extension that fail leave the row
\* as they found it, if no other request has met them.
PhpUndone ==
  [][\A r \in PhpReqs :
       /\ phpReq[r].step # "failed" /\ phpReq'[r].step = "failed"
       /\ phpReq[r].op \in {"config", "remove"} /\ ~phpReq[r].met
       => phpRow' = phpReq[r].was]_phpVars
=============================================================================
