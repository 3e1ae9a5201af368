------------------------------- MODULE Databases -------------------------------
(***************************************************************************)
(* The database plugin (src/plugins/database): instances in Docker, each a *)
(* row, a directory with a compose file and the root password in .env, a   *)
(* container and a volume, and the logical databases and users within.     *)
(* Directory, container and volume are named after the slug of the         *)
(* instance's name, so two names may mean the same ones.                   *)
(*                                                                         *)
(* No request takes a lock: what it has checked may have changed by its    *)
(* next step. A root password is named after the request that brought it.  *)
(* Ports are left out: they are checked like slugs.                        *)
(***************************************************************************)
EXTENDS Naturals, FiniteSets

CONSTANTS DbNames,   \* names of instances
          DbSlugOf,  \* sanitizeName
          DbReqs     \* requests in progress, each of them made once

ASSUME DbAssumption == DOMAIN DbSlugOf = DbNames /\ "none" \notin DbNames \cup DbReqs

DbSlugs == {DbSlugOf[n] : n \in DbNames}
DbNone == "none"
Objects == {"database", "user"}

VARIABLES dbRow,     \* per name, the root password of the row, or DbNone
          dbListed,  \* rows of logical databases and users: <<name, object>>
          dbDir,     \* per slug, the password in the directory's .env, or DbNone
          dbCont,    \* per slug, the container: "none", "made" or "up"
          dbVol,     \* per slug, the password the volume was initialised with, or DbNone
          dbInside,  \* what the volume holds: <<slug, object>>
          dbReq,     \* the requests: step, name and object
          dbUnsure   \* slugs where two requests met, a rollback left a volume, or the panel
                     \* died in the middle of a request

dbVars == <<dbRow, dbListed, dbDir, dbCont, dbVol, dbInside, dbReq, dbUnsure>>

DbSteps == {"new", "write", "insert", "up", "rollback", "erase", "wipe", "drop", "list", "grant",
            "undo", "unlist", "done"}

DbTypeOK ==
  /\ dbRow \in [DbNames -> DbReqs \cup {DbNone}]
  /\ dbListed \subseteq DbNames \X Objects
  /\ dbDir \in [DbSlugs -> DbReqs \cup {DbNone}]
  /\ dbCont \in [DbSlugs -> {"none", "made", "up"}]
  /\ dbVol \in [DbSlugs -> DbReqs \cup {DbNone}]
  /\ dbInside \subseteq DbSlugs \X Objects
  /\ dbReq \in [DbReqs -> [step : DbSteps, name : DbNames \cup {DbNone}, object : Objects \cup {DbNone}]]
  /\ dbUnsure \subseteq DbSlugs

DbInit ==
  /\ dbRow = [n \in DbNames |-> DbNone] /\ dbListed = {}
  /\ dbDir = [s \in DbSlugs |-> DbNone] /\ dbCont = [s \in DbSlugs |-> "none"]
  /\ dbVol = [s \in DbSlugs |-> DbNone] /\ dbInside = {}
  /\ dbReq = [r \in DbReqs |-> [step |-> "new", name |-> DbNone, object |-> DbNone]]
  /\ dbUnsure = {}

Slug(r) == DbSlugOf[dbReq[r].name]
AtWork(s) == \E r \in DbReqs : dbReq[r].step \notin {"new", "done"} /\ Slug(r) = s

DbStep(r, step) == dbReq' = [dbReq EXCEPT ![r].step = step]

\* A request for the instance n begins. It is remembered if another one is at work there.
DbBegin(r, step, n, object) ==
  /\ dbReq[r].step = "new"
  /\ dbReq' = [dbReq EXCEPT ![r] = [step |-> step, name |-> n, object |-> object]]
  /\ dbUnsure' = dbUnsure \cup {s \in {DbSlugOf[n]} : AtWork(s)}

-----------------------------------------------------------------------------
(* docker compose, in the directory of the instance.                       *)

\* "up -d": the container runs with the directory's password; an empty volume is
\* initialised with it, another one keeps its own.
ComposeUp(s) ==
  /\ dbCont' = [dbCont EXCEPT ![s] = "up"]
  /\ dbVol' = [dbVol EXCEPT ![s] = IF @ = DbNone THEN dbDir[s] ELSE @]

\* It may fail before or after it has made the container and its volume.
ComposeUpFails(s) ==
  \/ UNCHANGED <<dbCont, dbVol>>
  \/ /\ dbCont' = [dbCont EXCEPT ![s] = "made"]
     /\ dbVol' = [dbVol EXCEPT ![s] = IF @ = DbNone THEN dbDir[s] ELSE @]

DownKeepsVolume(s) == dbCont' = [dbCont EXCEPT ![s] = "none"] /\ UNCHANGED <<dbVol, dbInside>>

\* "down --volumes".
ComposeDownVolumes(s) ==
  /\ dbCont' = [dbCont EXCEPT ![s] = "none"]
  /\ dbVol' = [dbVol EXCEPT ![s] = DbNone]
  /\ dbInside' = {x \in dbInside : x[1] # s}

-----------------------------------------------------------------------------
(* Creation and deletion of an instance.                                   *)

\* No row has the name, or another name with its slug.
CreateInstance(r) ==
  /\ \E n \in DbNames :
       /\ \A m \in DbNames : dbRow[m] # DbNone => DbSlugOf[m] # DbSlugOf[n]
       /\ DbBegin(r, "write", n, DbNone)
  /\ UNCHANGED <<dbRow, dbListed, dbDir, dbCont, dbVol, dbInside>>

\* The directory, the compose file and .env. A failure leaves what has been written.
WriteInstance(r) ==
  /\ dbReq[r].step = "write"
  /\ \/ dbDir' = [dbDir EXCEPT ![Slug(r)] = r] /\ DbStep(r, "insert")
     \/ UNCHANGED dbDir /\ DbStep(r, "done")
  /\ UNCHANGED <<dbRow, dbListed, dbCont, dbVol, dbInside, dbUnsure>>

\* The row: a name is unique in the table, a slug is not. AutoStart is optional.
InsertInstance(r) ==
  /\ dbReq[r].step = "insert"
  /\ LET n == dbReq[r].name IN
       IF dbRow[n] # DbNone
       THEN DbStep(r, "done") /\ UNCHANGED dbRow
       ELSE /\ dbRow' = [dbRow EXCEPT ![n] = r]
            /\ \E step \in {"up", "done"} : DbStep(r, step)
  /\ UNCHANGED <<dbListed, dbDir, dbCont, dbVol, dbInside, dbUnsure>>

AutoStart(r) ==
  /\ dbReq[r].step = "up"
  /\ \/ dbDir[Slug(r)] # DbNone /\ ComposeUp(Slug(r)) /\ DbStep(r, "done")
     \/ ComposeUpFails(Slug(r)) /\ DbStep(r, "rollback")
  /\ UNCHANGED <<dbRow, dbListed, dbDir, dbInside, dbUnsure>>

\* The rows go, then the directory. Container and volume stay.
RollbackInstance(r) ==
  /\ dbReq[r].step = "rollback" /\ DbStep(r, "erase")
  /\ dbRow' = [dbRow EXCEPT ![dbReq[r].name] = DbNone]
  /\ dbListed' = {x \in dbListed : x[1] # dbReq[r].name}
  /\ dbUnsure' = dbUnsure \cup {s \in {Slug(r)} : dbVol[s] # DbNone}
  /\ UNCHANGED <<dbDir, dbCont, dbVol, dbInside>>

EraseDirectory(r) ==
  /\ dbReq[r].step = "erase" /\ DbStep(r, "done")
  /\ dbDir' = [dbDir EXCEPT ![Slug(r)] = DbNone]
  /\ UNCHANGED <<dbRow, dbListed, dbCont, dbVol, dbInside, dbUnsure>>

\* DeleteInstance: container and volume first; if that fails, which it does without the
\* directory, everything is kept.
DeleteInstance(r) ==
  /\ \E n \in DbNames :
       /\ dbRow[n] # DbNone
       /\ LET s == DbSlugOf[n] IN
            \/ dbDir[s] # DbNone /\ ComposeDownVolumes(s) /\ DbBegin(r, "wipe", n, DbNone)
            \/ DbBegin(r, "done", n, DbNone) /\ UNCHANGED <<dbCont, dbVol, dbInside>>
  /\ UNCHANGED <<dbRow, dbListed, dbDir>>

\* Then the directory, then the rows.
WipeInstance(r) ==
  /\ dbReq[r].step = "wipe" /\ DbStep(r, "drop")
  /\ dbDir' = [dbDir EXCEPT ![Slug(r)] = DbNone]
  /\ UNCHANGED <<dbRow, dbListed, dbCont, dbVol, dbInside, dbUnsure>>

DropInstance(r) ==
  /\ dbReq[r].step = "drop" /\ DbStep(r, "done")
  /\ dbRow' = [dbRow EXCEPT ![dbReq[r].name] = DbNone]
  /\ dbListed' = {x \in dbListed : x[1] # dbReq[r].name}
  /\ UNCHANGED <<dbDir, dbCont, dbVol, dbInside, dbUnsure>>

-----------------------------------------------------------------------------
(* Start, stop and restart: one call of docker compose each.               *)

DbLifecycle(r, n) ==
  /\ dbRow[n] # DbNone /\ dbDir[DbSlugOf[n]] # DbNone
  /\ DbBegin(r, "done", n, DbNone)
  /\ UNCHANGED <<dbRow, dbListed, dbDir, dbInside>>

StartInstance(r) ==
  \E n \in DbNames : /\ DbLifecycle(r, n)
                     /\ ComposeUp(DbSlugOf[n]) \/ ComposeUpFails(DbSlugOf[n])

StopInstance(r) ==
  \E n \in DbNames : /\ DbLifecycle(r, n)
                     /\ dbCont' = [dbCont EXCEPT ![DbSlugOf[n]] = "none"] /\ UNCHANGED dbVol

RestartInstance(r) ==
  \E n \in DbNames : /\ DbLifecycle(r, n)
                     /\ dbCont' = [dbCont EXCEPT ![DbSlugOf[n]] = IF @ = "none" THEN @ ELSE "up"]
                     /\ UNCHANGED dbVol

-----------------------------------------------------------------------------
(* Logical databases and users: the engine first, then the row.            *)

\* A statement reaches the engine of a running instance if the row has its password.
Reachable(n) ==
  /\ dbRow[n] # DbNone /\ dbCont[DbSlugOf[n]] = "up"
  /\ dbVol[DbSlugOf[n]] = dbRow[n]

DbOnlyEngine == UNCHANGED <<dbRow, dbListed, dbDir, dbCont, dbVol>>
Inside(n, x) == <<DbSlugOf[n], x>>

\* CREATE DATABASE and CREATE USER are refused for what is there already.
CreateDatabase(r) ==
  /\ \E n \in DbNames : /\ Reachable(n) /\ Inside(n, "database") \notin dbInside
                        /\ dbInside' = dbInside \cup {Inside(n, "database")}
                        /\ DbBegin(r, "list", n, "database")
  /\ DbOnlyEngine

CreateDbUser(r) ==
  /\ \E n \in DbNames : /\ Reachable(n) /\ Inside(n, "user") \notin dbInside
                        /\ dbInside' = dbInside \cup {Inside(n, "user")}
                        /\ DbBegin(r, "grant", n, "user")
  /\ DbOnlyEngine

\* The core API, in one call for another plugin: what is there already is left alone, and no
\* row lists what is not.
CoreCreate(r) ==
  /\ \E n \in DbNames, x \in Objects : /\ Reachable(n) /\ dbInside' = dbInside \cup {Inside(n, x)}
                                        /\ DbBegin(r, "done", n, x)
  /\ DbOnlyEngine

\* The grants; if one fails the user is dropped again, whose failure is ignored.
GrantAll(r) ==
  /\ \/ dbReq[r].step = "grant" /\ (\E step \in {"list", "undo"} : DbStep(r, step)) /\ UNCHANGED dbInside
     \/ /\ dbReq[r].step = "undo" /\ DbStep(r, "done")
        /\ dbInside' \in {dbInside, dbInside \ {<<Slug(r), "user">>}}
  /\ UNCHANGED dbUnsure /\ DbOnlyEngine

ListObject(r) ==
  /\ dbReq[r].step = "list" /\ DbStep(r, "done")
  /\ dbListed' = dbListed \cup {<<dbReq[r].name, dbReq[r].object>>}
  /\ UNCHANGED <<dbRow, dbDir, dbCont, dbVol, dbInside, dbUnsure>>

\* DeleteDatabase and DeleteUser: DROP is refused for what is not there, and the row stays.
DropObject(r) ==
  /\ \E n \in DbNames, x \in Objects :
       /\ Reachable(n) /\ Inside(n, x) \in dbInside
       /\ dbInside' = dbInside \ {Inside(n, x)}
       /\ DbBegin(r, "unlist", n, x)
  /\ DbOnlyEngine

UnlistObject(r) ==
  /\ dbReq[r].step = "unlist" /\ DbStep(r, "done")
  /\ dbListed' = dbListed \ {<<dbReq[r].name, dbReq[r].object>>}
  /\ UNCHANGED <<dbRow, dbDir, dbCont, dbVol, dbInside, dbUnsure>>

-----------------------------------------------------------------------------
\* The panel dies: the requests end where they are. Docker goes on.
DbPanelDies ==
  /\ \E r \in DbReqs : dbReq[r].step \notin {"new", "done"}
  /\ dbUnsure' = dbUnsure \cup {s \in DbSlugs : AtWork(s)}
  /\ dbReq' = [r \in DbReqs |-> IF dbReq[r].step = "new" THEN dbReq[r] ELSE [dbReq[r] EXCEPT !.step = "done"]]
  /\ UNCHANGED <<dbRow, dbListed, dbDir, dbCont, dbVol, dbInside>>

DbNext ==
  \/ \E r \in DbReqs :
       \/ CreateInstance(r) \/ WriteInstance(r) \/ InsertInstance(r) \/ AutoStart(r)
       \/ RollbackInstance(r) \/ EraseDirectory(r) \/ DeleteInstance(r) \/ WipeInstance(r)
       \/ DropInstance(r) \/ StartInstance(r) \/ StopInstance(r) \/ RestartInstance(r)
       \/ CreateDatabase(r) \/ CreateDbUser(r) \/ CoreCreate(r) \/ GrantAll(r) \/ ListObject(r)
       \/ DropObject(r) \/ UnlistObject(r)
  \/ DbPanelDies

DbSpec == DbInit /\ [][DbNext]_dbVars

-----------------------------------------------------------------------------

\* An instance with a row can be used: its directory is there with its password, no other
\* row shares its slug, its volume was initialised with its password and not an older
\* instance's, and it holds what the plugin lists, unless two requests met at its slug, a
\* rollback left a volume there, or the panel died in the middle of a request.
DbWhole ==
  \A n \in DbNames :
    LET s == DbSlugOf[n] IN
      dbRow[n] # DbNone /\ s \notin dbUnsure /\ ~AtWork(s) =>
        /\ dbDir[s] = dbRow[n]
        /\ \A m \in DbNames \ {n} : dbRow[m] # DbNone => DbSlugOf[m] # s
        /\ dbVol[s] \in {DbNone, dbRow[n]}
        /\ \A x \in Objects : <<n, x>> \in dbListed => <<s, x>> \in dbInside
=============================================================================
