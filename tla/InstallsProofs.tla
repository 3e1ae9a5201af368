--------------------------- MODULE InstallsProofs ---------------------------
(***************************************************************************)
(* Proofs about what the panel installs and keeps a row of: database       *)
(* instances (DbInv), apps of the store (AppInv), PHP runtimes (PhpInv)    *)
(* and PHP sites (SiteInv).  Each invariant says what a request knows at   *)
(* each of its steps, by phases that name their request and its record as  *)
(* constants, so that a step need only look at its own; PlatformProofs     *)
(* puts them together.  The values of the constants are any that the named *)
(* assumptions of the modules allow.                                       *)
(***************************************************************************)
EXTENDS Databases, PhpSites, AppStore, TLAPS

-----------------------------------------------------------------------------
(* Database instances.                                                     *)

Works(r, s) == dbReq[r].step \notin {"new", "done"} /\ Slug(r) = s
SlugNames(s) == {n \in DbNames : DbSlugOf[n] = s}
HasRow(n) == dbRow[n] # DbNone

\* What holds of a slug where one request is at work, or the last one is done: t is its step,
\* o its object.
SlugWith(s, t, o) ==
  /\ \A n, m \in SlugNames(s) : HasRow(n) /\ HasRow(m) => n = m
  /\ (\A n \in SlugNames(s) : ~HasRow(n)) => dbVol[s] = DbNone
  /\ \A n \in SlugNames(s) :
       /\ ~HasRow(n) => \A x \in Objects : <<n, x>> \notin dbListed
       /\ HasRow(n) => dbVol[s] \in {DbNone, dbRow[n]} /\ (dbDir[s] = dbRow[n] \/ t = "drop")
       /\ \A x \in Objects : <<n, x>> \in dbListed =>
            <<s, x>> \in dbInside \/ t \in {"wipe", "drop"} \/ (t = "unlist" /\ o = x)

\* What the request r for the instance n knows at its step t.
DbPhase(s, r, t, n, o) ==
  /\ t \in {"write", "insert", "erase"} => \A m \in SlugNames(s) : ~HasRow(m)
  /\ t = "insert" => dbDir[s] = r
  /\ t \in {"up", "rollback", "wipe", "drop", "list", "grant", "undo", "unlist"} => HasRow(n)
  /\ t \in {"wipe", "drop"} => dbVol[s] = DbNone
  /\ t \in {"list", "grant", "undo"} => <<s, o>> \in dbInside
  /\ t \in {"grant", "undo"} => o = "user" /\ <<n, "user">> \notin dbListed

ObjectSteps == {"list", "grant", "undo", "unlist"}

SlugSound(s) ==
  /\ \A q, r \in DbReqs : Works(q, s) /\ Works(r, s) => q = r
  /\ ~AtWork(s) => SlugWith(s, "done", DbNone)
  /\ \A r \in DbReqs : Works(r, s) => SlugWith(s, dbReq[r].step, dbReq[r].object)
                                         /\ DbPhase(s, r, dbReq[r].step, dbReq[r].name, dbReq[r].object)

DbInv ==
  /\ DbTypeOK
  /\ \A r \in DbReqs : /\ dbReq[r].step # "new" => dbReq[r].name \in DbNames
                       /\ dbReq[r].step \in ObjectSteps => dbReq[r].object \in Objects
  /\ \A s \in DbSlugs \ dbUnsure : SlugSound(s)

LEMMA SlugsAre == /\ \A n \in DbNames : DbSlugOf[n] \in DbSlugs /\ n \in SlugNames(DbSlugOf[n])
                  /\ \A s \in DbSlugs : \A n \in SlugNames(s) : n \in DbNames /\ DbSlugOf[n] = s
  BY DEF DbSlugs, SlugNames

LEMMA DbInvSound == DbInv => DbWhole
<1>. SUFFICES ASSUME DbInv, NEW n \in DbNames, HasRow(n), DbSlugOf[n] \notin dbUnsure, ~AtWork(DbSlugOf[n])
              PROVE  LET s == DbSlugOf[n] IN
                       /\ dbDir[s] = dbRow[n]
                       /\ \A m \in DbNames \ {n} : dbRow[m] # DbNone => DbSlugOf[m] # s
                       /\ dbVol[s] \in {DbNone, dbRow[n]}
                       /\ \A x \in Objects : <<n, x>> \in dbListed => <<s, x>> \in dbInside
  BY DEF DbWhole, HasRow
<1>1. SlugWith(DbSlugOf[n], "done", DbNone)
  BY SlugsAre DEF DbInv, SlugSound
<1>2. QED
  BY <1>1, SlugsAre DEF SlugWith, SlugNames, HasRow

LEMMA DbInvInit == DbInit => DbInv
<1>. SUFFICES ASSUME DbInit PROVE DbInv
  OBVIOUS
<1>1. DbTypeOK
  BY DEF DbInit, DbTypeOK, DbSteps
<1>2. ASSUME NEW s \in DbSlugs PROVE SlugSound(s)
  <2>1. \A n \in SlugNames(s) : ~HasRow(n) /\ \A x \in Objects : <<n, x>> \notin dbListed
    BY DEF DbInit, HasRow, SlugNames
  <2>2. dbVol[s] = DbNone /\ \A r \in DbReqs : dbReq[r].step = "new"
    BY DEF DbInit
  <2>3. SlugWith(s, "done", DbNone)
    BY <2>1, <2>2 DEF SlugWith
  <2>4. QED
    BY <2>2, <2>3 DEF SlugSound, Works
<1>3. QED
  BY <1>1, <1>2 DEF DbInv, DbInit, ObjectSteps

\* Rows, directory, container, volume and content of the other slugs are as before.
Elsewhere(S) ==
  /\ \A n \in DbNames : DbSlugOf[n] # S =>
       dbRow'[n] = dbRow[n] /\ \A x \in Objects : <<n, x>> \in dbListed' <=> <<n, x>> \in dbListed
  /\ \A s \in DbSlugs : s # S =>
       dbDir'[s] = dbDir[s] /\ dbVol'[s] = dbVol[s] /\ \A x \in Objects : <<s, x>> \in dbInside' <=> <<s, x>> \in dbInside

\* The request r is now at the step t, for the instance n and the object o.
LEMMA DbMove ==
  ASSUME DbInv, NEW r \in DbReqs, NEW t \in DbSteps, NEW n \in DbNames, NEW o,
         dbReq' = [dbReq EXCEPT ![r] = [step |-> t, name |-> n, object |-> o]], t # "new",
         t \in ObjectSteps => o \in Objects,
         dbReq[r].step = "new" \/ Works(r, DbSlugOf[n]),
         DbTypeOK', dbUnsure \subseteq dbUnsure', Elsewhere(DbSlugOf[n]),
         DbSlugOf[n] \notin dbUnsure' =>
           /\ \A q \in DbReqs : Works(q, DbSlugOf[n]) => q = r
           /\ SlugWith(DbSlugOf[n], t, o)'
           /\ t # "done" => DbPhase(DbSlugOf[n], r, t, n, o)'
  PROVE  DbInv'
<1>. DEFINE k == [step |-> t, name |-> n, object |-> o]
<1>. PICK S \in DbSlugs : S = DbSlugOf[n]
  BY SlugsAre
<1>1. \A q \in DbReqs : dbReq'[q] = IF q = r THEN k ELSE dbReq[q]
  BY DEF DbInv, DbTypeOK
<1>2. \A q \in DbReqs : /\ dbReq'[q].step # "new" => dbReq'[q].name \in DbNames
                        /\ dbReq'[q].step \in ObjectSteps => dbReq'[q].object \in Objects
  BY <1>1, SlugsAre DEF DbInv
<1>3. \A q \in DbReqs, s \in DbSlugs : Works(q, s)' <=> IF q = r THEN t # "done" /\ s = S ELSE Works(q, s)
  BY <1>1, SlugsAre DEF Works, Slug
<1>4. ASSUME NEW s \in DbSlugs, s \notin dbUnsure', s # S PROVE SlugSound(s)'
  <2>1. SlugSound(s)
    BY <1>4 DEF DbInv
  <2>2. \A q \in DbReqs : Works(q, s)' <=> Works(q, s)
    BY <1>3, <1>4 DEF Works
  <2>3. \A q \in DbReqs : Works(q, s) => dbReq'[q] = dbReq[q]
    BY <1>1, <1>4 DEF Works
  <2>4. \A m \in SlugNames(s) : m \in DbNames /\ dbRow'[m] = dbRow[m] /\ \A x \in Objects : <<m, x>> \in dbListed' <=> <<m, x>> \in dbListed
    BY <1>4, SlugsAre DEF Elsewhere
  <2>5. dbDir'[s] = dbDir[s] /\ dbVol'[s] = dbVol[s] /\ \A x \in Objects : <<s, x>> \in dbInside' <=> <<s, x>> \in dbInside
    BY <1>4 DEF Elsewhere
  <2>6. ASSUME NEW u, NEW p, SlugWith(s, u, p) PROVE SlugWith(s, u, p)'
    BY <2>4, <2>5, <2>6 DEF SlugWith, HasRow, SlugNames
  <2>7. ASSUME NEW q \in DbReqs, NEW u, NEW m \in SlugNames(s), NEW p, u \in ObjectSteps => p \in Objects,
               DbPhase(s, q, u, m, p)
        PROVE  DbPhase(s, q, u, m, p)'
    <3>1. "user" \in Objects
      BY DEF Objects
    <3>2. QED
      BY <2>4, <2>5, <2>7, <3>1 DEF DbPhase, HasRow, SlugNames, ObjectSteps
  <2>8. AtWork(s)' <=> AtWork(s)
    BY <2>2 DEF AtWork, Works
  <2>9. ASSUME NEW q \in DbReqs, Works(q, s)'
        PROVE  (SlugWith(s, dbReq[q].step, dbReq[q].object) /\ DbPhase(s, q, dbReq[q].step, dbReq[q].name, dbReq[q].object))'
    <3>1. PICK u, m, p : u = dbReq[q].step /\ m = dbReq[q].name /\ p = dbReq[q].object
      OBVIOUS
    <3>2. dbReq'[q] = dbReq[q] /\ Works(q, s)
      BY <2>2, <2>3, <2>9
    <3>3. m \in SlugNames(s) /\ (u \in ObjectSteps => p \in Objects)
      BY <3>1, <3>2 DEF Works, Slug, DbInv, SlugNames
    <3>4. SlugWith(s, u, p) /\ DbPhase(s, q, u, m, p)
      BY <2>1, <3>1, <3>2 DEF SlugSound
    <3>5. SlugWith(s, u, p)' /\ DbPhase(s, q, u, m, p)'
      BY <2>6, <2>7, <3>3, <3>4
    <3>6. u = dbReq'[q].step /\ m = dbReq'[q].name /\ p = dbReq'[q].object
      BY <3>1, <3>2
    <3>7. QED
      BY <3>5, <3>6
  <2>10. QED
    BY <2>1, <2>2, <2>6, <2>8, <2>9 DEF SlugSound
<1>5. ASSUME S \notin dbUnsure' PROVE SlugSound(S)'
  <2>1. \A q \in DbReqs : Works(q, S) => q = r
    BY <1>5
  <2>2. SlugWith(S, t, o)' /\ (t # "done" => DbPhase(S, r, t, n, o)')
    BY <1>5
  <2>3. \A q \in DbReqs : Works(q, S)' => q = r
    BY <1>3, <2>1
  <2>4. AtWork(S)' <=> t # "done"
    BY <1>3, <2>1 DEF AtWork, Works
  <2>5. t = "done" => SlugWith(S, "done", DbNone)'
    BY <2>2 DEF SlugWith
  <2>6. dbReq'[r].step = t /\ dbReq'[r].name = n /\ dbReq'[r].object = o
    BY <1>1
  <2>7. ASSUME NEW q \in DbReqs, Works(q, S)'
        PROVE  (SlugWith(S, dbReq[q].step, dbReq[q].object) /\ DbPhase(S, q, dbReq[q].step, dbReq[q].name, dbReq[q].object))'
    BY <1>3, <2>2, <2>3, <2>6, <2>7
  <2>8. QED
    BY <2>3, <2>4, <2>5, <2>7 DEF SlugSound
<1>6. QED
  BY <1>2, <1>4, <1>5 DEF DbInv

\* A request begins.
LEMMA DbBegins ==
  ASSUME DbInv, NEW r \in DbReqs, NEW n \in DbNames, NEW t \in DbSteps, NEW o,
         DbBegin(r, t, n, o), t # "new", t \in ObjectSteps => o \in Objects, DbTypeOK', Elsewhere(DbSlugOf[n]),
         SlugWith(DbSlugOf[n], "done", DbNone) =>
           SlugWith(DbSlugOf[n], t, o)' /\ (t # "done" => DbPhase(DbSlugOf[n], r, t, n, o)')
  PROVE  DbInv'
<1>. PICK S \in DbSlugs : S = DbSlugOf[n]
  BY SlugsAre
<1>1. dbReq[r].step = "new" /\ dbUnsure' = dbUnsure \cup {s \in {S} : AtWork(s)}
  BY DEF DbBegin
<1>2. dbReq' = [dbReq EXCEPT ![r] = [step |-> t, name |-> n, object |-> o]]
  BY DEF DbBegin
<1>3. S \notin dbUnsure' => S \notin dbUnsure /\ \A q \in DbReqs : ~Works(q, S)
  BY <1>1 DEF AtWork, Works
<1>4. S \notin dbUnsure' => SlugWith(S, "done", DbNone)
  BY <1>3 DEF DbInv, SlugSound, AtWork, Works
<1>5. S \notin dbUnsure' => SlugWith(S, t, o)' /\ (t # "done" => DbPhase(S, r, t, n, o)')
  BY <1>4
<1>6. dbUnsure \subseteq dbUnsure'
  BY <1>1
<1>7. QED
  BY <1>1, <1>2, <1>3, <1>5, <1>6, DbMove

\* What a request at work has: an instance and, when its step is about one, an object.
LEMMA DbWorker ==
  ASSUME DbInv, NEW r \in DbReqs, dbReq[r].step \notin {"new", "done"}
  PROVE  \E n \in DbNames, o \in Objects \cup {DbNone} :
           dbReq[r].name = n /\ dbReq[r].object = o /\ Works(r, DbSlugOf[n])
           /\ dbReq[r] = [step |-> dbReq[r].step, name |-> n, object |-> o]
           /\ (dbReq[r].step \in ObjectSteps => o \in Objects)
  BY DEF DbInv, DbTypeOK, Works, Slug

\* A request goes on from the step f to the step t.
LEMMA DbContinues ==
  ASSUME DbInv, NEW r \in DbReqs, NEW f \in DbSteps \ {"new", "done"}, NEW t \in DbSteps, NEW n \in DbNames, NEW o,
         DbStep(r, t), t # "new", t \in ObjectSteps => o \in Objects, dbReq[r] = [step |-> f, name |-> n, object |-> o],
         DbTypeOK', Elsewhere(DbSlugOf[n]), dbUnsure \subseteq dbUnsure',
         SlugWith(DbSlugOf[n], f, o) /\ DbPhase(DbSlugOf[n], r, f, n, o)
           => DbSlugOf[n] \in dbUnsure'
              \/ (SlugWith(DbSlugOf[n], t, o)' /\ (t # "done" => DbPhase(DbSlugOf[n], r, t, n, o)'))
  PROVE  DbInv'
<1>. PICK S \in DbSlugs : S = DbSlugOf[n]
  BY SlugsAre
<1>1. dbReq' = [dbReq EXCEPT ![r] = [step |-> t, name |-> n, object |-> o]]
  <2>1. [dbReq[r] EXCEPT !.step = t] = [step |-> t, name |-> n, object |-> o]
    OBVIOUS
  <2>2. dbReq' = [dbReq EXCEPT ![r] = [dbReq[r] EXCEPT !.step = t]]
    BY DEF DbStep
  <2>3. QED
    BY <2>1, <2>2
<1>2. Works(r, S) /\ dbReq[r].step = f /\ dbReq[r].name = n /\ dbReq[r].object = o
  BY DEF Works, Slug
<1>3. S \notin dbUnsure => (\A q \in DbReqs : Works(q, S) => q = r) /\ SlugWith(S, f, o) /\ DbPhase(S, r, f, n, o)
  BY <1>2 DEF DbInv, SlugSound
<1>4. S \notin dbUnsure' => /\ \A q \in DbReqs : Works(q, S) => q = r
                            /\ SlugWith(S, t, o)'
                            /\ t # "done" => DbPhase(S, r, t, n, o)'
  BY <1>3
<1>5. QED
  BY <1>1, <1>2, <1>4, DbMove

-----------------------------------------------------------------------------
\* Creation and its rollback.
LEMMA CreateKeeps == ASSUME DbInv, NEW r \in DbReqs, CreateInstance(r) PROVE DbInv'
<1>1. PICK n \in DbNames : /\ \A m \in DbNames : dbRow[m] # DbNone => DbSlugOf[m] # DbSlugOf[n]
                           /\ DbBegin(r, "write", n, DbNone)
  BY DEF CreateInstance
<1>2. UNCHANGED <<dbRow, dbListed, dbDir, dbCont, dbVol, dbInside>>
  BY DEF CreateInstance
<1>3. DbTypeOK'
  BY <1>1, <1>2, SlugsAre DEF DbInv, DbTypeOK, DbBegin, DbSteps
<1>4. Elsewhere(DbSlugOf[n])
  BY <1>2 DEF Elsewhere
<1>5. SlugWith(DbSlugOf[n], "done", DbNone)
        => SlugWith(DbSlugOf[n], "write", DbNone)' /\ DbPhase(DbSlugOf[n], r, "write", n, DbNone)'
  BY <1>1, <1>2 DEF SlugWith, DbPhase, HasRow, SlugNames
<1>6. QED
  BY <1>1, <1>3, <1>4, <1>5, DbBegins DEF DbSteps, ObjectSteps

LEMMA WriteKeeps == ASSUME DbInv, NEW r \in DbReqs, WriteInstance(r) PROVE DbInv'
<1>1. dbReq[r].step = "write" /\ UNCHANGED <<dbRow, dbListed, dbCont, dbVol, dbInside, dbUnsure>>
  BY DEF WriteInstance
<1>2. PICK n \in DbNames, o \in Objects \cup {DbNone} : dbReq[r] = [step |-> "write", name |-> n, object |-> o]
  BY <1>1, DbWorker
<1>3. PICK t \in {"insert", "done"} :
        DbStep(r, t) /\ dbDir' = IF t = "insert" THEN [dbDir EXCEPT ![DbSlugOf[n]] = r] ELSE dbDir
  BY <1>2 DEF WriteInstance, Slug
<1>4. DbTypeOK'
  BY <1>1, <1>3 DEF DbInv, DbTypeOK, DbStep, DbSteps
<1>5. Elsewhere(DbSlugOf[n])
  BY <1>1, <1>3 DEF Elsewhere, DbInv, DbTypeOK
<1>6. t = "insert" => dbDir'[DbSlugOf[n]] = r
  BY <1>3, SlugsAre DEF DbInv, DbTypeOK
<1>7. SlugWith(DbSlugOf[n], "write", o) /\ DbPhase(DbSlugOf[n], r, "write", n, o)
        => SlugWith(DbSlugOf[n], t, o)' /\ (t # "done" => DbPhase(DbSlugOf[n], r, t, n, o)')
  BY <1>1, <1>3, <1>6 DEF SlugWith, DbPhase, HasRow, SlugNames
<1>8. QED
  BY <1>1, <1>2, <1>3, <1>4, <1>5, <1>7, DbContinues DEF DbSteps, ObjectSteps

LEMMA DbInsertKeeps == ASSUME DbInv, NEW r \in DbReqs, InsertInstance(r) PROVE DbInv'
<1>1. dbReq[r].step = "insert" /\ UNCHANGED <<dbListed, dbDir, dbCont, dbVol, dbInside, dbUnsure>>
  BY DEF InsertInstance
<1>2. PICK n \in DbNames, o \in Objects \cup {DbNone} : dbReq[r] = [step |-> "insert", name |-> n, object |-> o]
  BY <1>1, DbWorker
<1>3. PICK t \in {"up", "done"} :
        DbStep(r, t) /\ dbRow' = IF HasRow(n) THEN dbRow ELSE [dbRow EXCEPT ![n] = r]
  BY <1>2 DEF InsertInstance, HasRow
<1>a. t = "done" \/ ~HasRow(n)
  BY <1>2, <1>3 DEF InsertInstance, HasRow, DbStep, DbInv, DbTypeOK
<1>4. DbTypeOK'
  BY <1>1, <1>3 DEF DbInv, DbTypeOK, DbStep, DbSteps
<1>5. Elsewhere(DbSlugOf[n])
  BY <1>1, <1>3 DEF Elsewhere, DbInv, DbTypeOK
<1>6. \A m \in DbNames : dbRow'[m] = IF m = n /\ ~HasRow(n) THEN r ELSE dbRow[m]
  BY <1>3 DEF DbInv, DbTypeOK
<1>7. r # DbNone
  BY DbAssumption DEF DbNone
<1>8. SlugWith(DbSlugOf[n], "insert", o) /\ DbPhase(DbSlugOf[n], r, "insert", n, o)
        => SlugWith(DbSlugOf[n], t, o)' /\ (t # "done" => DbPhase(DbSlugOf[n], r, t, n, o)')
  BY <1>1, <1>3, <1>6, <1>7 DEF SlugWith, DbPhase, HasRow, SlugNames
<1>9. QED
  BY <1>1, <1>2, <1>3, <1>4, <1>5, <1>8, DbContinues DEF DbSteps, ObjectSteps

\* A container that is brought up initialises its empty volume with the password of the directory.
LEMMA AutoStartKeeps == ASSUME DbInv, NEW r \in DbReqs, AutoStart(r) PROVE DbInv'
<1>1. dbReq[r].step = "up" /\ UNCHANGED <<dbRow, dbListed, dbDir, dbInside, dbUnsure>>
  BY DEF AutoStart
<1>2. PICK n \in DbNames, o \in Objects \cup {DbNone} : dbReq[r] = [step |-> "up", name |-> n, object |-> o]
  BY <1>1, DbWorker
<1>. PICK S \in DbSlugs : S = DbSlugOf[n]
  BY SlugsAre
<1>3. PICK t \in {"rollback", "done"} : DbStep(r, t)
  BY DEF AutoStart
<1>4. /\ dbCont' = dbCont \/ \E c \in {"made", "up"} : dbCont' = [dbCont EXCEPT ![S] = c]
      /\ dbVol' = dbVol \/ dbVol' = [dbVol EXCEPT ![S] = IF @ = DbNone THEN dbDir[S] ELSE @]
  BY <1>2 DEF AutoStart, ComposeUp, ComposeUpFails, Slug
<1>5. DbTypeOK'
  <2>1. dbReq' \in [DbReqs -> [step : DbSteps, name : DbNames \cup {DbNone}, object : Objects \cup {DbNone}]]
    BY <1>3 DEF DbInv, DbTypeOK, DbStep, DbSteps
  <2>2. dbCont' \in [DbSlugs -> {"none", "made", "up"}]
    BY <1>4 DEF DbInv, DbTypeOK
  <2>3. dbVol' \in [DbSlugs -> DbReqs \cup {DbNone}]
    BY <1>4 DEF DbInv, DbTypeOK
  <2>4. QED
    BY <1>1, <2>1, <2>2, <2>3 DEF DbInv, DbTypeOK
<1>6. Elsewhere(S)
  BY <1>1, <1>4 DEF Elsewhere, DbInv, DbTypeOK
<1>7. dbVol'[S] \in {dbVol[S], dbDir[S]} /\ (dbVol[S] # DbNone => dbVol'[S] = dbVol[S])
  BY <1>4 DEF DbInv, DbTypeOK
<1>8. SlugWith(S, "up", o) /\ DbPhase(S, r, "up", n, o) => SlugWith(S, t, o)' /\ (t # "done" => DbPhase(S, r, t, n, o)')
  BY <1>1, <1>3, <1>7 DEF SlugWith, DbPhase, HasRow, SlugNames
<1>9. QED
  BY <1>1, <1>2, <1>3, <1>5, <1>6, <1>8, DbContinues DEF DbSteps, ObjectSteps

LEMMA RollbackKeeps == ASSUME DbInv, NEW r \in DbReqs, RollbackInstance(r) PROVE DbInv'
<1>1. /\ dbReq[r].step = "rollback" /\ DbStep(r, "erase") /\ UNCHANGED <<dbDir, dbCont, dbVol, dbInside>>
      /\ dbUnsure' = dbUnsure \cup {s \in {Slug(r)} : dbVol[s] # DbNone}
  BY DEF RollbackInstance
<1>2. PICK n \in DbNames, o \in Objects \cup {DbNone} : dbReq[r] = [step |-> "rollback", name |-> n, object |-> o]
  BY <1>1, DbWorker
<1>. PICK S \in DbSlugs : S = DbSlugOf[n]
  BY SlugsAre
<1>3. dbRow' = [dbRow EXCEPT ![n] = DbNone] /\ dbListed' = {x \in dbListed : x[1] # n}
  BY <1>2 DEF RollbackInstance
<1>4. DbTypeOK'
  BY <1>1, <1>2, <1>3 DEF DbInv, DbTypeOK, DbStep, DbSteps, Slug
<1>5. \A m \in DbNames : /\ dbRow'[m] = IF m = n THEN DbNone ELSE dbRow[m]
                         /\ \A x \in Objects : <<m, x>> \in dbListed' <=> <<m, x>> \in dbListed /\ m # n
  BY <1>3 DEF DbInv, DbTypeOK
<1>6. Elsewhere(S)
  BY <1>1, <1>5 DEF Elsewhere
<1>7. dbVol[S] # DbNone => S \in dbUnsure'
  BY <1>1, <1>2 DEF Slug
<1>8. SlugWith(S, "rollback", o) /\ DbPhase(S, r, "rollback", n, o)
        => S \in dbUnsure' \/ (SlugWith(S, "erase", o)' /\ DbPhase(S, r, "erase", n, o)')
  BY <1>1, <1>5, <1>7 DEF SlugWith, DbPhase, HasRow, SlugNames
<1>9. QED
  BY <1>1, <1>2, <1>4, <1>6, <1>8, DbContinues DEF DbSteps, ObjectSteps

\* The directory goes: at "erase" no row has the slug, at "wipe" its row goes next.
LEMMA EraseKeeps == ASSUME DbInv, NEW r \in DbReqs, EraseDirectory(r) \/ WipeInstance(r) PROVE DbInv'
<1>1. PICK f \in {"erase", "wipe"}, t \in {"drop", "done"} :
        /\ dbReq[r].step = f /\ DbStep(r, t) /\ (f = "wipe" => t = "drop") /\ (f = "erase" => t = "done")
        /\ dbDir' = [dbDir EXCEPT ![Slug(r)] = DbNone]
        /\ UNCHANGED <<dbRow, dbListed, dbCont, dbVol, dbInside, dbUnsure>>
  BY DEF EraseDirectory, WipeInstance
<1>2. PICK n \in DbNames, o \in Objects \cup {DbNone} : dbReq[r] = [step |-> f, name |-> n, object |-> o]
  BY <1>1, DbWorker
<1>. PICK S \in DbSlugs : S = DbSlugOf[n]
  BY SlugsAre
<1>3. dbDir' = [dbDir EXCEPT ![S] = DbNone]
  BY <1>1, <1>2 DEF Slug
<1>4. DbTypeOK'
  <2>1. dbReq' \in [DbReqs -> [step : DbSteps, name : DbNames \cup {DbNone}, object : Objects \cup {DbNone}]]
    BY <1>1 DEF DbInv, DbTypeOK, DbStep, DbSteps
  <2>2. dbDir' \in [DbSlugs -> DbReqs \cup {DbNone}]
    BY <1>3 DEF DbInv, DbTypeOK
  <2>3. QED
    BY <1>1, <2>1, <2>2 DEF DbInv, DbTypeOK
<1>5. Elsewhere(S)
  BY <1>1, <1>3 DEF Elsewhere, DbInv, DbTypeOK
<1>6. SlugWith(S, f, o) /\ DbPhase(S, r, f, n, o) => SlugWith(S, t, o)' /\ (t # "done" => DbPhase(S, r, t, n, o)')
  BY <1>1 DEF SlugWith, DbPhase, HasRow, SlugNames
<1>7. QED
  BY <1>1, <1>2, <1>4, <1>5, <1>6, DbContinues DEF DbSteps, ObjectSteps

-----------------------------------------------------------------------------
\* Deletion: with the container goes the volume and what is in it.
LEMMA DeleteKeeps == ASSUME DbInv, NEW r \in DbReqs, DeleteInstance(r) PROVE DbInv'
<1>1. PICK n \in DbNames : /\ dbRow[n] # DbNone
                           /\ \/ ComposeDownVolumes(DbSlugOf[n]) /\ DbBegin(r, "wipe", n, DbNone)
                              \/ DbBegin(r, "done", n, DbNone) /\ UNCHANGED <<dbCont, dbVol, dbInside>>
  BY DEF DeleteInstance
<1>. PICK S \in DbSlugs : S = DbSlugOf[n]
  BY SlugsAre
<1>2. UNCHANGED <<dbRow, dbListed, dbDir>>
  BY DEF DeleteInstance
<1>3. CASE ComposeDownVolumes(S) /\ DbBegin(r, "wipe", n, DbNone)
  <2>1. DbTypeOK'
    BY <1>2, <1>3, SlugsAre DEF DbInv, DbTypeOK, DbBegin, DbSteps, ComposeDownVolumes
  <2>2. dbVol'[S] = DbNone
    BY <1>3 DEF DbInv, DbTypeOK, ComposeDownVolumes
  <2>3. Elsewhere(S)
    BY <1>2, <1>3 DEF Elsewhere, DbInv, DbTypeOK, ComposeDownVolumes
  <2>4. SlugWith(S, "done", DbNone) => SlugWith(S, "wipe", DbNone)' /\ DbPhase(S, r, "wipe", n, DbNone)'
    BY <1>1, <1>2, <2>2 DEF SlugWith, DbPhase, HasRow, SlugNames
  <2>5. QED
    BY <1>3, <2>1, <2>3, <2>4, DbBegins DEF DbSteps, ObjectSteps
<1>4. CASE DbBegin(r, "done", n, DbNone) /\ UNCHANGED <<dbCont, dbVol, dbInside>>
  <2>1. DbTypeOK'
    BY <1>2, <1>4, SlugsAre DEF DbInv, DbTypeOK, DbBegin, DbSteps
  <2>2. Elsewhere(S)
    BY <1>2, <1>4 DEF Elsewhere
  <2>3. SlugWith(S, "done", DbNone) => SlugWith(S, "done", DbNone)'
    BY <1>2, <1>4 DEF SlugWith, HasRow, SlugNames
  <2>4. QED
    BY <1>4, <2>1, <2>2, <2>3, DbBegins DEF DbSteps, ObjectSteps
<1>5. QED
  BY <1>1, <1>3, <1>4

LEMMA DropKeeps == ASSUME DbInv, NEW r \in DbReqs, DropInstance(r) PROVE DbInv'
<1>1. dbReq[r].step = "drop" /\ DbStep(r, "done") /\ UNCHANGED <<dbDir, dbCont, dbVol, dbInside, dbUnsure>>
  BY DEF DropInstance
<1>2. PICK n \in DbNames, o \in Objects \cup {DbNone} : dbReq[r] = [step |-> "drop", name |-> n, object |-> o]
  BY <1>1, DbWorker
<1>. PICK S \in DbSlugs : S = DbSlugOf[n]
  BY SlugsAre
<1>3. dbRow' = [dbRow EXCEPT ![n] = DbNone] /\ dbListed' = {x \in dbListed : x[1] # n}
  BY <1>2 DEF DropInstance
<1>4. DbTypeOK'
  BY <1>1, <1>3 DEF DbInv, DbTypeOK, DbStep, DbSteps
<1>5. \A m \in DbNames : /\ dbRow'[m] = IF m = n THEN DbNone ELSE dbRow[m]
                         /\ \A x \in Objects : <<m, x>> \in dbListed' <=> <<m, x>> \in dbListed /\ m # n
  BY <1>3 DEF DbInv, DbTypeOK
<1>6. Elsewhere(S)
  BY <1>1, <1>5 DEF Elsewhere
<1>7. SlugWith(S, "drop", o) /\ DbPhase(S, r, "drop", n, o) => SlugWith(S, "done", o)'
  BY <1>1, <1>5 DEF SlugWith, DbPhase, HasRow, SlugNames
<1>8. QED
  BY <1>1, <1>2, <1>4, <1>6, <1>7, DbContinues DEF DbSteps, ObjectSteps

\* Start, stop and restart.
LEMMA LifecycleKeeps ==
  ASSUME DbInv, NEW r \in DbReqs, StartInstance(r) \/ StopInstance(r) \/ RestartInstance(r)
  PROVE  DbInv'
<1>1. PICK n \in DbNames :
        /\ DbLifecycle(r, n)
        /\ dbCont' = dbCont \/ \E c \in {"none", "made", "up"} : dbCont' = [dbCont EXCEPT ![DbSlugOf[n]] = c]
        /\ dbVol' = dbVol \/ dbVol' = [dbVol EXCEPT ![DbSlugOf[n]] = IF @ = DbNone THEN dbDir[DbSlugOf[n]] ELSE @]
  <2>1. CASE StartInstance(r)
    BY <2>1 DEF StartInstance, ComposeUp, ComposeUpFails
  <2>2. CASE StopInstance(r)
    BY <2>2 DEF StopInstance
  <2>3. CASE RestartInstance(r)
    <3>1. PICK n \in DbNames : /\ DbLifecycle(r, n) /\ UNCHANGED dbVol
                               /\ dbCont' = [dbCont EXCEPT ![DbSlugOf[n]] = IF @ = "none" THEN @ ELSE "up"]
      BY <2>3 DEF RestartInstance
    <3>2. \E c \in {"none", "made", "up"} : dbCont' = [dbCont EXCEPT ![DbSlugOf[n]] = c]
      BY <3>1
    <3>3. QED
      BY <3>1, <3>2
  <2>4. QED
    BY <2>1, <2>2, <2>3
<1>. PICK S \in DbSlugs : S = DbSlugOf[n]
  BY SlugsAre
<1>2. DbBegin(r, "done", n, DbNone) /\ dbRow[n] # DbNone /\ UNCHANGED <<dbRow, dbListed, dbDir, dbInside>>
  BY <1>1 DEF DbLifecycle
<1>3. DbTypeOK'
  <2>1. /\ dbReq' \in [DbReqs -> [step : DbSteps, name : DbNames \cup {DbNone}, object : Objects \cup {DbNone}]]
        /\ dbUnsure' \subseteq DbSlugs
    BY <1>2 DEF DbInv, DbTypeOK, DbBegin, DbSteps
  <2>2. dbCont' \in [DbSlugs -> {"none", "made", "up"}]
    BY <1>1 DEF DbInv, DbTypeOK
  <2>3. dbVol' \in [DbSlugs -> DbReqs \cup {DbNone}]
    BY <1>1 DEF DbInv, DbTypeOK
  <2>4. QED
    BY <1>2, <2>1, <2>2, <2>3 DEF DbInv, DbTypeOK
<1>4. Elsewhere(S)
  BY <1>1, <1>2 DEF Elsewhere, DbInv, DbTypeOK
<1>5. dbVol'[S] \in {dbVol[S], dbDir[S]} /\ (dbVol[S] # DbNone => dbVol'[S] = dbVol[S])
  BY <1>1 DEF DbInv, DbTypeOK
<1>6. SlugWith(S, "done", DbNone) => SlugWith(S, "done", DbNone)'
  BY <1>2, <1>5 DEF SlugWith, HasRow, SlugNames
<1>7. QED
  BY <1>2, <1>3, <1>4, <1>6, DbBegins DEF DbSteps, ObjectSteps

-----------------------------------------------------------------------------
\* Logical databases and users. What the engine is given is new to it, and so in no row.
LEMMA MakeKeeps == ASSUME DbInv, NEW r \in DbReqs, CreateDatabase(r) \/ CreateDbUser(r) PROVE DbInv'
<1>1. PICK n \in DbNames, x \in Objects, t \in {"list", "grant"} :
        /\ Reachable(n) /\ Inside(n, x) \notin dbInside /\ dbInside' = dbInside \cup {Inside(n, x)}
        /\ DbBegin(r, t, n, x) /\ (t = "grant" => x = "user")
  <2>1. "database" \in Objects /\ "user" \in Objects
    BY DEF Objects
  <2>2. QED
    BY <2>1 DEF CreateDatabase, CreateDbUser
<1>. PICK S \in DbSlugs : S = DbSlugOf[n]
  BY SlugsAre
<1>2. UNCHANGED <<dbRow, dbListed, dbDir, dbCont, dbVol>> /\ dbRow[n] # DbNone
  BY <1>1 DEF CreateDatabase, CreateDbUser, DbOnlyEngine, Reachable
<1>3. DbTypeOK'
  BY <1>1, <1>2, SlugsAre DEF DbInv, DbTypeOK, DbBegin, DbSteps, Inside
<1>4. \A s \in DbSlugs, y \in Objects : <<s, y>> \in dbInside' <=> <<s, y>> \in dbInside \/ (s = S /\ y = x)
  BY <1>1 DEF Inside
<1>5. Elsewhere(S)
  BY <1>2, <1>4 DEF Elsewhere
<1>6. <<S, x>> \notin dbInside
  BY <1>1 DEF Inside
<1>7. SlugWith(S, "done", DbNone) => SlugWith(S, t, x)' /\ DbPhase(S, r, t, n, x)'
  BY <1>1, <1>2, <1>4, <1>6 DEF SlugWith, DbPhase, HasRow, SlugNames
<1>8. QED
  BY <1>1, <1>3, <1>5, <1>7, DbBegins DEF DbSteps, ObjectSteps

LEMMA CoreKeeps == ASSUME DbInv, NEW r \in DbReqs, CoreCreate(r) PROVE DbInv'
<1>1. PICK n \in DbNames, x \in Objects :
        Reachable(n) /\ dbInside' = dbInside \cup {Inside(n, x)} /\ DbBegin(r, "done", n, x)
  BY DEF CoreCreate
<1>. PICK S \in DbSlugs : S = DbSlugOf[n]
  BY SlugsAre
<1>2. UNCHANGED <<dbRow, dbListed, dbDir, dbCont, dbVol>>
  BY DEF CoreCreate, DbOnlyEngine
<1>3. DbTypeOK'
  BY <1>1, <1>2, SlugsAre DEF DbInv, DbTypeOK, DbBegin, DbSteps, Inside
<1>4. \A s \in DbSlugs, y \in Objects : <<s, y>> \in dbInside' <=> <<s, y>> \in dbInside \/ (s = S /\ y = x)
  BY <1>1 DEF Inside
<1>5. Elsewhere(S)
  BY <1>2, <1>4 DEF Elsewhere
<1>6. SlugWith(S, "done", DbNone) => SlugWith(S, "done", x)'
  BY <1>2, <1>4 DEF SlugWith, HasRow, SlugNames
<1>7. QED
  BY <1>1, <1>3, <1>5, <1>6, DbBegins DEF DbSteps, ObjectSteps

\* A user whose grants fail is dropped again: no row lists it yet.
LEMMA GrantKeeps == ASSUME DbInv, NEW r \in DbReqs, GrantAll(r) PROVE DbInv'
<1>1. UNCHANGED <<dbRow, dbListed, dbDir, dbCont, dbVol, dbUnsure>> /\ dbReq[r].step \in {"grant", "undo"}
  BY DEF GrantAll, DbOnlyEngine
<1>2. PICK f \in {"grant", "undo"}, n \in DbNames, o \in Objects : dbReq[r] = [step |-> f, name |-> n, object |-> o]
  BY <1>1, DbWorker DEF ObjectSteps
<1>. PICK S \in DbSlugs : S = DbSlugOf[n]
  BY SlugsAre
<1>3. PICK t \in {"list", "undo", "done"} :
        /\ DbStep(r, t) /\ dbInside' \in {dbInside, dbInside \ {<<S, "user">>}}
        /\ IF f = "grant" THEN t # "done" /\ dbInside' = dbInside ELSE t = "done"
  BY <1>2 DEF GrantAll, Slug
<1>4. DbTypeOK'
  BY <1>1, <1>3 DEF DbInv, DbTypeOK, DbStep, DbSteps
<1>5. /\ \A s \in DbSlugs, y \in Objects : <<s, y>> \in dbInside' => <<s, y>> \in dbInside
      /\ \A s \in DbSlugs, y \in Objects : s # S \/ y # "user" \/ t # "done" => (<<s, y>> \in dbInside' <=> <<s, y>> \in dbInside)
  BY <1>3
<1>6. Elsewhere(S)
  BY <1>1, <1>5 DEF Elsewhere
<1>7. SlugWith(S, f, o) /\ DbPhase(S, r, f, n, o) => SlugWith(S, t, o)' /\ (t # "done" => DbPhase(S, r, t, n, o)')
  <2>. SUFFICES ASSUME SlugWith(S, f, o), DbPhase(S, r, f, n, o)
                PROVE  SlugWith(S, t, o)' /\ (t # "done" => DbPhase(S, r, t, n, o)')
    OBVIOUS
  <2>1. o = "user" /\ o \in Objects /\ HasRow(n) /\ <<n, "user">> \notin dbListed
    BY DEF DbPhase, Objects
  <2>2. \A m \in SlugNames(S) : <<m, "user">> \notin dbListed
    BY <2>1, SlugsAre DEF SlugWith, Objects
  <2>3. SlugWith(S, t, o)'
    <3>1. \A m \in SlugNames(S), x \in Objects : <<m, x>> \in dbListed => <<S, x>> \in dbInside /\ x # "user"
      BY <2>2 DEF SlugWith
    <3>2. \A m \in SlugNames(S), x \in Objects : <<m, x>> \in dbListed' => <<S, x>> \in dbInside'
      BY <1>1, <1>5, <3>1
    <3>3. \A m, l \in SlugNames(S) : HasRow(m)' /\ HasRow(l)' => m = l
      BY <1>1 DEF SlugWith, HasRow
    <3>4. (\A m \in SlugNames(S) : ~HasRow(m))' => dbVol'[S] = DbNone
      BY <1>1 DEF SlugWith, HasRow
    <3>5. ASSUME NEW m \in SlugNames(S)
          PROVE  /\ ~HasRow(m)' => \A x \in Objects : <<m, x>> \notin dbListed'
                 /\ HasRow(m)' => dbVol'[S] \in {DbNone, dbRow'[m]} /\ dbDir'[S] = dbRow'[m]
      BY <1>1 DEF SlugWith, HasRow
    <3>6. QED
      BY <3>2, <3>3, <3>4, <3>5 DEF SlugWith, SlugNames
  <2>4. QED
    BY <1>1, <1>3, <1>5, <2>1, <2>3 DEF DbPhase, HasRow, SlugNames
<1>8. QED
  BY <1>1, <1>2, <1>3, <1>4, <1>6, <1>7, DbContinues DEF DbSteps, ObjectSteps

LEMMA ListKeeps == ASSUME DbInv, NEW r \in DbReqs, ListObject(r) \/ UnlistObject(r) PROVE DbInv'
<1>1. PICK f \in {"list", "unlist"} :
        /\ dbReq[r].step = f /\ DbStep(r, "done") /\ UNCHANGED <<dbRow, dbDir, dbCont, dbVol, dbInside, dbUnsure>>
        /\ dbListed' = IF f = "list" THEN dbListed \cup {<<dbReq[r].name, dbReq[r].object>>}
                                      ELSE dbListed \ {<<dbReq[r].name, dbReq[r].object>>}
  BY DEF ListObject, UnlistObject
<1>2. PICK n \in DbNames, o \in Objects : dbReq[r] = [step |-> f, name |-> n, object |-> o]
  BY <1>1, DbWorker DEF ObjectSteps
<1>. PICK S \in DbSlugs : S = DbSlugOf[n]
  BY SlugsAre
<1>3. \A m \in DbNames, x \in Objects :
        <<m, x>> \in dbListed' <=> IF m = n /\ x = o THEN f = "list" ELSE <<m, x>> \in dbListed
  BY <1>1, <1>2
<1>4. Elsewhere(S)
  BY <1>1, <1>3 DEF Elsewhere
<1>5. dbReq' \in [DbReqs -> [step : DbSteps, name : DbNames \cup {DbNone}, object : Objects \cup {DbNone}]]
  BY <1>1 DEF DbInv, DbTypeOK, DbStep, DbSteps
<1>6. DbTypeOK'
  BY <1>1, <1>2, <1>5 DEF DbInv, DbTypeOK
<1>7. SlugWith(S, f, o) /\ DbPhase(S, r, f, n, o) => SlugWith(S, "done", o)'
  BY <1>1, <1>3, SlugsAre DEF SlugWith, DbPhase, HasRow, SlugNames
<1>8. QED
  BY <1>1, <1>2, <1>4, <1>6, <1>7, DbContinues DEF DbSteps, ObjectSteps

\* What is dropped in the engine is still listed, until its row goes.
LEMMA DropObjectKeeps == ASSUME DbInv, NEW r \in DbReqs, DropObject(r) PROVE DbInv'
<1>1. PICK n \in DbNames, x \in Objects :
        Reachable(n) /\ dbInside' = dbInside \ {Inside(n, x)} /\ DbBegin(r, "unlist", n, x)
  BY DEF DropObject
<1>. PICK S \in DbSlugs : S = DbSlugOf[n]
  BY SlugsAre
<1>2. UNCHANGED <<dbRow, dbListed, dbDir, dbCont, dbVol>> /\ dbRow[n] # DbNone
  BY <1>1 DEF DropObject, DbOnlyEngine, Reachable
<1>3. DbTypeOK'
  BY <1>1, <1>2, SlugsAre DEF DbInv, DbTypeOK, DbBegin, DbSteps
<1>4. \A s \in DbSlugs, y \in Objects : <<s, y>> \in dbInside' <=> <<s, y>> \in dbInside /\ ~(s = S /\ y = x)
  BY <1>1 DEF Inside
<1>5. Elsewhere(S)
  BY <1>2, <1>4 DEF Elsewhere
<1>6. SlugWith(S, "done", DbNone) => SlugWith(S, "unlist", x)' /\ DbPhase(S, r, "unlist", n, x)'
  BY <1>2, <1>4 DEF SlugWith, DbPhase, HasRow, SlugNames
<1>7. QED
  BY <1>1, <1>3, <1>5, <1>6, DbBegins DEF DbSteps, ObjectSteps

\* The panel dies: where a request was at work, all is left as it is; elsewhere nobody was.
LEMMA PanelDeathKeeps == ASSUME DbInv, DbPanelDies PROVE DbInv'
<1>1. /\ dbUnsure' = dbUnsure \cup {s \in DbSlugs : AtWork(s)}
      /\ dbReq' = [r \in DbReqs |-> IF dbReq[r].step = "new" THEN dbReq[r] ELSE [dbReq[r] EXCEPT !.step = "done"]]
      /\ UNCHANGED <<dbRow, dbListed, dbDir, dbCont, dbVol, dbInside>>
  BY DEF DbPanelDies
<1>2. \A r \in DbReqs : dbReq'[r].step \in {"new", "done"} /\ (dbReq'[r].step = "new" => dbReq[r].step = "new")
                        /\ dbReq'[r].name = dbReq[r].name
  BY <1>1 DEF DbInv, DbTypeOK
<1>3. DbTypeOK'
  BY <1>1 DEF DbInv, DbTypeOK, DbSteps
<1>4. ASSUME NEW s \in DbSlugs \ dbUnsure' PROVE SlugSound(s)'
  <2>1. SlugWith(s, "done", DbNone)
    BY <1>1 DEF DbInv, SlugSound
  <2>2. SlugWith(s, "done", DbNone)'
    BY <1>1, <2>1 DEF SlugWith, HasRow, SlugNames
  <2>3. \A r \in DbReqs : ~Works(r, s)'
    BY <1>2 DEF Works
  <2>4. QED
    BY <2>2, <2>3 DEF SlugSound
<1>5. \A r \in DbReqs : /\ dbReq'[r].step # "new" => dbReq'[r].name \in DbNames
                        /\ dbReq'[r].step \notin ObjectSteps
  <2>1. \A r \in DbReqs : dbReq'[r].step # "new" => dbReq[r].step # "new"
    BY <1>1
  <2>2. QED
    BY <1>2, <2>1 DEF DbInv, ObjectSteps
<1>6. QED
  BY <1>3, <1>4, <1>5 DEF DbInv

LEMMA DbInvStep == ASSUME DbInv, DbNext PROVE DbInv'
<1>1. CASE DbPanelDies
  BY <1>1, PanelDeathKeeps
<1>2. ASSUME NEW r \in DbReqs,
             \/ CreateInstance(r) \/ WriteInstance(r) \/ InsertInstance(r) \/ AutoStart(r)
             \/ RollbackInstance(r) \/ EraseDirectory(r) \/ DeleteInstance(r) \/ WipeInstance(r)
             \/ DropInstance(r) \/ StartInstance(r) \/ StopInstance(r) \/ RestartInstance(r)
             \/ CreateDatabase(r) \/ CreateDbUser(r) \/ CoreCreate(r) \/ GrantAll(r) \/ ListObject(r)
             \/ DropObject(r) \/ UnlistObject(r)
      PROVE  DbInv'
  BY <1>2, CreateKeeps, WriteKeeps, DbInsertKeeps, AutoStartKeeps, RollbackKeeps, EraseKeeps, DeleteKeeps, DropKeeps,
     LifecycleKeeps, MakeKeeps, CoreKeeps, GrantKeeps, ListKeeps, DropObjectKeeps
<1>3. QED
  BY <1>1, <1>2 DEF DbNext

LEMMA DbInvSame == ASSUME DbInv, UNCHANGED dbVars PROVE DbInv'
<1>1. UNCHANGED <<dbRow, dbListed, dbDir, dbVol, dbInside, dbReq, dbUnsure>> /\ DbTypeOK'
  BY DEF dbVars, DbInv, DbTypeOK
<1>2. \A s \in DbSlugs : (AtWork(s)' <=> AtWork(s)) /\ \A r \in DbReqs : Works(r, s)' <=> Works(r, s)
  BY <1>1 DEF AtWork, Works, Slug
<1>3. ASSUME NEW s \in DbSlugs, SlugSound(s) PROVE SlugSound(s)'
  <2>1. ASSUME NEW t, NEW o, SlugWith(s, t, o) PROVE SlugWith(s, t, o)'
    BY <1>1, <2>1 DEF SlugWith, HasRow, SlugNames
  <2>2. ASSUME NEW r \in DbReqs, NEW t, NEW n, NEW o, DbPhase(s, r, t, n, o) PROVE DbPhase(s, r, t, n, o)'
    BY <1>1, <2>2 DEF DbPhase, HasRow, SlugNames
  <2>3. ASSUME NEW r \in DbReqs, Works(r, s)
        PROVE  (SlugWith(s, dbReq[r].step, dbReq[r].object) /\ DbPhase(s, r, dbReq[r].step, dbReq[r].name, dbReq[r].object))'
    <3>1. PICK t, n, o : t = dbReq[r].step /\ n = dbReq[r].name /\ o = dbReq[r].object
      OBVIOUS
    <3>2. SlugWith(s, t, o) /\ DbPhase(s, r, t, n, o)
      BY <1>3, <2>3, <3>1 DEF SlugSound
    <3>3. t = dbReq'[r].step /\ n = dbReq'[r].name /\ o = dbReq'[r].object
      BY <1>1, <3>1
    <3>4. QED
      BY <2>1, <2>2, <3>2, <3>3
  <2>4. QED
    BY <1>2, <1>3, <2>1, <2>3 DEF SlugSound
<1>4. QED
  BY <1>1, <1>3 DEF DbInv

-----------------------------------------------------------------------------
(* Installed apps.                                                         *)

\* The row, the stack's row, the host and the files of an app are as they should be.
HostOf(i) == appRow[i].host # 0 => appHost[appRow[i].host] = appRow[i].domain
FilesOf(i) == appDir[i] = [there |-> TRUE, domain |-> appRow[i].domain, ver |-> appRow[i].ver]
AppWhole(i) == appStack[appRow[i].name] = i /\ HostOf(i) /\ FilesOf(i) /\ appRow[i].status # "installing"

\* What holds of a name, whoever is at work there.
NameShared(n) ==
  /\ \A i, j \in AppIds : appRow[i].name = n /\ appRow[j].name = n => i = j
  /\ appStack[n] \in AppIds => appRow[appStack[n]].name = n
  /\ appProject[n] \in {0, appStack[n]}
RowsWhole(n) == \A i \in AppIds : appRow[i].name = n => AppWhole(i)

\* What the one request at work at the name of the copy c knows at its step t about the app i.
AppPhase(t, i, c) ==
  LET row == appRow[i]
      shown == row.domain = c.domain /\ HostOf(i)
  IN
  /\ t \in {"insert", "user"} => \A j \in AppIds : appRow[j].name # c.name
  /\ t \in {"insert", "write", "stack", "up", "host", "finish"} => c.there /\ c.status = "installing" /\ c.host = 0
  /\ t \in {"insert", "write", "stack", "user"} => appStack[c.name] \in {0, TheUser}
  /\ t \in {"write", "stack", "up", "host"} => row = c
  /\ t = "finish" => shown /\ row.ver = c.ver
  /\ t \notin {"insert", "user"} => row.there
  /\ t \in {"stack", "up", "host", "finish", "newhost", "save", "mark", "rewrite"} => FilesOf(i)
  /\ t \in {"up", "host", "finish", "unstack", "newhost", "save", "env", "mark", "rewrite", "reup"} => appStack[c.name] = i
  /\ t \in {"unstack", "unhost", "drop"} => appProject[c.name] = 0
  /\ t \in {"unhost", "drop"} => appStack[c.name] = 0
  /\ t \in {"newhost", "save", "env"} => row.status # "installing"
  /\ t = "newhost" => c.host = 0
  /\ t = "save" /\ c.host # 0 => appHost[c.host] = c.domain
  /\ t \in {"env", "mark", "rewrite", "reup"} => shown
  /\ t = "env" => appDir[i].there /\ appDir[i].ver = row.ver
  /\ t = "reup" => appDir[i] = [there |-> TRUE, domain |-> row.domain, ver |-> c.ver]

NameSound(n) ==
  /\ \A q, r \in AppReqs : AppName(q) = n /\ AppName(r) = n => q = r
  /\ NameShared(n)
  /\ (\A r \in AppReqs : AppName(r) # n) => RowsWhole(n)
  /\ \A r \in AppReqs : AppName(r) = n => AppPhase(appReq[r].step, appReq[r].id, appReq[r].copy)

\* A host is referred to by one app at most: by its row, and by the requests about it.
HostsOwned ==
  /\ \A i, j \in AppIds : appRow[i].host = appRow[j].host /\ appRow[i].host # 0 => i = j
  /\ \A r \in AppReqs, i \in AppIds : AppCopy(r).host = appRow[i].host /\ appRow[i].host # 0 => appReq[r].id = i
  /\ \A q, r \in AppReqs : AppCopy(q).host = AppCopy(r).host /\ AppCopy(q).host # 0 => appReq[q].id = appReq[r].id /\ appReq[r].id # 0

AppGround ==
  /\ AppTypeOK
  /\ \A i \in AppIds : IF appRow[i].there THEN appRow[i].name \in AppNames ELSE appRow[i] = NoApp
  /\ \A r \in AppReqs :
       /\ IF AppAt(r, "done") THEN appReq[r] = AppRest ELSE AppName(r) \in AppNames
       /\ appReq[r].id = 0 <=> appReq[r].step \in {"done", "insert", "user"}
       /\ AppAt(r, "insert") => AppCopy(r).there
       /\ appReq[r].id # 0 /\ appRow[appReq[r].id].there => appRow[appReq[r].id].name = AppName(r)
       /\ \A q \in AppReqs : appReq[q].id = appReq[r].id /\ appReq[r].id # 0 => AppName(q) = AppName(r)
  /\ HostsOwned

AppInv == AppGround /\ \A n \in AppNames \ appUnsure : NameSound(n)

LEMMA AppNumbers == /\ \A i \in AppIds : i # 0 /\ i # TheUser
                    /\ \A h \in HostIds : h # 0
                    /\ TheUser # 0 /\ Nil \notin AppNames /\ Nil \notin AppDomains
  BY AppAssumption DEF TheUser, Nil

LEMMA AppInvSound == AppInv => AppsWhole
<1>. SUFFICES ASSUME AppInv PROVE AppsWhole
  OBVIOUS
<1>1. \A n \in AppNames \ (appUnsure \cup NamesAtWork) : NameShared(n) /\ RowsWhole(n)
  BY AppNumbers DEF AppInv, NameSound, NamesAtWork
<1>2. ASSUME NEW i \in AppIds, appRow[i].there, appRow[i].name \notin appUnsure \cup NamesAtWork
      PROVE  /\ appRow[i].status # "installing"
             /\ \A j \in AppIds \ {i} : appRow[j].name # appRow[i].name
             /\ appStack[appRow[i].name] = i /\ appProject[appRow[i].name] \in {0, i}
             /\ appRow[i].host # 0 => appHost[appRow[i].host] = appRow[i].domain
             /\ appDir[i] = [there |-> TRUE, domain |-> appRow[i].domain, ver |-> appRow[i].ver]
  <2>1. appRow[i].name \in AppNames
    BY <1>2 DEF AppInv, AppGround
  <2>2. NameShared(appRow[i].name) /\ AppWhole(i)
    BY <1>1, <1>2, <2>1 DEF RowsWhole
  <2>3. QED
    BY <2>2 DEF NameShared, AppWhole, HostOf, FilesOf
<1>3. ASSUME NEW n \in AppNames \ (appUnsure \cup NamesAtWork)
      PROVE  /\ appStack[n] \in AppIds => appRow[appStack[n]].name = n
             /\ appProject[n] = TheUser => appStack[n] = TheUser
  BY <1>1, <1>3, AppNumbers DEF NameShared
<1>4. QED
  BY <1>2, <1>3 DEF AppsWhole

LEMMA AppInvInit == AppInit => AppInv
<1>. SUFFICES ASSUME AppInit PROVE AppInv
  OBVIOUS
<1>1. NoApp \in AppRow /\ NoAppDir \in AppDir /\ AppRest \in [step : AppSteps, id : AppIds \cup {0}, copy : AppRow]
  BY AppAssumption DEF NoApp, AppRow, NoAppDir, AppDir, AppRest, AppSteps
<1>2. AppTypeOK
  BY <1>1, AppAssumption DEF AppInit, AppTypeOK
<1>3. /\ \A i \in AppIds : appRow[i] = NoApp /\ appRow[i].host = 0 /\ appRow[i].name = Nil /\ ~appRow[i].there
      /\ \A r \in AppReqs : appReq[r] = AppRest /\ AppName(r) = Nil /\ AppCopy(r).host = 0 /\ appReq[r].id = 0 /\ AppAt(r, "done")
  BY DEF AppInit, NoApp, AppRest, AppCopy, AppName, AppAt
<1>4. AppGround
  BY <1>2, <1>3 DEF AppGround, HostsOwned, AppAt
<1>5. ASSUME NEW n \in AppNames PROVE NameSound(n)
  BY <1>3, AppNumbers DEF NameSound, NameShared, RowsWhole, AppInit
<1>6. QED
  BY <1>4, <1>5 DEF AppInv

\* Nothing that concerns another name is touched.
OtherHosts(N) ==
  /\ \A i \in AppIds : appRow[i].name \notin {N, Nil} /\ appRow[i].host # 0 => appHost'[appRow[i].host] = appHost[appRow[i].host]
  /\ \A q \in AppReqs : AppName(q) \notin {N, Nil} /\ AppCopy(q).host # 0 => appHost'[AppCopy(q).host] = appHost[AppCopy(q).host]
OtherNames(N) ==
  /\ \A i \in AppIds : \/ appRow'[i] = appRow[i] /\ appDir'[i] = appDir[i]
                       \/ appRow[i].name \in {N, Nil} /\ appRow'[i].name \in {N, Nil}
  /\ \A n \in AppNames \ {N} : appStack'[n] = appStack[n] /\ appProject'[n] = appProject[n]
  /\ OtherHosts(N)

\* What holds of a name when the request at work there has the step t, the app i and the copy c.
NameAt(n, t, i, c) == NameShared(n) /\ IF t = "done" THEN RowsWhole(n) ELSE AppPhase(t, i, c)

LEMMA AppOthers ==
  ASSUME AppInv, NEW r \in AppReqs, NEW N \in AppNames, AppName(r) \in {N, Nil}, AppGround', OtherNames(N),
         \A q \in AppReqs \ {r} : appReq'[q] = appReq[q], AppName(r)' \in {N, Nil},
         NEW n \in AppNames, n # N, n \notin appUnsure
  PROVE  NameSound(n)'
<1>1. NameSound(n) /\ n # Nil
  BY AppNumbers DEF AppInv
<1>2. \A i \in AppIds : appRow[i].name = n \/ appRow'[i].name = n => appRow'[i] = appRow[i] /\ appDir'[i] = appDir[i] /\ appRow[i].name = n
  BY <1>1 DEF OtherNames, OtherHosts
<1>3. appStack'[n] = appStack[n] /\ appProject'[n] = appProject[n]
  BY DEF OtherNames
<1>4. \A q \in AppReqs : AppName(q) = n \/ AppName(q)' = n => q # r /\ appReq'[q] = appReq[q] /\ AppName(q) = n
  BY <1>1 DEF AppName, AppCopy
<1>5. NameShared(n)'
  <2>1. appStack[n] \in AppIds => appRow'[appStack[n]].name = n
    BY <1>1, <1>2 DEF NameSound, NameShared
  <2>2. appStack'[n] \in AppIds => appRow'[appStack'[n]].name = n
    BY <1>3, <2>1
  <2>3. \A i, j \in AppIds : appRow'[i].name = n /\ appRow'[j].name = n => i = j
    BY <1>1, <1>2 DEF NameSound, NameShared
  <2>4. appProject'[n] \in {0, appStack'[n]}
    BY <1>1, <1>3 DEF NameSound, NameShared
  <2>5. QED
    BY <2>2, <2>3, <2>4 DEF NameShared
<1>6. \A i \in AppIds : appRow[i].name = n => (HostOf(i) => HostOf(i)') /\ (FilesOf(i) => FilesOf(i)')
  <2>. SUFFICES ASSUME NEW i \in AppIds, appRow[i].name = n
                PROVE  (HostOf(i) => HostOf(i)') /\ (FilesOf(i) => FilesOf(i)')
    OBVIOUS
  <2>1. appRow'[i] = appRow[i] /\ appDir'[i] = appDir[i]
    BY <1>2
  <2>2. appRow[i].host # 0 => appHost'[appRow[i].host] = appHost[appRow[i].host]
    BY <1>1 DEF OtherNames, OtherHosts
  <2>3. QED
    BY <2>1, <2>2 DEF HostOf, FilesOf
<1>7. (\A q \in AppReqs : AppName(q)' # n) => RowsWhole(n)'
  <2>. SUFFICES ASSUME \A q \in AppReqs : AppName(q)' # n, NEW i \in AppIds, appRow'[i].name = n PROVE AppWhole(i)'
    BY DEF RowsWhole
  <2>1. \A q \in AppReqs : AppName(q) # n
    BY <1>1, <1>4 DEF AppName, AppCopy
  <2>2. AppWhole(i)
    BY <1>1, <1>2, <2>1 DEF NameSound, RowsWhole
  <2>3. QED
    BY <1>2, <1>3, <1>6, <2>2 DEF AppWhole
<1>8. ASSUME NEW q \in AppReqs, AppName(q)' = n PROVE AppPhase(appReq[q].step, appReq[q].id, appReq[q].copy)'
  <2>1. appReq'[q] = appReq[q] /\ AppName(q) = n
    BY <1>4, <1>8
  <2>2. PICK t, i, c : t = appReq[q].step /\ i = appReq[q].id /\ c = appReq[q].copy
    OBVIOUS
  <2>3. AppPhase(t, i, c) /\ c.name = n
    BY <1>1, <2>1, <2>2 DEF NameSound, AppName, AppCopy
  <2>4. t \notin {"insert", "user"} => i \in AppIds /\ appRow[i].name = n
    <3>. SUFFICES ASSUME t \notin {"insert", "user"} PROVE i \in AppIds /\ appRow[i].name = n
      OBVIOUS
    <3>1. t # "done" /\ i \in AppIds
      BY <1>1, <2>1, <2>2 DEF AppInv, AppGround, AppTypeOK, AppAt, AppRest, AppName, AppCopy, NoApp
    <3>2. appRow[i].there
      BY <2>3 DEF AppPhase
    <3>3. QED
      BY <2>1, <2>2, <3>1, <3>2, AppNumbers DEF AppInv, AppGround
  <2>5. c.host # 0 => appHost'[c.host] = appHost[c.host]
    BY <1>1, <2>1, <2>2 DEF OtherNames, OtherHosts, AppCopy
  <2>6. (\A j \in AppIds : appRow[j].name # n) => \A j \in AppIds : appRow'[j].name # n
    BY <1>2
  <2>7. ASSUME t \in {"insert", "user"} PROVE AppPhase(t, i, c)'
    BY <1>3, <2>3, <2>6, <2>7 DEF AppPhase
  <2>8. ASSUME t \notin {"insert", "user"} PROVE AppPhase(t, i, c)'
    <3>1. appRow'[i] = appRow[i] /\ appDir'[i] = appDir[i] /\ (HostOf(i) => HostOf(i)') /\ (FilesOf(i) => FilesOf(i)')
      BY <1>2, <1>6, <2>4, <2>8
    <3>2. QED
      BY <1>3, <2>3, <2>5, <2>8, <3>1 DEF AppPhase
  <2>9. AppPhase(t, i, c)'
    BY <2>7, <2>8
  <2>10. t = appReq'[q].step /\ i = appReq'[q].id /\ c = appReq'[q].copy
    BY <2>1, <2>2
  <2>11. QED
    BY <2>9, <2>10
<1>9. \A p, q \in AppReqs : AppName(p)' = n /\ AppName(q)' = n => p = q
  BY <1>1, <1>4 DEF NameSound
<1>10. QED
  BY <1>5, <1>7, <1>8, <1>9 DEF NameSound

\* The request r is now at the step t, for the app i, with the copy c.
LEMMA AppMove ==
  ASSUME AppInv, NEW r \in AppReqs, NEW N \in AppNames, NEW t, NEW i, NEW c,
         appReq' = [appReq EXCEPT ![r] = IF t = "done" THEN AppRest ELSE [step |-> t, id |-> i, copy |-> c]],
         c.name = N, AppName(r) \in {N, Nil}, AppGround', appUnsure \subseteq appUnsure', OtherNames(N),
         N \notin appUnsure' => (\A q \in AppReqs : AppName(q) = N => q = r) /\ NameAt(N, t, i, c)'
  PROVE  AppInv'
<1>1. /\ \A q \in AppReqs \ {r} : appReq'[q] = appReq[q]
      /\ appReq'[r] = IF t = "done" THEN AppRest ELSE [step |-> t, id |-> i, copy |-> c]
  BY DEF AppInv, AppGround, AppTypeOK
<1>2. AppName(r)' = IF t = "done" THEN Nil ELSE N
  BY <1>1 DEF AppName, AppCopy, AppRest, NoApp
<1>3. ASSUME NEW n \in AppNames \ appUnsure', n # N PROVE NameSound(n)'
  BY <1>1, <1>2, <1>3, AppOthers
<1>4. ASSUME N \notin appUnsure' PROVE NameSound(N)'
  <2>1. NameShared(N)' /\ (t = "done" => RowsWhole(N)') /\ (t # "done" => AppPhase(t, i, c)')
    BY <1>4 DEF NameAt
  <2>2. \A q \in AppReqs : AppName(q)' = N => q = r /\ t # "done"
    BY <1>1, <1>2, <1>4, AppNumbers DEF AppName, AppCopy
  <2>3. t # "done" => AppName(r)' = N
    BY <1>2
  <2>4. ASSUME NEW q \in AppReqs, AppName(q)' = N PROVE AppPhase(appReq[q].step, appReq[q].id, appReq[q].copy)'
    <3>1. q = r /\ t # "done"
      BY <2>2, <2>4
    <3>2. appReq'[q].step = t /\ appReq'[q].id = i /\ appReq'[q].copy = c
      BY <1>1, <3>1
    <3>3. QED
      BY <2>1, <3>1, <3>2
  <2>5. QED
    BY <2>1, <2>2, <2>3, <2>4 DEF NameSound
<1>5. QED
  BY <1>3, <1>4 DEF AppInv

LEMMA AppBegins ==
  ASSUME AppInv, NEW r \in AppReqs, NEW N \in AppNames, NEW t, NEW i, NEW c, NEW doubt, AppBeginIn(r, t, i, c, doubt),
         c.name = N, AppGround', OtherNames(N),
         NameShared(N) /\ RowsWhole(N) => N \in doubt \/ NameAt(N, t, i, c)'
  PROVE  AppInv'
<1>1. AppName(r) = Nil
  BY DEF AppBeginIn, AppInv, AppGround, AppRest, AppName, AppCopy, NoApp
<1>2. N \notin appUnsure' => N \notin appUnsure /\ N \notin doubt /\ N \notin NamesAtWork
  BY DEF AppBeginIn, Doubt
<1>3. N \notin NamesAtWork => \A q \in AppReqs : AppName(q) # N
  BY AppNumbers DEF NamesAtWork
<1>4. N \notin appUnsure' => NameShared(N) /\ RowsWhole(N)
  BY <1>2, <1>3 DEF AppInv, NameSound
<1>5. appUnsure \subseteq appUnsure'
  BY DEF AppBeginIn, Doubt
<1>6. appReq' = [appReq EXCEPT ![r] = IF t = "done" THEN AppRest ELSE [step |-> t, id |-> i, copy |-> c]]
  BY DEF AppBeginIn
<1>7. N \notin appUnsure' => (\A q \in AppReqs : AppName(q) = N => q = r) /\ NameAt(N, t, i, c)'
  BY <1>2, <1>3, <1>4
<1>8. QED
  BY <1>1, <1>5, <1>6, <1>7, AppMove

LEMMA AppContinues ==
  ASSUME AppInv, NEW r \in AppReqs, NEW f, NEW i, NEW c, appReq[r] = [step |-> f, id |-> i, copy |-> c], f # "done",
         NEW t, NEW j, NEW d, appReq' = [appReq EXCEPT ![r] = IF t = "done" THEN AppRest ELSE [step |-> t, id |-> j, copy |-> d]],
         d.name = c.name, AppGround', appUnsure \subseteq appUnsure', OtherNames(c.name),
         NameAt(c.name, f, i, c) => c.name \in appUnsure' \/ NameAt(c.name, t, j, d)'
  PROVE  AppInv'
<1>. PICK N : N = c.name
  OBVIOUS
<1>1. AppName(r) = N /\ N \in AppNames
  BY DEF AppInv, AppGround, AppName, AppCopy, AppAt
<1>2. N \notin appUnsure => (\A q \in AppReqs : AppName(q) = N => q = r) /\ NameAt(N, f, i, c)
  BY <1>1 DEF AppInv, NameSound, NameAt
<1>3. N \notin appUnsure' => (\A q \in AppReqs : AppName(q) = N => q = r) /\ NameAt(N, t, j, d)'
  BY <1>2
<1>4. QED
  BY <1>1, <1>3, AppMove

\* Only the app i refers to the host h, if anybody; the requests about i have the name N.
OurApps(h, i) == \/ h = 0
              \/ /\ i # 0
                 /\ \A j \in AppIds : appRow[j].host = h => j = i
                 /\ \A q \in AppReqs : AppCopy(q).host = h => appReq[q].id = i
About(i, N) == /\ i \in AppIds
               /\ appRow[i].there => appRow[i].name = N
               /\ \A q \in AppReqs : appReq[q].id = i => AppName(q) = N
RowGoesOn(i, N) ==
  \/ appRow'[i] = appRow[i] \/ appRow'[i] = NoApp
  \/ /\ appRow'[i].there /\ appRow'[i].name = N /\ OurApps(appRow'[i].host, i)
     /\ appRow[i].there \/ \A q \in AppReqs : appReq[q].id # i

LEMMA RowRefers ==
  ASSUME AppGround, NEW i \in AppIds, appRow[i].there
  PROVE  About(i, appRow[i].name) /\ OurApps(appRow[i].host, i) /\ appRow[i].name \in AppNames /\ appRow[i] \in AppRow
  BY AppNumbers DEF AppGround, AppTypeOK, HostsOwned, About, OurApps, AppName, AppCopy

\* What a request at work has.
LEMMA AppWorker ==
  ASSUME AppGround, NEW r \in AppReqs, ~AppAt(r, "done")
  PROVE  \E i \in AppIds \cup {0}, c \in AppRow :
           /\ appReq[r] = [step |-> appReq[r].step, id |-> i, copy |-> c] /\ c.name \in AppNames
           /\ (i = 0 <=> appReq[r].step \in {"insert", "user"}) /\ (i # 0 => About(i, c.name)) /\ OurApps(c.host, i)
<1>1. PICK i \in AppIds \cup {0}, c \in AppRow : appReq[r] = [step |-> appReq[r].step, id |-> i, copy |-> c]
  BY DEF AppGround, AppTypeOK
<1>2. c.name \in AppNames /\ (i = 0 <=> appReq[r].step \in {"insert", "user"})
  BY <1>1 DEF AppGround, AppAt, AppName, AppCopy
<1>3. i # 0 => About(i, c.name)
  BY <1>1 DEF AppGround, About, AppName, AppCopy
<1>4. OurApps(c.host, i)
  BY <1>1 DEF AppGround, HostsOwned, OurApps, AppCopy
<1>5. QED
  BY <1>1, <1>2, <1>3, <1>4

LEMMA AppGoes ==
  ASSUME AppGround, NEW r \in AppReqs, NEW f, NEW i, NEW c, appReq[r] = [step |-> f, id |-> i, copy |-> c],
         NEW t, AppGo(r, t)
  PROVE  appReq' = [appReq EXCEPT ![r] = IF t = "done" THEN AppRest ELSE [step |-> t, id |-> i, copy |-> c]]
<1>1. [appReq[r] EXCEPT !.step = t] = [step |-> t, id |-> i, copy |-> c]
  OBVIOUS
<1>2. appReq' = [appReq EXCEPT ![r] = IF t = "done" THEN AppRest ELSE [appReq[r] EXCEPT !.step = t]]
  BY DEF AppGo
<1>3. QED
  BY <1>1, <1>2

\* The ground stays if one row at most changes, the one of the request's app.
LEMMA GroundMove ==
  ASSUME AppGround, NEW r \in AppReqs, NEW N \in AppNames, NEW t, NEW i \in AppIds \cup {0}, NEW c,
         appReq' = [appReq EXCEPT ![r] = IF t = "done" THEN AppRest ELSE [step |-> t, id |-> i, copy |-> c]],
         c.name = N, t = "insert" => c.there, t = "done" \/ (i = 0 <=> t \in {"insert", "user"}), i # 0 => About(i, N), OurApps(c.host, i),
         \A j \in AppIds \ {i} : appRow'[j] = appRow[j], i # 0 => RowGoesOn(i, N), AppTypeOK'
  PROVE  AppGround'
<1>1. /\ \A q \in AppReqs \ {r} : appReq'[q] = appReq[q]
      /\ appReq'[r] = IF t = "done" THEN AppRest ELSE [step |-> t, id |-> i, copy |-> c]
  BY DEF AppGround, AppTypeOK
<1>2. AppRest.step = "done" /\ AppRest.id = 0 /\ AppRest.copy.host = 0 /\ NoApp.host = 0 /\ ~NoApp.there
  BY DEF AppRest, NoApp
<1>3. \A j \in AppIds : IF appRow'[j].there THEN appRow'[j].name \in AppNames ELSE appRow'[j] = NoApp
  <2>1. ASSUME NEW j \in AppIds, j # i PROVE IF appRow'[j].there THEN appRow'[j].name \in AppNames ELSE appRow'[j] = NoApp
    <3>1. appRow'[j] = appRow[j]
      BY <2>1
    <3>2. QED
      BY <3>1 DEF AppGround
  <2>2. ASSUME NEW j \in AppIds, j = i PROVE IF appRow'[j].there THEN appRow'[j].name \in AppNames ELSE appRow'[j] = NoApp
    <3>1. RowGoesOn(j, N)
      BY <2>2, AppNumbers
    <3>2. QED
      BY <1>2, <3>1 DEF RowGoesOn, AppGround
  <2>3. QED
    BY <2>1, <2>2
<1>4. \A q \in AppReqs : IF AppAt(q, "done")' THEN appReq'[q] = AppRest ELSE AppName(q)' \in AppNames
  <2>1. ASSUME NEW q \in AppReqs \ {r} PROVE IF AppAt(q, "done")' THEN appReq'[q] = AppRest ELSE AppName(q)' \in AppNames
    BY <1>1 DEF AppGround, AppAt, AppName, AppCopy
  <2>2. IF AppAt(r, "done")' THEN appReq'[r] = AppRest ELSE AppName(r)' \in AppNames
    BY <1>1, <1>2 DEF AppAt, AppName, AppCopy
  <2>3. QED
    BY <2>1, <2>2
<1>a. \A q \in AppReqs : AppAt(q, "insert")' => AppCopy(q).there'
  BY <1>1, <1>2 DEF AppGround, AppAt, AppCopy
<1>5. \A q \in AppReqs : appReq'[q].id = 0 <=> appReq'[q].step \in {"done", "insert", "user"}
  BY <1>1, <1>2 DEF AppGround
<1>6. \A q \in AppReqs : appReq'[q].id # 0 => appReq'[q].id \in AppIds
  BY DEF AppTypeOK
<1>7. \A q \in AppReqs : appReq'[q].id = i /\ i # 0 => AppName(q)' = N
  BY <1>1, <1>2 DEF About, AppName, AppCopy
<1>8. \A q \in AppReqs : appReq'[q].id # i /\ appReq'[q].id # 0 => q # r
  BY <1>1, <1>2
<1>9. \A q \in AppReqs : appReq'[q].id # 0 /\ appRow'[appReq'[q].id].there => appRow'[appReq'[q].id].name = AppName(q)'
  <2>. SUFFICES ASSUME NEW q \in AppReqs, appReq'[q].id # 0, appRow'[appReq'[q].id].there
                PROVE  appRow'[appReq'[q].id].name = AppName(q)'
    OBVIOUS
  <2>1. CASE appReq'[q].id = i
    <3>1. i # 0 /\ AppName(q)' = N /\ appRow'[i].there
      BY <1>7, <2>1
    <3>2. appRow'[i].name = N
      BY <1>2, <3>1 DEF RowGoesOn, About
    <3>3. QED
      BY <2>1, <3>1, <3>2
  <2>2. CASE appReq'[q].id # i
    <3>1. q # r /\ appReq'[q] = appReq[q] /\ appReq[q].id \in AppIds \ {i}
      BY <1>1, <1>6, <1>8, <2>2
    <3>2. appRow'[appReq[q].id] = appRow[appReq[q].id]
      BY <3>1
    <3>3. QED
      BY <3>1, <3>2 DEF AppGround, AppName, AppCopy
  <2>3. QED
    BY <2>1, <2>2
<1>10. ASSUME NEW p \in AppReqs, NEW q \in AppReqs, appReq'[p].id = appReq'[q].id, appReq'[q].id # 0
       PROVE  AppName(p)' = AppName(q)'
  <2>1. CASE appReq'[q].id = i
    BY <1>7, <1>10, <2>1
  <2>2. CASE appReq'[q].id # i
    BY <1>1, <1>8, <1>10, <2>2 DEF AppGround, AppName, AppCopy
  <2>3. QED
    BY <2>1, <2>2
<1>11. HostsOwned'
  <2>1. \A j \in AppIds : appRow'[j].host = 0 \/ appRow'[j].host = appRow[j].host \/ (j = i /\ OurApps(appRow'[j].host, i))
    <3>1. ASSUME NEW j \in AppIds, j = i PROVE appRow'[j].host = 0 \/ appRow'[j].host = appRow[j].host \/ OurApps(appRow'[j].host, i)
      <4>1. RowGoesOn(j, N)
        BY <3>1, AppNumbers
      <4>2. QED
        BY <1>2, <3>1, <4>1 DEF RowGoesOn
    <3>2. QED
      BY <3>1
  <2>2. \A q \in AppReqs : \/ appReq'[q].copy.host = 0
                           \/ q # r /\ appReq'[q] = appReq[q]
                           \/ q = r /\ appReq'[q].copy.host = c.host /\ appReq'[q].id = i
    BY <1>1, <1>2
  <2>3. \A j, k \in AppIds : appRow'[j].host = appRow'[k].host /\ appRow'[j].host # 0 => j = k
    BY <2>1 DEF AppGround, HostsOwned, OurApps
  <2>4. \A q \in AppReqs, j \in AppIds : appReq'[q].copy.host = appRow'[j].host /\ appRow'[j].host # 0 => appReq'[q].id = j
    <3>. SUFFICES ASSUME NEW q \in AppReqs, NEW j \in AppIds, appReq'[q].copy.host = appRow'[j].host, appRow'[j].host # 0
                  PROVE  appReq'[q].id = j
      OBVIOUS
    <3>1. CASE q # r /\ appReq'[q] = appReq[q]
      BY <2>1, <3>1 DEF AppGround, HostsOwned, OurApps, AppCopy
    <3>2. CASE appReq'[q].copy.host = c.host /\ appReq'[q].id = i
      BY <2>1, <3>2 DEF OurApps
    <3>3. QED
      BY <2>2, <3>1, <3>2
  <2>5. \A p, q \in AppReqs : appReq'[p].copy.host = appReq'[q].copy.host /\ appReq'[p].copy.host # 0
                                => appReq'[p].id = appReq'[q].id /\ appReq'[q].id # 0
    BY <2>2 DEF AppGround, HostsOwned, OurApps, AppCopy
  <2>6. QED
    BY <2>3, <2>4, <2>5 DEF HostsOwned, AppCopy
<1>12. QED
  BY <1>3, <1>4, <1>a, <1>5, <1>9, <1>10, <1>11 DEF AppGround

\* What a step of a request on name N is, about row i.
GroundMoves(r, N, t, i, c) ==
  /\ appReq' = [appReq EXCEPT ![r] = IF t = "done" THEN AppRest ELSE [step |-> t, id |-> i, copy |-> c]]
  /\ c.name = N /\ (t = "insert" => c.there) /\ (t = "done" \/ (i = 0 <=> t \in {"insert", "user"}))
  /\ (i # 0 => About(i, N)) /\ OurApps(c.host, i)
  /\ (\A j \in AppIds \ {i} : appRow'[j] = appRow[j]) /\ (i # 0 => RowGoesOn(i, N)) /\ AppTypeOK'

\* Such a step keeps what holds of all rows.
LEMMA GroundMoved ==
  ASSUME AppGround, NEW r \in AppReqs, NEW N \in AppNames, NEW t, NEW i \in AppIds \cup {0}, NEW c, GroundMoves(r, N, t, i, c)
  PROVE  AppGround'
BY GroundMove DEF GroundMoves

\* A host that only the app i refers to may change, or one that nobody refers to.
LEMMA HostsElsewhere ==
  ASSUME AppGround, NEW i \in AppIds \cup {0}, NEW N, NEW h, OurApps(h, i), i # 0 => About(i, N),
         \A g \in HostIds : g # h => appHost'[g] = appHost[g]
  PROVE  OtherHosts(N)
<1>1. \A j \in AppIds : appRow[j].host \in HostIds \cup {0} /\ (~appRow[j].there => appRow[j].name = Nil)
  BY DEF AppGround, AppTypeOK, AppRow, NoApp
<1>2. \A q \in AppReqs : AppCopy(q).host \in HostIds \cup {0}
  BY DEF AppGround, AppTypeOK, AppRow, AppCopy
<1>3. ASSUME NEW j \in AppIds, appRow[j].name \notin {N, Nil}, appRow[j].host # 0
      PROVE  appRow[j].host # h
  BY <1>1, <1>3 DEF OurApps, About
<1>4. ASSUME NEW q \in AppReqs, AppName(q) \notin {N, Nil}, AppCopy(q).host # 0
      PROVE  AppCopy(q).host # h
  BY <1>4 DEF OurApps, About
<1>5. QED
  BY <1>1, <1>2, <1>3, <1>4 DEF OtherHosts

\* A status touches its column and no other, and no row that is gone.
LEMMA StatusDoes ==
  ASSUME AppGround, NEW i \in AppIds, NEW s \in {"installing", "running", "stopped", "error"}, Status(i, s)
  PROVE  /\ appRow' \in [AppIds -> AppRow]
         /\ \A j \in AppIds \ {i} : appRow'[j] = appRow[j]
         /\ ~appRow[i].there => appRow'[i] = appRow[i]
         /\ appRow[i].there =>
              /\ appRow'[i].there /\ appRow'[i].name = appRow[i].name /\ appRow'[i].domain = appRow[i].domain
              /\ appRow'[i].host = appRow[i].host /\ appRow'[i].ver = appRow[i].ver /\ appRow'[i].status = s
  BY DEF Status, Column, AppGround, AppTypeOK, AppRow

\* Everything but the requests has its type.
DataOK ==
  /\ appRow \in [AppIds -> AppRow] /\ appDir \in [AppIds -> AppDir]
  /\ appStack \in [AppNames -> AppIds \cup {0, TheUser}] /\ appProject \in [AppNames -> AppIds \cup {0, TheUser}]
  /\ appHost \in [HostIds -> AppDomains \cup {Nil}] /\ appCatalog \in AppVersions /\ appUnsure \subseteq AppNames

\* A step touches the app i, the name N and the host h at most.
Touches(i, N, h) ==
  /\ i # 0 => RowGoesOn(i, N)
  /\ \A j \in AppIds \ {i} : appRow'[j] = appRow[j] /\ appDir'[j] = appDir[j]
  /\ \A n \in AppNames \ {N} : appStack'[n] = appStack[n] /\ appProject'[n] = appProject[n]
  /\ \A g \in HostIds : g # h => appHost'[g] = appHost[g]

LEMMA AppFrame ==
  ASSUME AppGround, NEW N \in AppNames, NEW i \in AppIds \cup {0}, NEW h, i # 0 => About(i, N), OurApps(h, i), Touches(i, N, h)
  PROVE  OtherNames(N)
<1>1. ASSUME NEW j \in AppIds, j = i PROVE appRow[j].name \in {N, Nil} /\ appRow'[j].name \in {N, Nil}
  <2>1. RowGoesOn(j, N) /\ About(j, N) /\ NoApp.name = Nil
    BY <1>1, AppNumbers DEF Touches, NoApp
  <2>2. appRow[j].name \in {N, Nil}
    BY <2>1 DEF AppGround, About
  <2>3. QED
    BY <2>1, <2>2 DEF RowGoesOn
<1>2. \A j \in AppIds : \/ appRow'[j] = appRow[j] /\ appDir'[j] = appDir[j]
                        \/ appRow[j].name \in {N, Nil} /\ appRow'[j].name \in {N, Nil}
  BY <1>1 DEF Touches
<1>3. \A g \in HostIds : g # h => appHost'[g] = appHost[g]
  BY DEF Touches
<1>4. OtherHosts(N)
  BY <1>3, HostsElsewhere
<1>5. QED
  BY <1>2, <1>4 DEF OtherNames, Touches

LEMMA AppStarts ==
  ASSUME AppInv, NEW r \in AppReqs, NEW N \in AppNames, NEW t \in AppSteps, NEW i \in AppIds \cup {0}, NEW c \in AppRow,
         NEW doubt, AppBeginIn(r, t, i, c, doubt), c.name = N, t = "insert" => c.there, t = "done" \/ (i = 0 <=> t \in {"insert", "user"}),
         i # 0 => About(i, N), OurApps(c.host, i), DataOK', NEW h, OurApps(h, i), Touches(i, N, h),
         NameShared(N) /\ RowsWhole(N) => N \in doubt \/ NameAt(N, t, i, c)'
  PROVE  AppInv'
<1>1. appReq' = [appReq EXCEPT ![r] = IF t = "done" THEN AppRest ELSE [step |-> t, id |-> i, copy |-> c]]
  BY DEF AppBeginIn
<1>2. AppTypeOK'
  <2>1. AppRest \in [step : AppSteps, id : AppIds \cup {0}, copy : AppRow]
    BY AppAssumption DEF AppRest, NoApp, AppRow, AppSteps
  <2>2. appReq' \in [AppReqs -> [step : AppSteps, id : AppIds \cup {0}, copy : AppRow]]
    BY <1>1, <2>1 DEF AppInv, AppGround, AppTypeOK
  <2>3. QED
    BY <2>2 DEF DataOK, AppTypeOK
<1>3. AppGround'
  <2>1. (\A j \in AppIds \ {i} : appRow'[j] = appRow[j]) /\ (i # 0 => RowGoesOn(i, N))
    BY DEF Touches
  <2>2. AppGround
    BY DEF AppInv
  <2>3. GroundMoves(r, N, t, i, c)
    BY <1>1, <1>2, <2>1 DEF GroundMoves
  <2> QED
    BY <2>2, <2>3, GroundMoved
<1>4. OtherNames(N)
  BY AppFrame DEF AppInv
<1>5. QED
  BY <1>3, <1>4, AppBegins

LEMMA AppStep ==
  ASSUME AppInv, NEW r \in AppReqs, NEW f, NEW i \in AppIds \cup {0}, NEW c, appReq[r] = [step |-> f, id |-> i, copy |-> c], f # "done",
         NEW t \in AppSteps, NEW j \in AppIds \cup {0}, NEW d \in AppRow, d.name = c.name,
         appReq' = [appReq EXCEPT ![r] = IF t = "done" THEN AppRest ELSE [step |-> t, id |-> j, copy |-> d]],
         t = "insert" => d.there, t = "done" \/ (j = 0 <=> t \in {"insert", "user"}), j # 0 => About(j, c.name), OurApps(d.host, j),
         DataOK', appUnsure \subseteq appUnsure', NEW h, OurApps(h, j), Touches(j, c.name, h),
         NameAt(c.name, f, i, c) => c.name \in appUnsure' \/ NameAt(c.name, t, j, d)'
  PROVE  AppInv'
<1>0. c.name \in AppNames
  BY DEF AppInv, AppGround, AppAt, AppName, AppCopy
<1>2. AppTypeOK'
  <2>1. AppRest \in [step : AppSteps, id : AppIds \cup {0}, copy : AppRow]
    BY AppAssumption DEF AppRest, NoApp, AppRow, AppSteps
  <2>2. appReq' \in [AppReqs -> [step : AppSteps, id : AppIds \cup {0}, copy : AppRow]]
    BY <2>1 DEF AppInv, AppGround, AppTypeOK
  <2>3. QED
    BY <2>2 DEF DataOK, AppTypeOK
<1>3. AppGround'
  <2>1. (\A k \in AppIds \ {j} : appRow'[k] = appRow[k]) /\ (j # 0 => RowGoesOn(j, c.name))
    BY DEF Touches
  <2>2. AppGround
    BY DEF AppInv
  <2>3. GroundMoves(r, c.name, t, j, d)
    BY <1>0, <1>2, <2>1 DEF GroundMoves
  <2> QED
    BY <1>0, <2>2, <2>3, GroundMoved
<1>4. OtherNames(c.name)
  BY <1>0, AppFrame DEF AppInv
<1>5. QED
  BY <1>3, <1>4, AppContinues

\* The request r, for the app i with the copy c, goes on from the step f to the step t.
LEMMA AppGoesOn ==
  ASSUME AppInv, NEW r \in AppReqs, NEW f, NEW i \in AppIds \cup {0}, NEW c \in AppRow,
         appReq[r] = [step |-> f, id |-> i, copy |-> c], f # "done", i # 0 => About(i, c.name), OurApps(c.host, i),
         NEW t \in AppSteps, AppGo(r, t), t # "insert", t = "done" \/ (i = 0 <=> t \in {"insert", "user"}),
         DataOK', appUnsure \subseteq appUnsure', NEW h, OurApps(h, i), Touches(i, c.name, h),
         NameAt(c.name, f, i, c) => c.name \in appUnsure' \/ NameAt(c.name, t, i, c)'
  PROVE  AppInv'
<1>1. appReq' = [appReq EXCEPT ![r] = IF t = "done" THEN AppRest ELSE [step |-> t, id |-> i, copy |-> c]]
  BY AppGoes DEF AppInv
<1>2. QED
  BY <1>1, AppStep

LEMMA AppWorkerAt ==
  ASSUME AppInv, NEW r \in AppReqs, NEW f \in AppSteps \ {"done", "insert", "user"}, AppAt(r, f)
  PROVE  \E i \in AppIds, c \in AppRow : /\ appReq[r] = [step |-> f, id |-> i, copy |-> c] /\ c.name \in AppNames
                                         /\ About(i, c.name) /\ OurApps(c.host, i)
<1>1. AppGround /\ ~AppAt(r, "done") /\ appReq[r].step = f
  BY DEF AppInv, AppAt
<1>2. PICK i \in AppIds \cup {0}, c \in AppRow :
           /\ appReq[r] = [step |-> appReq[r].step, id |-> i, copy |-> c] /\ c.name \in AppNames
           /\ (i = 0 <=> appReq[r].step \in {"insert", "user"}) /\ (i # 0 => About(i, c.name)) /\ OurApps(c.host, i)
  BY <1>1, AppWorker
<1>3. QED
  BY <1>1, <1>2

LEMMA AppWorkerZero ==
  ASSUME AppInv, NEW r \in AppReqs, NEW f \in {"insert", "user"}, AppAt(r, f)
  PROVE  \E c \in AppRow : /\ appReq[r] = [step |-> f, id |-> 0, copy |-> c] /\ c.name \in AppNames /\ OurApps(c.host, 0)
                           /\ (f = "insert" => c.there)
<1>1. AppGround /\ ~AppAt(r, "done") /\ appReq[r].step = f
  BY DEF AppInv, AppAt
<1>2. PICK i \in AppIds \cup {0}, c \in AppRow :
           /\ appReq[r] = [step |-> appReq[r].step, id |-> i, copy |-> c] /\ c.name \in AppNames
           /\ (i = 0 <=> appReq[r].step \in {"insert", "user"}) /\ (i # 0 => About(i, c.name)) /\ OurApps(c.host, i)
  BY <1>1, AppWorker
<1>3. f = "insert" => c.there
  BY <1>1, <1>2 DEF AppGround, AppAt, AppCopy
<1>4. QED
  BY <1>1, <1>2, <1>3

LEMMA NoHost == \A i : OurApps(0, i)
  BY DEF OurApps

LEMMA StepNames == {"done", "insert", "write", "stack", "up", "host", "finish", "unstack", "unhost", "drop",
                    "newhost", "save", "env", "mark", "rewrite", "reup", "user"} = AppSteps
  BY DEF AppSteps

LEMMA AppStartsSure ==
  ASSUME AppInv, NEW r \in AppReqs, NEW N \in AppNames, NEW t \in AppSteps, NEW i \in AppIds \cup {0}, NEW c \in AppRow,
         AppBegin(r, t, i, c), c.name = N, t = "insert" => c.there, t = "done" \/ (i = 0 <=> t \in {"insert", "user"}),
         i # 0 => About(i, N), OurApps(c.host, i), DataOK', NEW h, OurApps(h, i), Touches(i, N, h),
         NameShared(N) /\ RowsWhole(N) => NameAt(N, t, i, c)'
  PROVE  AppInv'
<1>1. PICK e : e = {}
  OBVIOUS
<1>2. AppBeginIn(r, t, i, c, e)
  BY <1>1 DEF AppBegin
<1>3. NameShared(N) /\ RowsWhole(N) => N \in e \/ NameAt(N, t, i, c)'
  OBVIOUS
<1>. HIDE DEF AppBegin
<1>4. QED
  BY <1>2, <1>3, AppStarts

\* A row's columns change, if it is there, and no other row.
LEMMA ColumnDoes ==
  ASSUME AppGround, NEW i \in AppIds, NEW N, About(i, N), NEW row, Column(i, row),
         appRow[i].there => row \in AppRow /\ row.there /\ row.name = appRow[i].name /\ OurApps(row.host, i)
  PROVE  /\ appRow' \in [AppIds -> AppRow] /\ RowGoesOn(i, N)
         /\ \A j \in AppIds \ {i} : appRow'[j] = appRow[j]
         /\ appRow'[i] = IF appRow[i].there THEN row ELSE appRow[i]
<1>1. appRow \in [AppIds -> AppRow]
  BY DEF AppGround, AppTypeOK
<1>2. CASE appRow[i].there
  BY <1>1, <1>2 DEF Column, About, RowGoesOn
<1>3. CASE ~appRow[i].there
  BY <1>1, <1>3 DEF Column, RowGoesOn
<1>4. QED
  BY <1>2, <1>3

LEMMA StatusMoves ==
  ASSUME AppGround, NEW i \in AppIds, NEW N, About(i, N), NEW s \in {"installing", "running", "stopped", "error"}, Status(i, s)
  PROVE  RowGoesOn(i, N)
<1>1. appRow[i].there => OurApps(appRow[i].host, i) /\ appRow[i].name = N
  BY RowRefers DEF About
<1>2. QED
  BY <1>1, StatusDoes DEF RowGoesOn

-----------------------------------------------------------------------------
\* Installation.
LEMMA InstallKeeps == ASSUME AppInv, NEW r \in AppReqs, InstallApp(r) PROVE AppInv'
<1>1. PICK n \in AppNames, d \in AppDomains \cup {Nil} :
        /\ \A i \in AppIds : appRow[i].name # n
        /\ AppBegin(r, "insert", 0, [NoApp EXCEPT !.there = TRUE, !.name = n, !.domain = d,
                                                  !.status = "installing", !.ver = appCatalog])
  BY DEF InstallApp
<1>. PICK c : c = [NoApp EXCEPT !.there = TRUE, !.name = n, !.domain = d, !.status = "installing", !.ver = appCatalog]
  OBVIOUS
<1>2. c \in AppRow /\ c.name = n /\ c.there /\ c.status = "installing" /\ c.host = 0
  BY AppAssumption DEF NoApp, AppRow, AppInv, AppGround, AppTypeOK
<1>3. UNCHANGED <<appRow, appDir, appStack, appProject, appHost, appCatalog>>
  BY DEF InstallApp
<1>4. AppBegin(r, "insert", 0, c)
  BY <1>1
<1>5. DataOK'
  BY <1>2, <1>3, <1>4 DEF AppBegin, AppBeginIn, Doubt, DataOK, AppInv, AppGround, AppTypeOK
<1>6. Touches(0, n, 0)
  BY <1>3 DEF Touches
<1>7. NameShared(n) /\ RowsWhole(n) => NameAt(n, "insert", 0, c)'
  BY <1>1, <1>2, <1>3, AppNumbers DEF NameShared, NameAt, AppPhase, AppInv, AppGround, AppTypeOK
<1>8. "insert" \in AppSteps /\ OurApps(c.host, 0) /\ OurApps(0, 0) /\ 0 \in AppIds \cup {0} /\ "insert" \in {"insert", "user"}
  BY <1>2, NoHost, StepNames
<1>9. QED
  <2>1. n \in AppNames /\ c \in AppRow /\ c.name = n /\ c.there
    BY <1>2
  <2>2. QED
    BY <1>4, <1>5, <1>6, <1>7, <1>8, <2>1, AppStartsSure

LEMMA InsertAppKeeps == ASSUME AppInv, NEW r \in AppReqs, InsertApp(r) PROVE AppInv'
<1>1. AppAt(r, "insert") /\ UNCHANGED <<appStack, appProject, appHost, appCatalog, appUnsure>>
  BY DEF InsertApp
<1>2. PICK c \in AppRow : appReq[r] = [step |-> "insert", id |-> 0, copy |-> c] /\ c.name \in AppNames /\ OurApps(c.host, 0) /\ c.there
  BY <1>1, AppWorkerZero
<1>3. PICK i \in AppIds :
        /\ ~appRow[i].there /\ \A q \in AppReqs : appReq[q].id # i
        /\ appRow' = [appRow EXCEPT ![i] = AppCopy(r)] /\ appDir' = [appDir EXCEPT ![i] = NoAppDir]
        /\ appReq' = [appReq EXCEPT ![r].step = "write", ![r].id = i]
  BY DEF InsertApp
<1>a. AppCopy(r) = c
  BY <1>2 DEF AppCopy
<1>4. appReq' = [appReq EXCEPT ![r] = [step |-> "write", id |-> i, copy |-> c]]
  BY <1>2, <1>3 DEF AppInv, AppGround, AppTypeOK
<1>5. About(i, c.name) /\ OurApps(c.host, i) /\ c.host = 0
  BY <1>2, <1>3 DEF About, OurApps
<1>6. NoAppDir \in AppDir
  BY AppAssumption DEF NoAppDir, AppDir
<1>7. DataOK'
  BY <1>1, <1>3, <1>6 DEF DataOK, AppInv, AppGround, AppTypeOK
<1>8. Touches(i, c.name, 0)
  <2>1. RowGoesOn(i, c.name)
    BY <1>a, <1>2, <1>3, <1>5 DEF RowGoesOn, AppInv, AppGround, AppTypeOK
  <2>. QED
    BY <1>1, <1>3, <2>1 DEF Touches, AppInv, AppGround, AppTypeOK
<1>b. "write" \in AppSteps
  BY StepNames
<1>9. NameAt(c.name, "insert", 0, c) => NameAt(c.name, "write", i, c)'
  <2>1. appRow'[i] = c /\ \A j \in AppIds \ {i} : appRow'[j] = appRow[j]
    BY <1>3, <1>a DEF AppInv, AppGround, AppTypeOK
  <2>2. NameShared(c.name) /\ (\A j \in AppIds : appRow[j].name # c.name) => NameShared(c.name)'
    BY <1>1, <2>1, AppNumbers DEF NameShared
  <2>3. AppPhase("insert", 0, c) => AppPhase("write", i, c)'
    BY <1>1, <1>2, <2>1 DEF AppPhase
  <2>4. QED
    BY <2>2, <2>3 DEF NameAt, AppPhase
<1>10. QED
  BY <1>1, <1>2, <1>4, <1>5, <1>7, <1>8, <1>9, <1>b, NoHost, AppNumbers, AppStep

\* The one app of the name is whole.
LEMMA WholeAgain ==
  ASSUME NEW N, NEW i \in AppIds, NameShared(N)', appRow'[i].name = N, AppWhole(i)'
  PROVE  RowsWhole(N)'
  BY DEF NameShared, RowsWhole

LEMMA WriteAppKeeps == ASSUME AppInv, NEW r \in AppReqs, WriteApp(r) PROVE AppInv'
<1>1. AppAt(r, "write") /\ UNCHANGED <<appStack, appProject, appHost, appCatalog>>
  BY DEF WriteApp
<1>2. PICK i \in AppIds, c \in AppRow : /\ appReq[r] = [step |-> "write", id |-> i, copy |-> c] /\ c.name \in AppNames
                                        /\ About(i, c.name) /\ OurApps(c.host, i)
  BY <1>1, AppWorkerAt, StepNames
<1>3. AppCopy(r) = c /\ AppName(r) = c.name /\ i # 0 /\ AppGround
  BY <1>2, AppNumbers DEF AppCopy, AppName, AppInv
<1>4. OurApps(0, i) /\ "stack" \in AppSteps /\ "done" \in AppSteps
  BY NoHost, StepNames
<1>5. CASE /\ appDir' = [appDir EXCEPT ![i] = [there |-> TRUE, domain |-> c.domain, ver |-> c.ver]]
           /\ AppGo(r, "stack") /\ UNCHANGED <<appRow, appUnsure>>
  <2>1. DataOK'
    BY <1>1, <1>5 DEF DataOK, AppInv, AppGround, AppTypeOK, AppDir, AppRow
  <2>2. Touches(i, c.name, 0)
    BY <1>1, <1>5 DEF Touches, RowGoesOn
  <2>3. appDir'[i] = [there |-> TRUE, domain |-> c.domain, ver |-> c.ver]
    BY <1>5 DEF AppInv, AppGround, AppTypeOK
  <2>4. NameAt(c.name, "write", i, c) => NameAt(c.name, "stack", i, c)'
    BY <1>1, <1>5, <2>3 DEF NameAt, NameShared, AppPhase, FilesOf
  <2>5. QED
    BY <1>2, <1>3, <1>4, <1>5, <2>1, <2>2, <2>4, AppGoesOn
<1>6. CASE Status(i, "error") /\ Doubt({c.name}) /\ AppGo(r, "done") /\ UNCHANGED appDir
  <2>1. DataOK' /\ appUnsure \subseteq appUnsure' /\ c.name \in appUnsure'
    BY <1>1, <1>2, <1>3, <1>6, StatusDoes DEF Doubt, DataOK, AppInv, AppGround, AppTypeOK
  <2>2. Touches(i, c.name, 0)
    BY <1>1, <1>2, <1>3, <1>6, StatusDoes, StatusMoves DEF Touches
  <2>3. QED
    BY <1>2, <1>3, <1>4, <1>6, <2>1, <2>2, AppGoesOn
<1>7. QED
  BY <1>2, <1>3, <1>5, <1>6 DEF WriteApp

LEMMA RecordStackKeeps == ASSUME AppInv, NEW r \in AppReqs, RecordStack(r) PROVE AppInv'
<1>1. AppAt(r, "stack") /\ AppGo(r, "up") /\ UNCHANGED <<appRow, appDir, appProject, appHost, appCatalog>>
  BY DEF RecordStack
<1>2. PICK i \in AppIds, c \in AppRow : /\ appReq[r] = [step |-> "stack", id |-> i, copy |-> c] /\ c.name \in AppNames
                                        /\ About(i, c.name) /\ OurApps(c.host, i)
  BY <1>1, AppWorkerAt, StepNames
<1>3. AppName(r) = c.name /\ i # 0 /\ appReq[r].id = i
  BY <1>2, AppNumbers DEF AppCopy, AppName
<1>4. OurApps(0, i) /\ "up" \in AppSteps
  BY NoHost, StepNames
<1>5. \/ appStack[c.name] = 0 /\ appStack' = [appStack EXCEPT ![c.name] = i] /\ UNCHANGED appUnsure
      \/ UNCHANGED appStack /\ appUnsure' = appUnsure \cup {c.name}
  BY <1>3 DEF RecordStack, Doubt
<1>6. DataOK' /\ appUnsure \subseteq appUnsure'
  BY <1>1, <1>2, <1>5 DEF DataOK, AppInv, AppGround, AppTypeOK
<1>7. Touches(i, c.name, 0)
  BY <1>1, <1>5 DEF Touches, RowGoesOn, AppInv, AppGround, AppTypeOK
<1>8. NameAt(c.name, "stack", i, c) => c.name \in appUnsure' \/ NameAt(c.name, "up", i, c)'
  <2>1. CASE appStack[c.name] = 0 /\ appStack' = [appStack EXCEPT ![c.name] = i]
    <3>1. appStack'[c.name] = i
      BY <1>2, <2>1 DEF AppInv, AppGround, AppTypeOK
    <3>2. NameShared(c.name) /\ AppPhase("stack", i, c) => NameShared(c.name)'
      BY <1>1, <2>1, <3>1 DEF NameShared, AppPhase
    <3>3. AppPhase("stack", i, c) => AppPhase("up", i, c)'
      BY <1>1, <3>1 DEF AppPhase, FilesOf
    <3>4. QED
      BY <3>2, <3>3 DEF NameAt
  <2>2. QED
    BY <1>5, <2>1
<1>9. QED
  BY <1>1, <1>2, <1>3, <1>4, <1>6, <1>7, <1>8, AppGoesOn

\* A failure leaves the app in error; all else is as it should be.
LEMMA UpInstalledKeeps == ASSUME AppInv, NEW r \in AppReqs, UpInstalled(r) PROVE AppInv'
<1>1. AppAt(r, "up") /\ UNCHANGED <<appDir, appStack, appHost, appCatalog, appUnsure>>
  BY DEF UpInstalled
<1>2. PICK i \in AppIds, c \in AppRow : /\ appReq[r] = [step |-> "up", id |-> i, copy |-> c] /\ c.name \in AppNames
                                        /\ About(i, c.name) /\ OurApps(c.host, i)
  BY <1>1, AppWorkerAt, StepNames
<1>3. AppName(r) = c.name /\ i # 0 /\ appReq[r].id = i /\ AppGround
  BY <1>2, AppNumbers DEF AppCopy, AppName, AppInv
<1>4. OurApps(0, i) /\ "finish" \in AppSteps /\ "host" \in AppSteps /\ "done" \in AppSteps
  BY NoHost, StepNames
<1>5. appProject' \in {appProject, [appProject EXCEPT ![c.name] = i]}
  BY <1>3 DEF UpInstalled, AppUp, AppUpFails
<1>6. /\ appProject' \in [AppNames -> AppIds \cup {0, TheUser}] /\ appProject'[c.name] \in {appProject[c.name], i}
      /\ \A n \in AppNames \ {c.name} : appProject'[n] = appProject[n]
  BY <1>2, <1>5 DEF AppInv, AppGround, AppTypeOK
<1>7. CASE (\E t \in {"finish", "host"} : AppGo(r, t)) /\ UNCHANGED appRow
  <2>1. PICK t \in {"finish", "host"} : AppGo(r, t)
    BY <1>7
  <2>2. DataOK'
    BY <1>1, <1>6, <1>7 DEF DataOK, AppInv, AppGround, AppTypeOK
  <2>3. Touches(i, c.name, 0)
    BY <1>1, <1>6, <1>7 DEF Touches, RowGoesOn
  <2>4. NameAt(c.name, "up", i, c) => NameAt(c.name, t, i, c)'
    <3>1. NameShared(c.name) /\ AppPhase("up", i, c) => NameShared(c.name)'
      BY <1>1, <1>6, <1>7 DEF NameShared, AppPhase
    <3>2. AppPhase("up", i, c) => AppPhase(t, i, c)'
      BY <1>1, <1>7 DEF AppPhase, FilesOf, HostOf
    <3>3. QED
      BY <3>1, <3>2 DEF NameAt
  <2>5. t \in AppSteps /\ t # "insert" /\ t # "done" /\ t \notin {"insert", "user"}
    BY <1>4
  <2>6. QED
    BY <1>1, <1>2, <1>3, <1>4, <2>1, <2>2, <2>3, <2>4, <2>5, AppGoesOn
<1>8. CASE Status(i, "error") /\ AppGo(r, "done")
  <2>1. DataOK'
    BY <1>1, <1>3, <1>6, <1>8, StatusDoes DEF DataOK, AppInv, AppGround, AppTypeOK
  <2>2. Touches(i, c.name, 0)
    BY <1>1, <1>2, <1>3, <1>6, <1>8, StatusDoes, StatusMoves DEF Touches
  <2>3. NameAt(c.name, "up", i, c) => NameAt(c.name, "done", i, c)'
    <3>. SUFFICES ASSUME NameShared(c.name), AppPhase("up", i, c) PROVE NameShared(c.name)' /\ RowsWhole(c.name)'
      BY DEF NameAt
    <3>1. appRow[i] = c /\ c.there /\ c.host = 0 /\ FilesOf(i) /\ appStack[c.name] = i
      BY DEF AppPhase
    <3>2. /\ \A j \in AppIds : appRow'[j].name = appRow[j].name
          /\ appRow'[i].domain = c.domain /\ appRow'[i].ver = c.ver /\ appRow'[i].host = 0 /\ appRow'[i].status = "error"
      BY <1>3, <1>8, <3>1, StatusDoes
    <3>3. NameShared(c.name)'
      BY <1>1, <1>6, <3>1, <3>2 DEF NameShared
    <3>4. AppWhole(i)'
      BY <1>1, <3>1, <3>2 DEF AppWhole, HostOf, FilesOf
    <3>5. QED
      BY <3>1, <3>2, <3>3, <3>4, WholeAgain
  <2>4. QED
    BY <1>1, <1>2, <1>3, <1>4, <1>8, <2>1, <2>2, <2>3, AppGoesOn
<1>9. QED
  BY <1>3, <1>7, <1>8 DEF UpInstalled

\* A new host is one that nobody refers to.
LEMMA NextHostFree == \A h \in NextHost : h \in HostIds /\ h # 0 /\ \A i \in AppIds : OurApps(h, i)
  BY AppNumbers DEF NextHost, FreeHosts, OurApps

LEMMA HostInstalledKeeps == ASSUME AppInv, NEW r \in AppReqs, HostInstalled(r) PROVE AppInv'
<1>1. AppAt(r, "host") /\ AppGo(r, "finish") /\ UNCHANGED <<appDir, appStack, appProject, appCatalog, appUnsure>>
  BY DEF HostInstalled
<1>2. PICK i \in AppIds, c \in AppRow : /\ appReq[r] = [step |-> "host", id |-> i, copy |-> c] /\ c.name \in AppNames
                                        /\ About(i, c.name) /\ OurApps(c.host, i)
  BY <1>1, AppWorkerAt, StepNames
<1>3. AppCopy(r) = c /\ i # 0 /\ appReq[r].id = i /\ AppGround
  BY <1>2, AppNumbers DEF AppCopy, AppInv
<1>4. OurApps(0, i) /\ "finish" \in AppSteps
  BY NoHost, StepNames
<1>5. CASE UNCHANGED <<appHost, appRow>>
  <2>1. DataOK'
    BY <1>1, <1>5 DEF DataOK, AppInv, AppGround, AppTypeOK
  <2>2. Touches(i, c.name, 0)
    BY <1>1, <1>5 DEF Touches, RowGoesOn
  <2>3. NameAt(c.name, "host", i, c) => NameAt(c.name, "finish", i, c)'
    BY <1>1, <1>5 DEF NameAt, NameShared, AppPhase, FilesOf, HostOf
  <2>4. QED
    BY <1>1, <1>2, <1>3, <1>4, <2>1, <2>2, <2>3, AppGoesOn
<1>6. ASSUME NEW h \in NextHost, appHost' = [appHost EXCEPT ![h] = c.domain], Column(i, [appRow[i] EXCEPT !.host = h])
      PROVE  AppInv'
  <2>1. h \in HostIds /\ h # 0 /\ OurApps(h, i)
    BY <1>6, NextHostFree
  <2>r. PICK row : row = [appRow[i] EXCEPT !.host = h]
    OBVIOUS
  <2>2. row \in AppRow /\ row.there = appRow[i].there /\ row.name = appRow[i].name /\ row.host = h
        /\ row.domain = appRow[i].domain /\ row.ver = appRow[i].ver /\ row.status = appRow[i].status
    BY <2>1, <2>r DEF AppInv, AppGround, AppTypeOK, AppRow
  <2>3. /\ appRow' \in [AppIds -> AppRow] /\ RowGoesOn(i, c.name)
        /\ \A j \in AppIds \ {i} : appRow'[j] = appRow[j]
        /\ appRow'[i] = IF appRow[i].there THEN row ELSE appRow[i]
    <3>1. Column(i, row) /\ AppGround /\ About(i, c.name)
      BY <1>2, <1>3, <1>6, <2>r
    <3>2. appRow[i].there => row \in AppRow /\ row.there /\ row.name = appRow[i].name /\ OurApps(row.host, i)
      BY <2>1, <2>2
    <3>3. QED
      BY <3>1, <3>2, ColumnDoes
  <2>4. DataOK'
    BY <1>1, <1>2, <1>6, <2>3 DEF DataOK, AppInv, AppGround, AppTypeOK, AppRow
  <2>5. Touches(i, c.name, h) /\ appHost'[h] = c.domain
    BY <1>1, <1>6, <2>1, <2>3 DEF Touches, AppInv, AppGround, AppTypeOK
  <2>6. NameAt(c.name, "host", i, c) => NameAt(c.name, "finish", i, c)'
    <3>1. NameShared(c.name) => NameShared(c.name)'
      <4>1. \A j \in AppIds : appRow'[j].name = appRow[j].name
        BY <2>2, <2>3
      <4>2. QED
        BY <1>1, <4>1 DEF NameShared
    <3>2. AppPhase("host", i, c) => AppPhase("finish", i, c)'
      BY <1>1, <2>2, <2>3, <2>5 DEF AppPhase, FilesOf, HostOf
    <3>3. QED
      BY <3>1, <3>2 DEF NameAt
  <2>7. QED
    BY <1>1, <1>2, <1>3, <1>4, <2>1, <2>4, <2>5, <2>6, AppGoesOn
<1>7. QED
  BY <1>3, <1>5, <1>6 DEF HostInstalled

LEMMA FinishInstallKeeps == ASSUME AppInv, NEW r \in AppReqs, FinishInstall(r) PROVE AppInv'
<1>1. AppAt(r, "finish") /\ AppGo(r, "done") /\ UNCHANGED <<appDir, appStack, appProject, appHost, appCatalog, appUnsure>>
  BY DEF FinishInstall
<1>2. PICK i \in AppIds, c \in AppRow : /\ appReq[r] = [step |-> "finish", id |-> i, copy |-> c] /\ c.name \in AppNames
                                        /\ About(i, c.name) /\ OurApps(c.host, i)
  BY <1>1, AppWorkerAt, StepNames
<1>3. i # 0 /\ Status(i, "running") /\ AppGround
  BY <1>2, AppNumbers DEF FinishInstall, AppInv
<1>4. OurApps(0, i) /\ "done" \in AppSteps
  BY NoHost, StepNames
<1>5. DataOK'
  BY <1>1, <1>3, StatusDoes DEF DataOK, AppInv, AppGround, AppTypeOK
<1>6. Touches(i, c.name, 0)
  BY <1>1, <1>2, <1>3, StatusDoes, StatusMoves DEF Touches
<1>7. NameAt(c.name, "finish", i, c) => NameAt(c.name, "done", i, c)'
  <2>. SUFFICES ASSUME NameShared(c.name), AppPhase("finish", i, c) PROVE NameShared(c.name)' /\ RowsWhole(c.name)'
    BY DEF NameAt
  <2>1. appRow[i].there /\ appRow[i].name = c.name /\ HostOf(i) /\ FilesOf(i) /\ appStack[c.name] = i
    BY <1>2 DEF AppPhase, About
  <2>2. /\ \A j \in AppIds : appRow'[j].name = appRow[j].name
        /\ appRow'[i].domain = appRow[i].domain /\ appRow'[i].ver = appRow[i].ver
        /\ appRow'[i].host = appRow[i].host /\ appRow'[i].status = "running"
    BY <1>3, <2>1, StatusDoes
  <2>3. NameShared(c.name)'
    BY <1>1, <2>2 DEF NameShared
  <2>4. AppWhole(i)'
    BY <1>1, <2>1, <2>2 DEF AppWhole, HostOf, FilesOf
  <2>5. QED
    BY <2>1, <2>2, <2>3, <2>4, WholeAgain
<1>8. QED
  BY <1>1, <1>2, <1>3, <1>4, <1>5, <1>6, <1>7, AppGoesOn

-----------------------------------------------------------------------------
\* Removal. The app's row is read whole; what fails leaves the name in doubt.
LEMMA UninstallKeeps == ASSUME AppInv, NEW r \in AppReqs, UninstallApp(r) PROVE AppInv'
<1>1. UNCHANGED <<appRow, appDir, appStack, appHost, appCatalog>>
  BY DEF UninstallApp
<1>2. PICK i \in AppIds :
        /\ appRow[i].there
        /\ \/ AppDown(appRow[i].name) /\ AppBegin(r, "unstack", i, appRow[i])
           \/ UNCHANGED appProject /\ AppBeginIn(r, "unstack", i, appRow[i], {appRow[i].name})
  BY DEF UninstallApp
<1>. PICK c, N : c = appRow[i] /\ N = c.name
  OBVIOUS
<1>3. About(i, N) /\ OurApps(c.host, i) /\ N \in AppNames /\ c \in AppRow /\ c.name = N /\ i # 0 /\ OurApps(0, i)
  BY <1>2, RowRefers, AppNumbers, NoHost DEF AppInv
<1>4. "unstack" \in AppSteps
  BY StepNames
<1>5. PICK doubt : /\ AppBeginIn(r, "unstack", i, c, doubt) /\ doubt \subseteq {N}
                   /\ UNCHANGED appProject \/ appProject' = [appProject EXCEPT ![N] = 0]
                   /\ N \in doubt \/ appProject' = [appProject EXCEPT ![N] = 0]
  BY <1>2 DEF AppBegin, AppDown
<1>6. DataOK'
  BY <1>1, <1>3, <1>5 DEF AppBeginIn, Doubt, DataOK, AppInv, AppGround, AppTypeOK
<1>7. Touches(i, N, 0)
  BY <1>1, <1>5 DEF Touches, RowGoesOn, AppInv, AppGround, AppTypeOK
<1>8. NameShared(N) /\ RowsWhole(N) => N \in doubt \/ NameAt(N, "unstack", i, c)'
  <2>. SUFFICES ASSUME NameShared(N), RowsWhole(N), appProject' = [appProject EXCEPT ![N] = 0]
                PROVE  NameShared(N)' /\ AppPhase("unstack", i, c)'
    BY <1>5 DEF NameAt
  <2>1. appProject'[N] = 0
    BY <1>3 DEF AppInv, AppGround, AppTypeOK
  <2>2. appStack[N] = i
    BY <1>3 DEF RowsWhole, AppWhole
  <2>3. NameShared(N)'
    BY <1>1, <2>1 DEF NameShared
  <2>4. AppPhase("unstack", i, c)'
    BY <1>1, <1>2, <1>3, <2>1, <2>2 DEF AppPhase
  <2>5. QED
    BY <2>3, <2>4
<1>9. QED
  BY <1>3, <1>4, <1>5, <1>6, <1>7, <1>8, AppStarts

LEMMA DeleteStackRowKeeps == ASSUME AppInv, NEW r \in AppReqs, DeleteStackRow(r) PROVE AppInv'
<1>1. AppAt(r, "unstack") /\ AppGo(r, "unhost") /\ UNCHANGED <<appRow, appDir, appProject, appHost, appCatalog, appUnsure>>
  BY DEF DeleteStackRow
<1>2. PICK i \in AppIds, c \in AppRow : /\ appReq[r] = [step |-> "unstack", id |-> i, copy |-> c] /\ c.name \in AppNames
                                        /\ About(i, c.name) /\ OurApps(c.host, i)
  BY <1>1, AppWorkerAt, StepNames
<1>3. i # 0 /\ OurApps(0, i) /\ "unhost" \in AppSteps
  BY AppNumbers, NoHost, StepNames
<1>4. appStack' = [appStack EXCEPT ![c.name] = 0]
  BY <1>2 DEF DeleteStackRow, AppName, AppCopy
<1>5. DataOK'
  BY <1>1, <1>4 DEF DataOK, AppInv, AppGround, AppTypeOK
<1>6. Touches(i, c.name, 0) /\ appStack'[c.name] = 0
  BY <1>1, <1>2, <1>4 DEF Touches, RowGoesOn, AppInv, AppGround, AppTypeOK
<1>7. NameAt(c.name, "unstack", i, c) => NameAt(c.name, "unhost", i, c)'
  BY <1>1, <1>6, AppNumbers DEF NameAt, NameShared, AppPhase
<1>8. QED
  BY <1>1, <1>2, <1>3, <1>5, <1>6, <1>7, AppGoesOn

\* No other app's host goes: the number is this app's, or nobody's any more.
LEMMA DeleteHostKeeps == ASSUME AppInv, NEW r \in AppReqs, DeleteAppHost(r) PROVE AppInv'
<1>1. AppAt(r, "unhost") /\ AppGo(r, "drop") /\ UNCHANGED <<appRow, appDir, appStack, appProject, appCatalog, appUnsure>>
  BY DEF DeleteAppHost
<1>2. PICK i \in AppIds, c \in AppRow : /\ appReq[r] = [step |-> "unhost", id |-> i, copy |-> c] /\ c.name \in AppNames
                                        /\ About(i, c.name) /\ OurApps(c.host, i)
  BY <1>1, AppWorkerAt, StepNames
<1>3. i # 0 /\ "drop" \in AppSteps
  BY AppNumbers, StepNames
<1>4. appHost' = [g \in HostIds |-> IF g = c.host THEN Nil ELSE appHost[g]]
  BY <1>2 DEF DeleteAppHost, Unhost, AppCopy
<1>5. DataOK'
  BY <1>1, <1>4 DEF DataOK, AppInv, AppGround, AppTypeOK
<1>6. Touches(i, c.name, c.host)
  BY <1>1, <1>4 DEF Touches, RowGoesOn
<1>7. NameAt(c.name, "unhost", i, c) => NameAt(c.name, "drop", i, c)'
  BY <1>1 DEF NameAt, NameShared, AppPhase
<1>8. QED
  BY <1>1, <1>2, <1>3, <1>5, <1>6, <1>7, AppGoesOn

LEMMA DropAppKeeps == ASSUME AppInv, NEW r \in AppReqs, DropApp(r) PROVE AppInv'
<1>1. AppAt(r, "drop") /\ AppGo(r, "done") /\ UNCHANGED <<appStack, appProject, appHost, appCatalog, appUnsure>>
  BY DEF DropApp
<1>2. PICK i \in AppIds, c \in AppRow : /\ appReq[r] = [step |-> "drop", id |-> i, copy |-> c] /\ c.name \in AppNames
                                        /\ About(i, c.name) /\ OurApps(c.host, i)
  BY <1>1, AppWorkerAt, StepNames
<1>3. i # 0 /\ OurApps(0, i) /\ "done" \in AppSteps
  BY AppNumbers, NoHost, StepNames
<1>4. appRow' = [appRow EXCEPT ![i] = NoApp] /\ appDir' = [appDir EXCEPT ![i] = NoAppDir]
  BY <1>2 DEF DropApp
<1>5. NoApp \in AppRow /\ NoAppDir \in AppDir /\ NoApp.name = Nil
  BY AppAssumption DEF NoApp, AppRow, NoAppDir, AppDir
<1>6. DataOK'
  BY <1>1, <1>4, <1>5 DEF DataOK, AppInv, AppGround, AppTypeOK
<1>7. appRow'[i] = NoApp /\ \A j \in AppIds \ {i} : appRow'[j] = appRow[j] /\ appDir'[j] = appDir[j]
  BY <1>4 DEF AppInv, AppGround, AppTypeOK
<1>8. Touches(i, c.name, 0)
  BY <1>1, <1>7 DEF Touches, RowGoesOn
<1>9. NameAt(c.name, "drop", i, c) => NameAt(c.name, "done", i, c)'
  <2>. SUFFICES ASSUME NameShared(c.name), AppPhase("drop", i, c) PROVE NameShared(c.name)' /\ RowsWhole(c.name)'
    BY DEF NameAt
  <2>1. appRow[i].name = c.name /\ appStack[c.name] = 0 /\ appProject[c.name] = 0
    BY <1>2 DEF AppPhase, About
  <2>2. \A j \in AppIds : appRow'[j].name # c.name
    BY <1>2, <1>5, <1>7, <2>1, AppNumbers DEF NameShared
  <2>3. QED
    BY <1>1, <2>1, <2>2, AppNumbers DEF NameShared, RowsWhole
<1>10. QED
  BY <1>1, <1>2, <1>3, <1>6, <1>8, <1>9, AppGoesOn

-----------------------------------------------------------------------------
\* Another domain. While the old host is gone and the row still names it, the request is at work.
LEMMA UpdateDomainKeeps == ASSUME AppInv, NEW r \in AppReqs, UpdateDomain(r) PROVE AppInv'
<1>1. UNCHANGED <<appRow, appDir, appStack, appProject, appCatalog>>
  BY DEF UpdateDomain
<1>2. PICK i \in AppIds, d \in AppDomains \cup {Nil} :
        appRow[i].there /\ Unhost(appRow[i].host) /\ AppBegin(r, "newhost", i, [appRow[i] EXCEPT !.host = 0, !.domain = d])
  BY DEF UpdateDomain
<1>. PICK c, N : c = [appRow[i] EXCEPT !.host = 0, !.domain = d] /\ N = appRow[i].name
  OBVIOUS
<1>3. About(i, N) /\ OurApps(appRow[i].host, i) /\ N \in AppNames /\ i # 0 /\ "newhost" \in AppSteps
  BY <1>2, RowRefers, AppNumbers, StepNames DEF AppInv
<1>4. c \in AppRow /\ c.name = N /\ c.host = 0 /\ OurApps(c.host, i)
  <2>1. appRow[i] \in AppRow
    BY DEF AppInv, AppGround, AppTypeOK
  <2>2. c \in AppRow /\ c.name = N /\ c.host = 0
    BY <2>1 DEF AppRow
  <2>3. QED
    BY <2>2, NoHost
<1>5. AppBegin(r, "newhost", i, c) /\ appHost' = [g \in HostIds |-> IF g = appRow[i].host THEN Nil ELSE appHost[g]]
  BY <1>2 DEF Unhost
<1>6. DataOK'
  BY <1>1, <1>3, <1>4, <1>5 DEF AppBegin, AppBeginIn, Doubt, DataOK, AppInv, AppGround, AppTypeOK
<1>. PICK h : h = appRow[i].host
  OBVIOUS
<1>7. Touches(i, N, h) /\ OurApps(h, i)
  BY <1>1, <1>3, <1>5 DEF Touches, RowGoesOn
<1>8. NameShared(N) /\ RowsWhole(N) => NameAt(N, "newhost", i, c)'
  <2>. SUFFICES ASSUME NameShared(N), RowsWhole(N) PROVE NameShared(N)' /\ AppPhase("newhost", i, c)'
    BY DEF NameAt
  <2>1. appStack[N] = i /\ FilesOf(i) /\ appRow[i].status # "installing"
    BY <1>3 DEF RowsWhole, AppWhole
  <2>2. NameShared(N)'
    BY <1>1 DEF NameShared
  <2>3. AppPhase("newhost", i, c)'
    BY <1>1, <1>2, <1>4, <2>1 DEF AppPhase, FilesOf
  <2>4. QED
    BY <2>2, <2>3
<1>9. c \in AppRow /\ c.name = N /\ OurApps(c.host, i)
  BY <1>4
<1>10. AppBegin(r, "newhost", i, c)
  BY <1>5
<1>11. QED
  BY <1>3, <1>6, <1>7, <1>8, <1>9, <1>10, AppStartsSure

LEMMA NewHostKeeps == ASSUME AppInv, NEW r \in AppReqs, NewAppHost(r) PROVE AppInv'
<1>1. AppAt(r, "newhost") /\ UNCHANGED <<appRow, appDir, appStack, appProject, appCatalog>>
  BY DEF NewAppHost
<1>2. PICK i \in AppIds, c \in AppRow : /\ appReq[r] = [step |-> "newhost", id |-> i, copy |-> c] /\ c.name \in AppNames
                                        /\ About(i, c.name) /\ OurApps(c.host, i)
  BY <1>1, AppWorkerAt, StepNames
<1>3. AppCopy(r) = c /\ AppName(r) = c.name /\ i # 0 /\ OurApps(0, i) /\ "save" \in AppSteps /\ "done" \in AppSteps
  BY <1>2, AppNumbers, NoHost, StepNames DEF AppName, AppCopy
<1>4. CASE AppGo(r, "save") /\ UNCHANGED <<appHost, appUnsure>>
  <2>1. DataOK'
    BY <1>1, <1>4 DEF DataOK, AppInv, AppGround, AppTypeOK
  <2>2. Touches(i, c.name, 0)
    BY <1>1, <1>4 DEF Touches, RowGoesOn
  <2>3. NameAt(c.name, "newhost", i, c) => NameAt(c.name, "save", i, c)'
    BY <1>1, <1>4 DEF NameAt, NameShared, AppPhase, FilesOf
  <2>4. QED
    BY <1>2, <1>3, <1>4, <2>1, <2>2, <2>3, AppGoesOn
<1>5. ASSUME NEW h \in NextHost, appHost' = [appHost EXCEPT ![h] = c.domain],
             appReq' = [appReq EXCEPT ![r] = [step |-> "save", id |-> @.id, copy |-> [@.copy EXCEPT !.host = h]]],
             UNCHANGED appUnsure
      PROVE  AppInv'
  <2>1. h \in HostIds /\ h # 0 /\ OurApps(h, i)
    BY <1>5, NextHostFree
  <2>. PICK d : d = [c EXCEPT !.host = h]
    OBVIOUS
  <2>2. d \in AppRow /\ d.name = c.name /\ d.domain = c.domain /\ d.host = h /\ OurApps(d.host, i)
    BY <2>1 DEF AppRow
  <2>3. appReq' = [appReq EXCEPT ![r] = [step |-> "save", id |-> i, copy |-> d]]
    BY <1>2, <1>5
  <2>4. DataOK'
    BY <1>1, <1>2, <1>5 DEF DataOK, AppInv, AppGround, AppTypeOK, AppRow
  <2>5. Touches(i, c.name, h) /\ appHost'[h] = c.domain
    BY <1>1, <1>5, <2>1 DEF Touches, RowGoesOn, AppInv, AppGround, AppTypeOK
  <2>6. NameAt(c.name, "newhost", i, c) => NameAt(c.name, "save", i, d)'
    BY <1>1, <2>2, <2>5 DEF NameAt, NameShared, AppPhase, FilesOf
  <2>7. appUnsure \subseteq appUnsure' /\ d \in AppRow /\ d.name = c.name /\ OurApps(d.host, i) /\ Touches(i, c.name, h)
    BY <1>5, <2>2, <2>5
  <2>8. appReq[r] = [step |-> "newhost", id |-> i, copy |-> c] /\ About(i, c.name) /\ i # 0 /\ "save" \in AppSteps /\ OurApps(h, i)
    BY <1>2, <1>3, <2>1
  <2>9. QED
    BY <2>3, <2>4, <2>6, <2>7, <2>8, AppStep
<1>6. CASE AppGo(r, "done") /\ UNCHANGED appHost /\ Doubt({c.name})
  <2>1. DataOK' /\ appUnsure \subseteq appUnsure' /\ c.name \in appUnsure'
    BY <1>1, <1>2, <1>6 DEF Doubt, DataOK, AppInv, AppGround, AppTypeOK
  <2>2. Touches(i, c.name, 0)
    BY <1>1, <1>6 DEF Touches, RowGoesOn
  <2>3. QED
    BY <1>2, <1>3, <1>6, <2>1, <2>2, AppGoesOn
<1>7. QED
  BY <1>3, <1>4, <1>5, <1>6 DEF NewAppHost

LEMMA SaveDomainKeeps == ASSUME AppInv, NEW r \in AppReqs, SaveDomain(r) PROVE AppInv'
<1>1. AppAt(r, "save") /\ AppGo(r, "env") /\ UNCHANGED <<appDir, appStack, appProject, appHost, appCatalog, appUnsure>>
  BY DEF SaveDomain
<1>2. PICK i \in AppIds, c \in AppRow : /\ appReq[r] = [step |-> "save", id |-> i, copy |-> c] /\ c.name \in AppNames
                                        /\ About(i, c.name) /\ OurApps(c.host, i)
  BY <1>1, AppWorkerAt, StepNames
<1>3. AppGround /\ i # 0 /\ OurApps(0, i) /\ "env" \in AppSteps
  BY AppNumbers, NoHost, StepNames DEF AppInv
<1>. PICK row : row = [appRow[i] EXCEPT !.domain = c.domain, !.host = c.host]
  OBVIOUS
<1>4. Column(i, row)
  BY <1>2 DEF SaveDomain, AppCopy
<1>5. row \in AppRow /\ row.there = appRow[i].there /\ row.name = appRow[i].name /\ row.host = c.host
      /\ row.domain = c.domain /\ row.ver = appRow[i].ver /\ row.status = appRow[i].status
  BY DEF AppInv, AppGround, AppTypeOK, AppRow
<1>6. /\ appRow' \in [AppIds -> AppRow] /\ RowGoesOn(i, c.name)
      /\ \A j \in AppIds \ {i} : appRow'[j] = appRow[j]
      /\ appRow'[i] = IF appRow[i].there THEN row ELSE appRow[i]
  <2>1. appRow[i].there => row \in AppRow /\ row.there /\ row.name = appRow[i].name /\ OurApps(row.host, i)
    BY <1>2, <1>5
  <2>2. QED
    BY <1>2, <1>3, <1>4, <2>1, ColumnDoes
<1>7. DataOK'
  BY <1>1, <1>6 DEF DataOK, AppInv, AppGround, AppTypeOK
<1>8. Touches(i, c.name, 0)
  BY <1>1, <1>6 DEF Touches
<1>9. NameAt(c.name, "save", i, c) => NameAt(c.name, "env", i, c)'
  <2>. SUFFICES ASSUME NameShared(c.name), AppPhase("save", i, c) PROVE NameShared(c.name)' /\ AppPhase("env", i, c)'
    BY DEF NameAt
  <2>1. \A j \in AppIds : appRow'[j].name = appRow[j].name
    BY <1>5, <1>6
  <2>2. NameShared(c.name)'
    BY <1>1, <2>1 DEF NameShared
  <2>3. appRow[i].there /\ appRow'[i] = row
    BY <1>6 DEF AppPhase
  <2>4. HostOf(i)'
    BY <1>1, <1>5, <2>3 DEF AppPhase, HostOf
  <2>5. appDir[i].there /\ appDir[i].ver = appRow[i].ver
    BY DEF AppPhase, FilesOf
  <2>6. AppPhase("env", i, c)'
    BY <1>1, <1>5, <2>3, <2>4, <2>5 DEF AppPhase
  <2>7. QED
    BY <2>2, <2>6
<1>10. QED
  BY <1>1, <1>2, <1>3, <1>7, <1>8, <1>9, AppGoesOn

LEMMA RewriteEnvKeeps == ASSUME AppInv, NEW r \in AppReqs, RewriteEnv(r) PROVE AppInv'
<1>1. AppAt(r, "env") /\ AppGo(r, "done") /\ UNCHANGED <<appRow, appStack, appHost, appCatalog, appUnsure>>
  BY DEF RewriteEnv
<1>2. PICK i \in AppIds, c \in AppRow : /\ appReq[r] = [step |-> "env", id |-> i, copy |-> c] /\ c.name \in AppNames
                                        /\ About(i, c.name) /\ OurApps(c.host, i)
  BY <1>1, AppWorkerAt, StepNames
<1>3. i # 0 /\ OurApps(0, i) /\ "done" \in AppSteps
  BY AppNumbers, NoHost, StepNames
<1>4. /\ appDir' = IF appDir[i].there THEN [appDir EXCEPT ![i].domain = c.domain] ELSE appDir
      /\ appProject' \in {appProject, [appProject EXCEPT ![c.name] = i]}
  BY <1>2 DEF RewriteEnv, AppUp, AppName, AppCopy
<1>5. /\ appProject' \in [AppNames -> AppIds \cup {0, TheUser}] /\ appProject'[c.name] \in {appProject[c.name], i}
      /\ \A n \in AppNames \ {c.name} : appProject'[n] = appProject[n]
  BY <1>2, <1>4 DEF AppInv, AppGround, AppTypeOK
<1>6. appDir' \in [AppIds -> AppDir] /\ \A j \in AppIds \ {i} : appDir'[j] = appDir[j]
  BY <1>4 DEF AppInv, AppGround, AppTypeOK, AppDir, AppRow
<1>7. DataOK'
  BY <1>1, <1>5, <1>6 DEF DataOK, AppInv, AppGround, AppTypeOK
<1>8. Touches(i, c.name, 0)
  BY <1>1, <1>5, <1>6 DEF Touches, RowGoesOn
<1>9. NameAt(c.name, "env", i, c) => NameAt(c.name, "done", i, c)'
  <2>. SUFFICES ASSUME NameShared(c.name), AppPhase("env", i, c) PROVE NameShared(c.name)' /\ RowsWhole(c.name)'
    BY DEF NameAt
  <2>1. /\ appRow[i].there /\ appRow[i].name = c.name /\ HostOf(i) /\ appStack[c.name] = i
        /\ appRow[i].domain = c.domain /\ appRow[i].status # "installing" /\ appDir[i].there /\ appDir[i].ver = appRow[i].ver
    BY <1>2 DEF AppPhase, About
  <2>2. FilesOf(i)'
    <3>1. appDir \in [AppIds -> AppDir] /\ appDir[i] \in AppDir
      BY DEF AppInv, AppGround, AppTypeOK
    <3>2. appDir' = [appDir EXCEPT ![i].domain = c.domain]
      BY <1>4, <2>1
    <3>3. appDir'[i] = [appDir[i] EXCEPT !.domain = c.domain]
      BY <3>1, <3>2
    <3>4. PICK d, v : appDir[i] = [there |-> TRUE, domain |-> d, ver |-> v] /\ v = appRow[i].ver
      BY <2>1, <3>1 DEF AppDir
    <3>a. appDir'[i] = [[there |-> TRUE, domain |-> d, ver |-> v] EXCEPT !.domain = c.domain]
      BY <3>3, <3>4
    <3>b. appDir'[i] = [there |-> TRUE, domain |-> c.domain, ver |-> v]
      BY <3>a
    <3>5. appDir'[i] = [there |-> TRUE, domain |-> c.domain, ver |-> appRow[i].ver]
      BY <3>4, <3>b
    <3>. QED
      BY <1>1, <2>1, <3>5 DEF FilesOf
  <2>3. NameShared(c.name)'
    BY <1>1, <1>5, <2>1 DEF NameShared
  <2>4. AppWhole(i)'
    BY <1>1, <2>1, <2>2 DEF AppWhole, HostOf
  <2>5. appRow'[i].name = c.name
    BY <1>1, <2>1
  <2>6. QED
    BY <2>3, <2>4, <2>5, WholeAgain
<1>10. QED
  BY <1>1, <1>2, <1>3, <1>7, <1>8, <1>9, AppGoesOn

-----------------------------------------------------------------------------
\* Start, stop and update.
LEMMA StartStopKeeps == ASSUME AppInv, NEW r \in AppReqs, StartApp(r) \/ StopApp(r) PROVE AppInv'
<1>1. UNCHANGED <<appDir, appStack, appHost, appCatalog>>
  BY DEF StartApp, StopApp
<1>2. PICK i \in AppIds :
        /\ appRow[i].there /\ AppBegin(r, "done", i, appRow[i])
        /\ \/ UNCHANGED appProject \/ \E v \in {0, i} : appProject' = [appProject EXCEPT ![appRow[i].name] = v]
        /\ \/ UNCHANGED appRow \/ \E s \in {"running", "stopped"} : Status(i, s)
  BY DEF StartApp, StopApp, AppUp, AppUpFails, AppDown
<1>. PICK c, N : c = appRow[i] /\ N = c.name
  OBVIOUS
<1>3. /\ About(i, N) /\ OurApps(c.host, i) /\ N \in AppNames /\ c \in AppRow /\ c.name = N /\ i # 0 /\ OurApps(0, i)
      /\ "done" \in AppSteps /\ AppBegin(r, "done", i, c) /\ AppGround
  BY <1>2, RowRefers, AppNumbers, NoHost, StepNames DEF AppInv
<1>4. /\ appProject' \in [AppNames -> AppIds \cup {0, TheUser}] /\ appProject'[N] \in {0, appProject[N], i}
      /\ \A n \in AppNames \ {N} : appProject'[n] = appProject[n]
  BY <1>2, <1>3 DEF AppInv, AppGround, AppTypeOK
<1>5. /\ appRow' \in [AppIds -> AppRow] /\ RowGoesOn(i, N) /\ \A j \in AppIds \ {i} : appRow'[j] = appRow[j]
      /\ appRow'[i].there /\ appRow'[i].name = N /\ appRow'[i].domain = c.domain /\ appRow'[i].host = c.host
      /\ appRow'[i].ver = c.ver /\ appRow'[i].status \in {c.status, "running", "stopped"}
  <2>1. CASE UNCHANGED appRow
    BY <1>2, <1>3, <2>1 DEF RowGoesOn, AppInv, AppGround, AppTypeOK
  <2>2. CASE \E s \in {"running", "stopped"} : Status(i, s)
    <3>1. PICK s \in {"running", "stopped"} : Status(i, s)
      BY <2>2
    <3>2. s \in {"installing", "running", "stopped", "error"}
      OBVIOUS
    <3>3. QED
      BY <1>2, <1>3, <3>1, <3>2, StatusDoes, StatusMoves
  <2>3. QED
    BY <1>2, <2>1, <2>2
<1>6. DataOK'
  BY <1>1, <1>3, <1>4, <1>5 DEF AppBegin, AppBeginIn, Doubt, DataOK, AppInv, AppGround, AppTypeOK
<1>7. Touches(i, N, 0)
  BY <1>1, <1>4, <1>5 DEF Touches
<1>8. NameShared(N) /\ RowsWhole(N) => NameAt(N, "done", i, c)'
  <2>. SUFFICES ASSUME NameShared(N), RowsWhole(N) PROVE NameShared(N)' /\ RowsWhole(N)'
    BY DEF NameAt
  <2>1. appStack[N] = i /\ HostOf(i) /\ FilesOf(i) /\ c.status # "installing"
    BY <1>3 DEF RowsWhole, AppWhole
  <2>2. \A j \in AppIds : appRow'[j].name = appRow[j].name
    BY <1>3, <1>5
  <2>3. NameShared(N)'
    BY <1>1, <1>4, <2>1, <2>2 DEF NameShared
  <2>4. AppWhole(i)'
    BY <1>1, <1>5, <2>1 DEF AppWhole, HostOf, FilesOf
  <2>5. QED
    BY <1>5, <2>3, <2>4, WholeAgain
<1>9. QED
  BY <1>3, <1>6, <1>7, <1>8, AppStartsSure

LEMMA UpdateAppKeeps == ASSUME AppInv, NEW r \in AppReqs, UpdateApp(r) PROVE AppInv'
<1>1. UNCHANGED <<appRow, appDir, appStack, appProject, appHost, appCatalog>>
  BY DEF UpdateApp
<1>2. PICK i \in AppIds : appRow[i].there /\ AppBegin(r, "mark", i, [appRow[i] EXCEPT !.ver = appCatalog])
  BY DEF UpdateApp
<1>. PICK c, N : c = [appRow[i] EXCEPT !.ver = appCatalog] /\ N = appRow[i].name
  OBVIOUS
<1>3. About(i, N) /\ OurApps(appRow[i].host, i) /\ N \in AppNames /\ i # 0 /\ OurApps(0, i) /\ "mark" \in AppSteps
  BY <1>2, RowRefers, AppNumbers, NoHost, StepNames DEF AppInv
<1>4. c \in AppRow /\ c.name = N /\ c.host = appRow[i].host /\ c.domain = appRow[i].domain
  <2>1. appRow[i] \in AppRow /\ appCatalog \in AppVersions
    BY DEF AppInv, AppGround, AppTypeOK
  <2>2. QED
    BY <2>1 DEF AppRow
<1>5. AppBegin(r, "mark", i, c) /\ OurApps(c.host, i)
  BY <1>2, <1>3, <1>4
<1>6. DataOK'
  BY <1>1, <1>3, <1>4, <1>5 DEF AppBegin, AppBeginIn, Doubt, DataOK, AppInv, AppGround, AppTypeOK
<1>7. Touches(i, N, 0)
  BY <1>1 DEF Touches, RowGoesOn
<1>8. NameShared(N) /\ RowsWhole(N) => NameAt(N, "mark", i, c)'
  <2>. SUFFICES ASSUME NameShared(N), RowsWhole(N) PROVE NameShared(N)' /\ AppPhase("mark", i, c)'
    BY DEF NameAt
  <2>1. appStack[N] = i /\ HostOf(i) /\ FilesOf(i)
    BY <1>3 DEF RowsWhole, AppWhole
  <2>2. NameShared(N)'
    BY <1>1 DEF NameShared
  <2>3. AppPhase("mark", i, c)'
    BY <1>1, <1>2, <1>4, <2>1 DEF AppPhase, FilesOf, HostOf
  <2>4. QED
    BY <2>2, <2>3
<1>9. c \in AppRow /\ c.name = N
  BY <1>4
<1>10. QED
  BY <1>3, <1>5, <1>6, <1>7, <1>8, <1>9, AppStartsSure

LEMMA MarkKeeps == ASSUME AppInv, NEW r \in AppReqs, MarkUpdating(r) PROVE AppInv'
<1>1. AppAt(r, "mark") /\ AppGo(r, "rewrite") /\ UNCHANGED <<appDir, appStack, appProject, appHost, appCatalog, appUnsure>>
  BY DEF MarkUpdating
<1>2. PICK i \in AppIds, c \in AppRow : /\ appReq[r] = [step |-> "mark", id |-> i, copy |-> c] /\ c.name \in AppNames
                                        /\ About(i, c.name) /\ OurApps(c.host, i)
  BY <1>1, AppWorkerAt, StepNames
<1>3. i # 0 /\ OurApps(0, i) /\ "rewrite" \in AppSteps /\ Status(i, "installing") /\ AppGround
  BY <1>2, AppNumbers, NoHost, StepNames DEF MarkUpdating, AppInv
<1>4. DataOK'
  BY <1>1, <1>3, StatusDoes DEF DataOK, AppInv, AppGround, AppTypeOK
<1>5. Touches(i, c.name, 0)
  BY <1>1, <1>2, <1>3, StatusDoes, StatusMoves DEF Touches
<1>6. NameAt(c.name, "mark", i, c) => NameAt(c.name, "rewrite", i, c)'
  <2>. SUFFICES ASSUME NameShared(c.name), AppPhase("mark", i, c) PROVE NameShared(c.name)' /\ AppPhase("rewrite", i, c)'
    BY DEF NameAt
  <2>1. /\ appRow[i].there /\ HostOf(i) /\ FilesOf(i) /\ appStack[c.name] = i /\ appRow[i].domain = c.domain
    BY DEF AppPhase
  <2>2. /\ \A j \in AppIds : appRow'[j].name = appRow[j].name
        /\ appRow'[i].there /\ appRow'[i].domain = appRow[i].domain /\ appRow'[i].ver = appRow[i].ver
        /\ appRow'[i].host = appRow[i].host
    BY <1>3, <2>1, StatusDoes
  <2>3. NameShared(c.name)'
    BY <1>1, <2>2 DEF NameShared
  <2>4. AppPhase("rewrite", i, c)'
    BY <1>1, <2>1, <2>2 DEF AppPhase, HostOf, FilesOf
  <2>5. QED
    BY <2>3, <2>4
<1>7. QED
  BY <1>1, <1>2, <1>3, <1>4, <1>5, <1>6, AppGoesOn

LEMMA RewriteAppKeeps == ASSUME AppInv, NEW r \in AppReqs, RewriteApp(r) PROVE AppInv'
<1>1. AppAt(r, "rewrite") /\ UNCHANGED <<appRow, appStack, appProject, appHost, appCatalog>>
  BY DEF RewriteApp
<1>2. PICK i \in AppIds, c \in AppRow : /\ appReq[r] = [step |-> "rewrite", id |-> i, copy |-> c] /\ c.name \in AppNames
                                        /\ About(i, c.name) /\ OurApps(c.host, i)
  BY <1>1, AppWorkerAt, StepNames
<1>3. AppCopy(r) = c /\ AppName(r) = c.name /\ i # 0 /\ OurApps(0, i) /\ "reup" \in AppSteps /\ "done" \in AppSteps
  BY <1>2, AppNumbers, NoHost, StepNames DEF AppName, AppCopy
<1>4. CASE /\ AppGo(r, "reup") /\ UNCHANGED appUnsure
           /\ appDir' = [appDir EXCEPT ![i] = [there |-> TRUE, domain |-> c.domain, ver |-> c.ver]]
  <2>1. DataOK'
    BY <1>1, <1>4 DEF DataOK, AppInv, AppGround, AppTypeOK, AppDir, AppRow
  <2>2. Touches(i, c.name, 0)
    BY <1>1, <1>4 DEF Touches, RowGoesOn
  <2>3. appDir'[i] = [there |-> TRUE, domain |-> c.domain, ver |-> c.ver]
    BY <1>4 DEF AppInv, AppGround, AppTypeOK
  <2>4. NameAt(c.name, "rewrite", i, c) => NameAt(c.name, "reup", i, c)'
    BY <1>1, <2>3 DEF NameAt, NameShared, AppPhase, HostOf
  <2>5. QED
    BY <1>2, <1>3, <1>4, <2>1, <2>2, <2>4, AppGoesOn
<1>5. CASE AppGo(r, "done") /\ UNCHANGED appDir /\ Doubt({c.name})
  <2>1. DataOK' /\ appUnsure \subseteq appUnsure' /\ c.name \in appUnsure'
    BY <1>1, <1>2, <1>5 DEF Doubt, DataOK, AppInv, AppGround, AppTypeOK
  <2>2. Touches(i, c.name, 0)
    BY <1>1, <1>5 DEF Touches, RowGoesOn
  <2>3. QED
    BY <1>2, <1>3, <1>5, <2>1, <2>2, AppGoesOn
<1>6. QED
  BY <1>2, <1>3, <1>4, <1>5 DEF RewriteApp

LEMMA UpUpdatedKeeps == ASSUME AppInv, NEW r \in AppReqs, UpUpdated(r) PROVE AppInv'
<1>1. AppAt(r, "reup") /\ AppGo(r, "done") /\ UNCHANGED <<appDir, appStack, appHost, appCatalog>>
  BY DEF UpUpdated
<1>2. PICK i \in AppIds, c \in AppRow : /\ appReq[r] = [step |-> "reup", id |-> i, copy |-> c] /\ c.name \in AppNames
                                        /\ About(i, c.name) /\ OurApps(c.host, i)
  BY <1>1, AppWorkerAt, StepNames
<1>3. AppCopy(r) = c /\ AppName(r) = c.name /\ i # 0 /\ OurApps(0, i) /\ "done" \in AppSteps /\ appReq[r].id = i /\ AppGround
  BY <1>2, AppNumbers, NoHost, StepNames DEF AppName, AppCopy, AppInv
<1>4. appProject' \in {appProject, [appProject EXCEPT ![c.name] = i]}
  BY <1>3 DEF UpUpdated, AppUp, AppUpFails
<1>5. /\ appProject' \in [AppNames -> AppIds \cup {0, TheUser}] /\ appProject'[c.name] \in {appProject[c.name], i}
      /\ \A n \in AppNames \ {c.name} : appProject'[n] = appProject[n]
  BY <1>2, <1>4 DEF AppInv, AppGround, AppTypeOK
<1>. PICK row : row = [appRow[i] EXCEPT !.ver = c.ver, !.status = "running"]
  OBVIOUS
<1>6. CASE Column(i, row) /\ UNCHANGED appUnsure
  <2>1. row \in AppRow /\ row.there = appRow[i].there /\ row.name = appRow[i].name /\ row.host = appRow[i].host
        /\ row.domain = appRow[i].domain /\ row.ver = c.ver /\ row.status = "running"
    <3>1. appRow[i] \in AppRow
      BY DEF AppInv, AppGround, AppTypeOK
    <3>2. QED
      BY <3>1 DEF AppRow
  <2>2. /\ appRow' \in [AppIds -> AppRow] /\ RowGoesOn(i, c.name)
        /\ \A j \in AppIds \ {i} : appRow'[j] = appRow[j]
        /\ appRow'[i] = IF appRow[i].there THEN row ELSE appRow[i]
    <3>1. appRow[i].there => row \in AppRow /\ row.there /\ row.name = appRow[i].name /\ OurApps(row.host, i)
      BY <1>3, <2>1, RowRefers
    <3>2. AppGround /\ About(i, c.name) /\ Column(i, row)
      BY <1>2, <1>3, <1>6
    <3>3. QED
      BY <3>1, <3>2, ColumnDoes
  <2>3. DataOK'
    BY <1>1, <1>5, <1>6, <2>2 DEF DataOK, AppInv, AppGround, AppTypeOK
  <2>4. Touches(i, c.name, 0)
    BY <1>1, <1>5, <2>2 DEF Touches
  <2>5. NameAt(c.name, "reup", i, c) => NameAt(c.name, "done", i, c)'
    <3>. SUFFICES ASSUME NameShared(c.name), AppPhase("reup", i, c) PROVE NameShared(c.name)' /\ RowsWhole(c.name)'
      BY DEF NameAt
    <3>1. /\ appRow[i].there /\ appRow[i].name = c.name /\ HostOf(i) /\ appStack[c.name] = i
          /\ appDir[i] = [there |-> TRUE, domain |-> appRow[i].domain, ver |-> c.ver]
      BY <1>2 DEF AppPhase, About
    <3>2. appRow'[i] = row /\ \A j \in AppIds : appRow'[j].name = appRow[j].name
      BY <2>1, <2>2, <3>1
    <3>3. NameShared(c.name)'
      BY <1>1, <1>5, <3>1, <3>2 DEF NameShared
    <3>4. AppWhole(i)'
      BY <1>1, <2>1, <3>1, <3>2, SMTT(30) DEF AppWhole, HostOf, FilesOf
    <3>5. appRow'[i].name = c.name
      BY <3>1, <3>2
    <3>6. QED
      BY <3>3, <3>4, <3>5, WholeAgain
  <2>6. appUnsure \subseteq appUnsure'
    BY <1>6
  <2>7. QED
    BY <1>1, <1>2, <1>3, <2>3, <2>4, <2>5, <2>6, AppGoesOn
<1>7. CASE Status(i, "error") /\ Doubt({c.name})
  <2>1. DataOK' /\ appUnsure \subseteq appUnsure' /\ c.name \in appUnsure'
    BY <1>1, <1>2, <1>3, <1>5, <1>7, StatusDoes DEF Doubt, DataOK, AppInv, AppGround, AppTypeOK
  <2>2. Touches(i, c.name, 0)
    BY <1>1, <1>2, <1>3, <1>5, <1>7, StatusDoes, StatusMoves DEF Touches
  <2>3. QED
    BY <1>1, <1>2, <1>3, <2>1, <2>2, AppGoesOn
<1>8. QED
  BY <1>3, <1>6, <1>7 DEF UpUpdated

-----------------------------------------------------------------------------
\* Stacks of the docker plugin: a user's stack takes a name only while no app has it.
LEMMA CreateStackKeeps == ASSUME AppInv, NEW r \in AppReqs, CreateStack(r) PROVE AppInv'
<1>1. UNCHANGED <<appRow, appDir, appStack, appProject, appHost, appCatalog>>
  BY DEF CreateStack
<1>2. PICK n \in AppNames : appStack[n] = 0 /\ AppBegin(r, "user", 0, [NoApp EXCEPT !.name = n])
  BY DEF CreateStack
<1>. PICK c : c = [NoApp EXCEPT !.name = n]
  OBVIOUS
<1>3. c \in AppRow /\ c.name = n /\ c.host = 0 /\ OurApps(c.host, 0) /\ OurApps(0, 0) /\ "user" \in AppSteps
  <2>1. c \in AppRow /\ c.name = n /\ c.host = 0
    BY AppAssumption DEF NoApp, AppRow
  <2>2. QED
    BY <2>1, NoHost, StepNames
<1>4. AppBegin(r, "user", 0, c)
  BY <1>2
<1>5. DataOK'
  BY <1>1, <1>3, <1>4 DEF AppBegin, AppBeginIn, Doubt, DataOK, AppInv, AppGround, AppTypeOK
<1>6. Touches(0, n, 0)
  BY <1>1 DEF Touches
<1>7. NameShared(n) /\ RowsWhole(n) => NameAt(n, "user", 0, c)'
  <2>. SUFFICES ASSUME NameShared(n), RowsWhole(n) PROVE NameShared(n)' /\ AppPhase("user", 0, c)'
    BY DEF NameAt
  <2>1. \A j \in AppIds : appRow[j].name # n
    BY <1>2, AppNumbers DEF RowsWhole, AppWhole
  <2>2. NameShared(n)'
    BY <1>1 DEF NameShared
  <2>3. AppPhase("user", 0, c)'
    BY <1>1, <1>2, <1>3, <2>1 DEF AppPhase
  <2>4. QED
    BY <2>2, <2>3
<1>8. QED
  BY <1>3, <1>4, <1>5, <1>6, <1>7, AppStartsSure

LEMMA InsertStackKeeps == ASSUME AppInv, NEW r \in AppReqs, InsertStack(r) PROVE AppInv'
<1>1. AppAt(r, "user") /\ AppGo(r, "done") /\ UNCHANGED <<appRow, appDir, appHost, appCatalog>>
  BY DEF InsertStack
<1>2. PICK c \in AppRow : appReq[r] = [step |-> "user", id |-> 0, copy |-> c] /\ c.name \in AppNames /\ OurApps(c.host, 0)
  BY <1>1, AppWorkerZero
<1>3. AppName(r) = c.name /\ OurApps(0, 0) /\ "done" \in AppSteps
  BY <1>2, NoHost, StepNames DEF AppName, AppCopy
<1>4. /\ IF appStack[c.name] = 0
         THEN /\ appStack' = [appStack EXCEPT ![c.name] = TheUser]
              /\ appProject' \in {appProject, [appProject EXCEPT ![c.name] = TheUser]}
         ELSE UNCHANGED <<appStack, appProject>>
      /\ appUnsure' = appUnsure \cup {n \in {c.name} : \E i \in AppIds : appRow[i].name = n}
  BY <1>3 DEF InsertStack, Doubt
<1>5. /\ appProject' \in [AppNames -> AppIds \cup {0, TheUser}] /\ appStack' \in [AppNames -> AppIds \cup {0, TheUser}]
      /\ appStack'[c.name] = (IF appStack[c.name] = 0 THEN TheUser ELSE appStack[c.name])
      /\ appProject'[c.name] = appProject[c.name] \/ (appStack[c.name] = 0 /\ appProject'[c.name] = TheUser)
      /\ \A n \in AppNames \ {c.name} : appProject'[n] = appProject[n] /\ appStack'[n] = appStack[n]
  BY <1>2, <1>4 DEF AppInv, AppGround, AppTypeOK
<1>6. DataOK' /\ appUnsure \subseteq appUnsure'
  BY <1>1, <1>2, <1>4, <1>5 DEF DataOK, AppInv, AppGround, AppTypeOK
<1>7. Touches(0, c.name, 0)
  BY <1>1, <1>5 DEF Touches
<1>8. NameAt(c.name, "user", 0, c) => c.name \in appUnsure' \/ NameAt(c.name, "done", 0, c)'
  <2>. SUFFICES ASSUME NameShared(c.name), AppPhase("user", 0, c), \A i \in AppIds : appRow[i].name # c.name
                PROVE  NameShared(c.name)' /\ RowsWhole(c.name)'
    BY <1>4 DEF NameAt
  <2>1. appStack[c.name] \in {0, TheUser} /\ appProject[c.name] \in {0, appStack[c.name]}
    BY DEF AppPhase, NameShared
  <2>2. appStack'[c.name] = TheUser /\ appProject'[c.name] \in {0, TheUser}
    BY <1>5, <2>1
  <2>3. QED
    BY <1>1, <2>2, AppNumbers DEF NameShared, RowsWhole
<1>9. QED
  BY <1>1, <1>2, <1>3, <1>6, <1>7, <1>8, AppGoesOn

LEMMA StackKeeps == ASSUME AppInv, NEW r \in AppReqs, DeleteStack(r) \/ StackUpDown(r) PROVE AppInv'
<1>1. UNCHANGED <<appRow, appDir, appHost, appCatalog>>
  BY DEF DeleteStack, StackUpDown
<1>2. PICK n \in AppNames :
        /\ AppBegin(r, "done", 0, [NoApp EXCEPT !.name = n])
        /\ \/ appStack[n] = TheUser /\ appStack' = [appStack EXCEPT ![n] = 0] /\ appProject' = [appProject EXCEPT ![n] = 0]
           \/ /\ UNCHANGED appStack
              /\ appProject' = [appProject EXCEPT ![n] = 0] \/ appProject' = [appProject EXCEPT ![n] = appStack[n]]
  BY DEF DeleteStack, StackUpDown, AppDown
<1>. PICK c : c = [NoApp EXCEPT !.name = n]
  OBVIOUS
<1>3. c \in AppRow /\ c.name = n /\ c.host = 0 /\ OurApps(c.host, 0) /\ OurApps(0, 0) /\ "done" \in AppSteps
  <2>1. c \in AppRow /\ c.name = n /\ c.host = 0
    BY AppAssumption DEF NoApp, AppRow
  <2>2. QED
    BY <2>1, NoHost, StepNames
<1>4. AppBegin(r, "done", 0, c)
  BY <1>2
<1>5. /\ appProject' \in [AppNames -> AppIds \cup {0, TheUser}] /\ appStack' \in [AppNames -> AppIds \cup {0, TheUser}]
      /\ \/ appStack[n] = TheUser /\ appStack'[n] = 0 /\ appProject'[n] = 0
         \/ appStack'[n] = appStack[n] /\ appProject'[n] \in {0, appStack[n]}
      /\ \A m \in AppNames \ {n} : appProject'[m] = appProject[m] /\ appStack'[m] = appStack[m]
  BY <1>2 DEF AppInv, AppGround, AppTypeOK
<1>6. DataOK'
  BY <1>1, <1>3, <1>4, <1>5 DEF AppBegin, AppBeginIn, Doubt, DataOK, AppInv, AppGround, AppTypeOK
<1>7. Touches(0, n, 0)
  BY <1>1, <1>5 DEF Touches
<1>8. NameShared(n) /\ RowsWhole(n) => NameAt(n, "done", 0, c)'
  <2>. SUFFICES ASSUME NameShared(n), RowsWhole(n) PROVE NameShared(n)' /\ RowsWhole(n)'
    BY DEF NameAt
  <2>1. NameShared(n)'
    BY <1>1, <1>5, AppNumbers DEF NameShared
  <2>2. RowsWhole(n)'
    BY <1>1, <1>5, AppNumbers DEF RowsWhole, AppWhole, HostOf, FilesOf
  <2>3. QED
    BY <2>1, <2>2
<1>9. c \in AppRow /\ c.name = n /\ OurApps(c.host, 0) /\ OurApps(0, 0) /\ "done" \in AppSteps /\ 0 \in AppIds \cup {0}
  BY <1>3
<1>10. QED
  BY <1>4, <1>6, <1>7, <1>8, <1>9, AppStartsSure

\* The panel dies: the names of the requests at work are in doubt.
LEMMA AppDeathKeeps == ASSUME AppInv, AppPanelDies PROVE AppInv'
<1>1. /\ appUnsure' = appUnsure \cup NamesAtWork /\ appReq' = [r \in AppReqs |-> AppRest]
      /\ UNCHANGED <<appRow, appDir, appStack, appProject, appHost, appCatalog>>
  BY DEF AppPanelDies, Doubt
<1>2. \A r \in AppReqs : /\ appReq'[r] = AppRest /\ AppName(r)' = Nil /\ AppCopy(r).host' = 0 /\ appReq'[r].id = 0
                         /\ appReq'[r].step = "done"
  BY <1>1 DEF AppName, AppCopy, AppRest, NoApp
<1>3. AppRest \in [step : AppSteps, id : AppIds \cup {0}, copy : AppRow] /\ NamesAtWork \subseteq AppNames
  <2>1. AppRest \in [step : AppSteps, id : AppIds \cup {0}, copy : AppRow]
    BY AppAssumption DEF AppRest, NoApp, AppRow, AppSteps
  <2>2. NamesAtWork \subseteq AppNames
    BY DEF NamesAtWork, AppInv, AppGround, AppTypeOK, AppName, AppCopy, AppRow
  <2>3. QED
    BY <2>1, <2>2
<1>4. AppTypeOK'
  BY <1>1, <1>3 DEF AppInv, AppGround, AppTypeOK
<1>5. HostsOwned'
  BY <1>1, <1>2 DEF AppInv, AppGround, HostsOwned, AppCopy
<1>6. AppGround'
  BY <1>1, <1>2, <1>4, <1>5 DEF AppInv, AppGround, AppAt
<1>7. ASSUME NEW n \in AppNames \ appUnsure' PROVE NameSound(n)'
  <2>1. NameShared(n) /\ RowsWhole(n)
    BY <1>1, AppNumbers DEF AppInv, NameSound, NamesAtWork
  <2>2. NameShared(n)' /\ RowsWhole(n)'
    BY <1>1, <2>1 DEF NameShared, RowsWhole, AppWhole, HostOf, FilesOf
  <2>3. QED
    BY <1>2, <2>2, AppNumbers DEF NameSound
<1>8. QED
  BY <1>6, <1>7 DEF AppInv

\* What is read of the catalogue is its version alone.
LEMMA AppInvSameRows == ASSUME AppInv, UNCHANGED <<appRow, appDir, appStack, appProject, appHost, appReq, appUnsure>>,
                               appCatalog' \in AppVersions
                        PROVE  AppInv'
<1>1. AppGround'
  <2>1. AppTypeOK'
    BY DEF AppInv, AppGround, AppTypeOK
  <2>2. HostsOwned'
    BY DEF AppInv, AppGround, HostsOwned, AppCopy
  <2>3. QED
    BY <2>1, <2>2 DEF AppInv, AppGround, AppAt, AppName, AppCopy
<1>2. ASSUME NEW n \in AppNames \ appUnsure PROVE NameSound(n)'
  <2>1. NameSound(n)
    BY <1>2 DEF AppInv
  <2>2. \A r \in AppReqs : AppName(r)' = AppName(r)
    BY DEF AppName, AppCopy
  <2>3. (NameShared(n) => NameShared(n)') /\ (RowsWhole(n) => RowsWhole(n)')
    BY DEF NameShared, RowsWhole, AppWhole, HostOf, FilesOf
  <2>4. ASSUME NEW r \in AppReqs, AppName(r) = n PROVE AppPhase(appReq[r].step, appReq[r].id, appReq[r].copy)'
    <3>1. PICK t, i, c : t = appReq[r].step /\ i = appReq[r].id /\ c = appReq[r].copy
      OBVIOUS
    <3>2. AppPhase(t, i, c)
      BY <2>1, <2>4, <3>1 DEF NameSound
    <3>3. AppPhase(t, i, c)'
      BY <3>2 DEF AppPhase, HostOf, FilesOf
    <3>4. QED
      BY <3>1, <3>3
  <2>5. QED
    BY <2>1, <2>2, <2>3, <2>4 DEF NameSound
<1>3. QED
  BY <1>1, <1>2 DEF AppInv

LEMMA AppInvStep == ASSUME AppInv, AppNext PROVE AppInv'
<1>1. CASE NewVersion
  BY <1>1, AppInvSameRows DEF NewVersion
<1>2. CASE AppPanelDies
  BY <1>2, AppDeathKeeps
<1>3. ASSUME NEW r \in AppReqs,
             \/ InstallApp(r) \/ InsertApp(r) \/ WriteApp(r) \/ RecordStack(r) \/ UpInstalled(r)
             \/ HostInstalled(r) \/ FinishInstall(r)
             \/ UninstallApp(r) \/ DeleteStackRow(r) \/ DeleteAppHost(r) \/ DropApp(r)
             \/ UpdateDomain(r) \/ NewAppHost(r) \/ SaveDomain(r) \/ RewriteEnv(r)
             \/ StartApp(r) \/ StopApp(r) \/ UpdateApp(r) \/ MarkUpdating(r) \/ RewriteApp(r) \/ UpUpdated(r)
             \/ CreateStack(r) \/ InsertStack(r) \/ DeleteStack(r) \/ StackUpDown(r)
      PROVE  AppInv'
  BY <1>3, InstallKeeps, InsertAppKeeps, WriteAppKeeps, RecordStackKeeps, UpInstalledKeeps, HostInstalledKeeps,
     FinishInstallKeeps, UninstallKeeps, DeleteStackRowKeeps, DeleteHostKeeps, DropAppKeeps, UpdateDomainKeeps,
     NewHostKeeps, SaveDomainKeeps, RewriteEnvKeeps, StartStopKeeps, UpdateAppKeeps, MarkKeeps, RewriteAppKeeps,
     UpUpdatedKeeps, CreateStackKeeps, InsertStackKeeps, StackKeeps
<1>4. QED
  BY <1>1, <1>2, <1>3 DEF AppNext

LEMMA AppInvSame == ASSUME AppInv, UNCHANGED appVars PROVE AppInv'
  BY AppInvSameRows DEF appVars, AppInv, AppGround, AppTypeOK

-----------------------------------------------------------------------------
(* The PHP runtime: what a request copies and keeps, and what it knows.    *)

\* The row, with the parts of a request's that it changes.
Edited(row, parts, r) ==
  [row EXCEPT !.ini = IF "ini" \in parts THEN r ELSE @, !.fpm = IF "fpm" \in parts THEN r ELSE @]

\* What a request k copies and keeps, whoever it meets.
CopyKept(k) ==
  /\ k.step \in PhpEnded <=> k.op = "none"
  /\ k.step \in PhpEnded => k = PhpRest(k.step)
  /\ k.op = "create" => k.step \in {"write", "insert", "up", "unrow", "erase"} /\ k.copy.there
  /\ k.op = "delete" => k.step \in {"erase", "unrow"}
  /\ k.op = "config" => /\ k.step \in {"ini", "fpm", "save", "restart", "putback", "rewrite"}
                        /\ k.was.there /\ k.copy.there /\ k.copy.ext = k.was.ext
  /\ k.op \in {"install", "remove"} => /\ k.step \in {"save", "dockerfile", "rebuild", "putback"}
                                       /\ k.was.there /\ k.copy = [k.was EXCEPT !.ext = k.copy.ext]
  /\ k.op # "lifecycle"

\* The parts of a configuration that are written when a request is at a step.
WrittenParts(k) ==
  IF k.step = "ini" THEN {} ELSE IF k.step = "fpm" THEN k.parts \cap {"ini"} ELSE k.parts

\* What a request k of r that nobody has met knows of row and directory at each of its steps.
RowKnown(k, row) ==
  /\ k.step \in {"write", "insert"} => ~row.there
  /\ k.op = "create" /\ k.step = "erase" => ~row.there
  /\ k.op = "config" /\ k.step \in {"ini", "fpm", "save", "rewrite"} => row = k.was
  /\ k.op \in {"install", "remove"} /\ k.step = "save" => row = k.was

FilesKnown(k, r, row, dir) ==
  /\ k.step = "up" => dir = row
  /\ k.op = "config" =>
       /\ k.copy = Edited(k.was, WrittenParts(k), r) /\ dir = k.copy
       /\ k.step \in {"restart", "putback"} => row = k.copy
       /\ "ini" \in WrittenParts(k) => k.old.ini = k.was.ini
       /\ "fpm" \in WrittenParts(k) => k.old.fpm = k.was.fpm
  /\ k.op \in {"install", "remove"} =>
       /\ k.step \in {"save", "dockerfile"} => dir = k.was
       /\ k.step \in {"dockerfile", "rebuild", "putback"} => row = k.copy
       /\ k.step = "rebuild" => dir = k.copy
       /\ k.step = "putback" => dir \in {k.was, k.copy}

Known(k, r, row, dir, unsure) ==
  /\ RowKnown(k, row)
  /\ k.step = "insert" => dir = k.copy
  /\ k.step # "insert" /\ ~unsure => FilesKnown(k, r, row, dir)

PhpRequest == [op : PhpOps, step : PhpSteps, parts : SUBSET {"ini", "fpm"},
               copy : PhpSettings, was : PhpSettings, old : PhpSettings, met : BOOLEAN]

\* The inductive invariant of a runtime: of two requests at work each has met another, one
\* that has met another makes the runtime unsure, and one that has met none knows its files.
PhpInv ==
  /\ PhpTypeOK
  /\ \A r \in PhpReqs : CopyKept(phpReq[r])
  /\ \A q, r \in PhpReqs : q # r /\ phpReq[q].step \notin PhpEnded /\ phpReq[r].step \notin PhpEnded => phpReq[q].met
  /\ \A r \in PhpReqs : phpReq[r].step \notin PhpEnded /\ phpReq[r].met => phpUnsure
  /\ PhpFilesMatch
  /\ \A r \in PhpReqs : phpReq[r].step \notin PhpEnded /\ ~phpReq[r].met => Known(phpReq[r], r, phpRow, phpDir, phpUnsure)

LEMMA PhpInvInit == PhpInit => PhpInv
<1> SUFFICES ASSUME PhpInit PROVE PhpInv
  OBVIOUS
<1>1. NoPhp \in PhpSettings /\ \A ext \in SUBSET PhpExts : FreshPhp(ext) \in PhpSettings
  BY DEF NoPhp, FreshPhp, PhpSettings
<1>2. PhpRest("done") \in PhpRequest /\ CopyKept(PhpRest("done")) /\ PhpRest("done").step \in PhpEnded
  BY <1>1 DEF PhpRest, PhpRequest, PhpOps, PhpSteps, CopyKept, PhpEnded
<1>3. \A r \in PhpReqs : phpReq[r] = PhpRest("done")
  BY DEF PhpInit
<1>4. PhpTypeOK
  <2>1. phpRow \in PhpSettings /\ phpDir \in PhpSettings /\ phpCont \in {"none", "made", "up"} /\ phpUnsure \in BOOLEAN
    BY <1>1 DEF PhpInit
  <2>2. phpReq \in [PhpReqs -> PhpRequest]
    BY <1>2 DEF PhpInit
  <2> QED BY <2>1, <2>2 DEF PhpTypeOK, PhpRequest
<1>5. PhpFilesMatch
  BY DEF PhpInit, PhpFilesMatch, NoPhp
<1> QED BY <1>2, <1>3, <1>4, <1>5 DEF PhpInv

\* An invariant of the runtime's variables holds on when none of them changes.
LEMMA PhpInvSame == PhpInv /\ UNCHANGED <<phpRow, phpDir, phpCont, phpReq, phpUnsure>> => PhpInv'
BY DEF PhpInv, PhpTypeOK, PhpFilesMatch, PhpBusy

\* A request at work takes a step: it is enough to look at what it knows then, if it has met
\* no other request, and that the runtime is unsure, if it has.
LEMMA PhpWorks ==
  ASSUME PhpInv, NEW r \in PhpReqs, NEW k \in PhpRequest,
         phpReq[r].step \notin PhpEnded,
         phpReq' = [phpReq EXCEPT ![r] = k],
         CopyKept(k), k.step \notin PhpEnded => k.met = phpReq[r].met,
         phpRow' \in PhpSettings, phpDir' \in PhpSettings, phpCont' \in {"none", "made", "up"}, phpUnsure' \in BOOLEAN,
         phpReq[r].met => phpUnsure',
         ~phpReq[r].met => IF k.step \in PhpEnded THEN phpRow'.there /\ ~phpUnsure' => phpDir' = phpRow'
                           ELSE Known(k, r, phpRow', phpDir', phpUnsure')
  PROVE  PhpInv'
<1>1. phpReq \in [PhpReqs -> PhpRequest]
  BY DEF PhpInv, PhpTypeOK, PhpRequest
<1>2. phpReq'[r] = k /\ \A q \in PhpReqs \ {r} : phpReq'[q] = phpReq[q]
  BY <1>1
<1>3. PhpTypeOK'
  <2>1. phpReq' \in [PhpReqs -> PhpRequest]
    BY <1>1
  <2> QED BY <2>1 DEF PhpTypeOK, PhpRequest
<1>4. \A q \in PhpReqs : CopyKept(phpReq'[q])
  BY <1>2 DEF PhpInv
<1>5. \A q \in PhpReqs \ {r} : phpReq[q].step \notin PhpEnded => phpReq[q].met /\ phpReq[r].met
  BY DEF PhpInv
<1>6. \A q, p \in PhpReqs : q # p /\ phpReq'[q].step \notin PhpEnded /\ phpReq'[p].step \notin PhpEnded => phpReq'[q].met
  BY <1>2, <1>5
<1>7. \A q \in PhpReqs : phpReq'[q].step \notin PhpEnded /\ phpReq'[q].met => phpUnsure'
  BY <1>2, <1>5
<1>8. PhpFilesMatch'
  BY <1>2, <1>5 DEF PhpFilesMatch, PhpBusy
<1>9. \A q \in PhpReqs : phpReq'[q].step \notin PhpEnded /\ ~phpReq'[q].met => Known(phpReq'[q], q, phpRow', phpDir', phpUnsure')
  BY <1>2, <1>5
<1> QED BY <1>3, <1>4, <1>6, <1>7, <1>8, <1>9 DEF PhpInv

\* A request begins: it has met those at work, and they have met it.
LEMMA PhpBegins ==
  ASSUME PhpInv, NEW r \in PhpReqs, NEW op \in PhpOps, NEW step \in PhpSteps, NEW parts \in SUBSET {"ini", "fpm"},
         NEW copy \in PhpSettings,
         PhpBegin(r, op, step, parts, copy),
         phpRow' = phpRow, phpDir' = phpDir, phpCont' \in {"none", "made", "up"},
         step = "done" \/ step \notin PhpEnded,
         step # "done" =>
           \A met \in BOOLEAN :
             LET k == [op |-> op, step |-> step, parts |-> parts, copy |-> copy, was |-> phpRow, old |-> NoPhp, met |-> met]
             IN CopyKept(k) /\ ((phpRow.there /\ ~phpUnsure => phpDir = phpRow) => Known(k, r, phpRow, phpDir, phpUnsure))
  PROVE  PhpInv'
<1> PICK k : k = IF step = "done" THEN PhpRest("done")
                 ELSE [op |-> op, step |-> step, parts |-> parts, copy |-> copy, was |-> phpRow, old |-> NoPhp, met |-> PhpBusy]
  OBVIOUS
<1>1. phpReq \in [PhpReqs -> PhpRequest] /\ phpRow \in PhpSettings /\ phpDir \in PhpSettings /\ phpUnsure \in BOOLEAN
  BY DEF PhpInv, PhpTypeOK, PhpRequest
<1>b. PhpBusy \in BOOLEAN
  BY DEF PhpBusy
<1>n. NoPhp \in PhpSettings
  BY DEF NoPhp, PhpSettings
<1>2. k \in PhpRequest
  <2>1. CASE step = "done"
    BY <2>1, <1>n DEF PhpRest, PhpRequest, PhpOps, PhpSteps
  <2>2. CASE step # "done"
    BY <2>2, <1>1, <1>n, <1>b DEF PhpRequest
  <2> QED BY <2>1, <2>2
<1>3. phpReq' = [q \in PhpReqs |-> IF q = r THEN k ELSE [phpReq[q] EXCEPT !.met = @ \/ phpReq[q].step \notin PhpEnded]]
  BY DEF PhpBegin
<1>4. \A q \in PhpReqs \ {r} :
        IF phpReq[q].step \in PhpEnded THEN phpReq'[q] = phpReq[q]
        ELSE phpReq'[q] = [phpReq[q] EXCEPT !.met = TRUE]
  <2> SUFFICES ASSUME NEW q \in PhpReqs \ {r}
               PROVE  IF phpReq[q].step \in PhpEnded THEN phpReq'[q] = phpReq[q]
                      ELSE phpReq'[q] = [phpReq[q] EXCEPT !.met = TRUE]
    OBVIOUS
  <2>1. phpReq[q] \in PhpRequest /\ phpReq'[q] = [phpReq[q] EXCEPT !.met = @ \/ phpReq[q].step \notin PhpEnded]
    BY <1>1, <1>3
  <2>2. phpReq[q].met \in BOOLEAN
    BY <2>1 DEF PhpRequest
  <2>3. CASE phpReq[q].step \in PhpEnded
    <3>1. phpReq'[q] = [phpReq[q] EXCEPT !.met = phpReq[q].met]
      BY <2>1, <2>2, <2>3
    <3> QED BY <3>1, <2>1, <2>3 DEF PhpRequest
  <2>4. CASE phpReq[q].step \notin PhpEnded
    BY <2>1, <2>2, <2>4
  <2> QED BY <2>3, <2>4
<1>5. phpReq'[r] = k
  BY <1>3
<1>6. phpUnsure' = (phpUnsure \/ PhpBusy) /\ phpReq[r].step \in PhpEnded
  BY DEF PhpBegin
<1>7. PhpTypeOK'
  <2>1. ASSUME NEW q \in PhpReqs PROVE phpReq'[q] \in PhpRequest
    <3>1. CASE q = r
      BY <3>1, <1>2, <1>5
    <3>2. CASE q # r /\ phpReq[q].step \in PhpEnded
      BY <3>2, <1>1, <1>4
    <3>3. CASE q # r /\ phpReq[q].step \notin PhpEnded
      <4>1. phpReq'[q] = [phpReq[q] EXCEPT !.met = TRUE] /\ phpReq[q] \in PhpRequest
        BY <3>3, <1>1, <1>4
      <4> QED BY <4>1 DEF PhpRequest
    <3> QED BY <3>1, <3>2, <3>3
  <2>2. phpReq' \in [PhpReqs -> PhpRequest]
    <3> DEFINE new(q) == IF q = r THEN k ELSE [phpReq[q] EXCEPT !.met = @ \/ phpReq[q].step \notin PhpEnded]
    <3>1. phpReq' = [q \in PhpReqs |-> new(q)]
      BY <1>3
    <3> HIDE DEF new
    <3>2. \A q \in PhpReqs : new(q) \in PhpRequest
      BY <2>1, <3>1
    <3> QED BY <3>1, <3>2
  <2>3. phpUnsure' \in BOOLEAN
    BY <1>6, <1>1, <1>b
  <2> QED BY <2>2, <2>3, <1>1 DEF PhpTypeOK, PhpRequest
<1>8. \A q \in PhpReqs : CopyKept(phpReq'[q])
  <2>1. CopyKept(k)
    <3>1. CASE step = "done"
      BY <3>1 DEF CopyKept, PhpRest, PhpEnded
    <3>2. CASE step # "done"
      BY <3>2, <1>b
    <3> QED BY <3>1, <3>2
  <2>2. ASSUME NEW q \in PhpReqs \ {r} PROVE CopyKept(phpReq'[q])
    <3>1. CopyKept(phpReq[q]) /\ phpReq[q] \in PhpRequest
      BY <1>1 DEF PhpInv
    <3>2. CASE phpReq[q].step \in PhpEnded
      BY <3>1, <3>2, <1>4
    <3>3. CASE phpReq[q].step \notin PhpEnded
      <4>1. phpReq'[q] = [phpReq[q] EXCEPT !.met = TRUE]
        BY <3>3, <1>4
      <4> QED BY <4>1, <3>1, <3>3 DEF CopyKept, PhpRequest
    <3> QED BY <3>2, <3>3
  <2> QED BY <2>1, <2>2, <1>5
<1>9. \A q \in PhpReqs \ {r} : phpReq'[q].step = phpReq[q].step /\ (phpReq[q].step \notin PhpEnded => phpReq'[q].met)
  BY <1>1, <1>4 DEF PhpRequest
<1>10. k.step = step /\ (step # "done" => k.met = PhpBusy)
  BY DEF PhpRest
<1>11. "done" \in PhpEnded
  BY DEF PhpEnded
<1>12. (\E q \in PhpReqs \ {r} : phpReq[q].step \notin PhpEnded) => PhpBusy
  BY DEF PhpBusy
<1>13. \A q, p \in PhpReqs : q # p /\ phpReq'[q].step \notin PhpEnded /\ phpReq'[p].step \notin PhpEnded => phpReq'[q].met
  BY <1>5, <1>9, <1>10, <1>11, <1>12
<1>14. \A q \in PhpReqs : phpReq'[q].step \notin PhpEnded /\ phpReq'[q].met => phpUnsure'
  BY <1>5, <1>6, <1>9, <1>10, <1>11, <1>12
<1>15. PhpBusy' \/ ~PhpBusy \/ phpUnsure'
  BY <1>6
<1>16. PhpFilesMatch'
  BY <1>6 DEF PhpInv, PhpFilesMatch
<1>17. \A q \in PhpReqs : phpReq'[q].step \notin PhpEnded /\ ~phpReq'[q].met => Known(phpReq'[q], q, phpRow', phpDir', phpUnsure')
  <2> SUFFICES ASSUME NEW q \in PhpReqs, phpReq'[q].step \notin PhpEnded, ~phpReq'[q].met
               PROVE  Known(phpReq'[q], q, phpRow', phpDir', phpUnsure')
    OBVIOUS
  <2>1. q = r /\ step # "done"
    BY <1>5, <1>9, <1>10, <1>11
  <2>2. ~PhpBusy /\ phpUnsure' = phpUnsure
    BY <2>1, <1>5, <1>6, <1>10, <1>1
  <2>3. phpRow.there /\ ~phpUnsure => phpDir = phpRow
    BY <2>2 DEF PhpInv, PhpFilesMatch
  <2> QED BY <2>1, <2>2, <2>3, <1>5, <1>b
<1> QED BY <1>7, <1>8, <1>13, <1>14, <1>16, <1>17 DEF PhpInv

-----------------------------------------------------------------------------
(* The PHP runtime: each of its actions keeps the invariant.               *)

\* The request as PhpGo leaves it.
PhpGoes(k, step) == IF step \in PhpEnded THEN PhpRest(step) ELSE [k EXCEPT !.step = step]

LEMMA PhpEnds ==
  /\ NoPhp \in PhpSettings /\ \A ext \in SUBSET PhpExts : FreshPhp(ext) \in PhpSettings
  /\ \A step \in PhpEnded : PhpRest(step) \in PhpRequest /\ CopyKept(PhpRest(step)) /\ PhpRest(step).step = step
<1>1. NoPhp \in PhpSettings /\ \A ext \in SUBSET PhpExts : FreshPhp(ext) \in PhpSettings
  BY DEF NoPhp, FreshPhp, PhpSettings
<1> QED BY <1>1 DEF PhpRest, PhpRequest, PhpOps, PhpSteps, CopyKept, PhpEnded

\* What is known of a request at a step that is not an end.
LEMMA PhpKnows ==
  ASSUME PhpInv, NEW r \in PhpReqs, phpReq[r].step \notin PhpEnded
  PROVE  /\ phpReq[r] \in PhpRequest /\ CopyKept(phpReq[r])
         /\ phpRow \in PhpSettings /\ phpDir \in PhpSettings /\ phpCont \in {"none", "made", "up"} /\ phpUnsure \in BOOLEAN
         /\ phpReq[r].met => phpUnsure
         /\ ~phpReq[r].met => Known(phpReq[r], r, phpRow, phpDir, phpUnsure)
BY DEF PhpInv, PhpTypeOK, PhpRequest

\* The same lemma as PhpWorks, for a step that PhpGo describes.
LEMMA PhpGoesOn ==
  ASSUME PhpInv, NEW r \in PhpReqs, NEW step \in PhpSteps,
         phpReq[r].step \notin PhpEnded, PhpGo(r, step),
         step \notin PhpEnded => CopyKept([phpReq[r] EXCEPT !.step = step]),
         phpRow' \in PhpSettings, phpDir' \in PhpSettings, phpCont' \in {"none", "made", "up"}, phpUnsure' \in BOOLEAN,
         phpReq[r].met => phpUnsure',
         ~phpReq[r].met => IF step \in PhpEnded THEN phpRow'.there /\ ~phpUnsure' => phpDir' = phpRow'
                           ELSE Known([phpReq[r] EXCEPT !.step = step], r, phpRow', phpDir', phpUnsure')
  PROVE  PhpInv'
<1>1. phpReq[r] \in PhpRequest
  BY PhpKnows
<1>2. CASE step \in PhpEnded
  <2> PICK k : k = PhpRest(step)
    OBVIOUS
  <2>1. k \in PhpRequest /\ CopyKept(k) /\ k.step \in PhpEnded
    BY <1>2, PhpEnds
  <2>2. phpReq' = [phpReq EXCEPT ![r] = k]
    BY <1>2 DEF PhpGo
  <2> QED BY <2>1, <2>2, <1>2, PhpWorks
<1>3. CASE step \notin PhpEnded
  <2> PICK k : k = [phpReq[r] EXCEPT !.step = step]
    OBVIOUS
  <2>1. k \in PhpRequest /\ k.step = step /\ k.met = phpReq[r].met
    BY <1>1 DEF PhpRequest
  <2>2. phpReq' = [phpReq EXCEPT ![r] = k]
    BY <1>3 DEF PhpGo
  <2> QED BY <2>1, <2>2, <1>3, PhpWorks
<1> QED BY <1>2, <1>3

\* A row with parts of a request's, field by field; and two rows with the same fields.
LEMMA PhpEdits ==
  ASSUME NEW row \in PhpSettings, NEW parts, NEW r \in PhpReqs
  PROVE  /\ Edited(row, parts, r) \in PhpSettings
         /\ Edited(row, parts, r).ini = IF "ini" \in parts THEN r ELSE row.ini
         /\ Edited(row, parts, r).fpm = IF "fpm" \in parts THEN r ELSE row.fpm
         /\ Edited(row, parts, r).ext = row.ext /\ Edited(row, parts, r).there = row.there
<1>1. PICK new : new = Edited(row, parts, r)
  OBVIOUS
<1>2. CASE "ini" \in parts
  BY <1>2 DEF Edited, PhpSettings
<1>3. CASE "ini" \notin parts
  BY <1>3 DEF Edited, PhpSettings
<1> QED BY <1>2, <1>3

LEMMA PhpSameFields ==
  ASSUME NEW a \in PhpSettings, NEW b \in PhpSettings, a.there = b.there, a.ini = b.ini, a.fpm = b.fpm, a.ext = b.ext
  PROVE  a = b
BY DEF PhpSettings

LEMMA CreateRuntimeKeeps == ASSUME PhpInv, NEW r \in PhpReqs, CreateRuntime(r) PROVE PhpInv'
<1> PICK ext \in SUBSET PhpExts : PhpBegin(r, "create", "write", {}, FreshPhp(ext))
  BY DEF CreateRuntime
<1> PICK copy : copy = FreshPhp(ext)
  OBVIOUS
<1>1. copy \in PhpSettings /\ copy.there /\ PhpBegin(r, "create", "write", {}, copy)
  BY PhpEnds DEF FreshPhp
<1>2. "write" \notin PhpEnded /\ "write" \in PhpSteps /\ "create" \in PhpOps /\ {} \in SUBSET {"ini", "fpm"}
  BY DEF PhpEnded, PhpSteps, PhpOps
<1>3. ~phpRow.there /\ phpRow' = phpRow /\ phpDir' = phpDir /\ phpCont' \in {"none", "made", "up"}
  BY DEF CreateRuntime, PhpInv, PhpTypeOK
<1>4. \A met \in BOOLEAN :
        LET k == [op |-> "create", step |-> "write", parts |-> {}, copy |-> copy, was |-> phpRow, old |-> NoPhp, met |-> met]
        IN CopyKept(k) /\ ((phpRow.there /\ ~phpUnsure => phpDir = phpRow) => Known(k, r, phpRow, phpDir, phpUnsure))
  BY <1>1, <1>2, <1>3 DEF CopyKept, Known, RowKnown, FilesKnown
<1> QED BY <1>1, <1>2, <1>3, <1>4, PhpBegins

LEMMA WriteRuntimeKeeps == ASSUME PhpInv, NEW r \in PhpReqs, WriteRuntime(r) PROVE PhpInv'
<1>1. phpReq[r].step = "write" /\ phpReq[r].step \notin PhpEnded
  BY DEF WriteRuntime, PhpAt, PhpEnded
<1>2. /\ phpReq[r] \in PhpRequest /\ CopyKept(phpReq[r])
      /\ phpRow \in PhpSettings /\ phpDir \in PhpSettings /\ phpCont \in {"none", "made", "up"} /\ phpUnsure \in BOOLEAN
      /\ phpReq[r].met => phpUnsure
      /\ ~phpReq[r].met => Known(phpReq[r], r, phpRow, phpDir, phpUnsure)
  BY <1>1, PhpKnows
<1>3. phpReq[r].op = "create" /\ phpReq[r].copy.there /\ phpReq[r].copy \in PhpSettings /\ phpReq[r].met \in BOOLEAN
  BY <1>1, <1>2 DEF CopyKept, PhpRequest, PhpOps
<1>4. phpRow' = phpRow /\ phpCont' = phpCont
  BY DEF WriteRuntime
<1>5. CASE phpDir' = phpReq[r].copy /\ PhpGo(r, "insert") /\ phpUnsure' = phpReq[r].met
  <2> PICK k : k = [phpReq[r] EXCEPT !.step = "insert"]
    OBVIOUS
  <2>1. CopyKept(k) /\ k.copy = phpReq[r].copy /\ k.step = "insert" /\ k.op = "create"
    BY <1>2, <1>3 DEF CopyKept, PhpRequest, PhpEnded
  <2>2. ~phpReq[r].met => Known(k, r, phpRow', phpDir', phpUnsure')
    BY <2>1, <1>1, <1>2, <1>4, <1>5 DEF Known, RowKnown, FilesKnown
  <2>3. "insert" \in PhpSteps /\ "insert" \notin PhpEnded
    BY DEF PhpSteps, PhpEnded
  <2> QED BY <2>1, <2>2, <2>3, <1>1, <1>2, <1>3, <1>4, <1>5, PhpGoesOn
<1>6. CASE UNCHANGED <<phpDir, phpUnsure>> /\ PhpGo(r, "done")
  <2>1. "done" \in PhpSteps /\ "done" \in PhpEnded
    BY DEF PhpSteps, PhpEnded
  <2>2. ~phpReq[r].met => ~phpRow'.there
    BY <1>1, <1>2, <1>4 DEF Known, RowKnown
  <2> QED BY <2>1, <2>2, <1>1, <1>2, <1>4, <1>6, PhpGoesOn
<1> QED BY <1>5, <1>6 DEF WriteRuntime

LEMMA InsertRuntimeKeeps == ASSUME PhpInv, NEW r \in PhpReqs, InsertRuntime(r) PROVE PhpInv'
<1>1. phpReq[r].step = "insert" /\ phpReq[r].step \notin PhpEnded
  BY DEF InsertRuntime, PhpAt, PhpEnded
<1>2. /\ phpReq[r] \in PhpRequest /\ CopyKept(phpReq[r])
      /\ phpRow \in PhpSettings /\ phpDir \in PhpSettings /\ phpCont \in {"none", "made", "up"} /\ phpUnsure \in BOOLEAN
      /\ phpReq[r].met => phpUnsure
      /\ ~phpReq[r].met => Known(phpReq[r], r, phpRow, phpDir, phpUnsure)
  BY <1>1, PhpKnows
<1>3. phpReq[r].op \in {"create"} /\ phpReq[r].copy \in PhpSettings /\ phpReq[r].was \in PhpSettings /\ phpReq[r].old \in PhpSettings /\ phpReq[r].op \in PhpOps
  BY <1>1, <1>2 DEF CopyKept, PhpRequest, PhpOps
<1>4. phpDir' = phpDir /\ phpCont' = phpCont /\ phpUnsure' = phpUnsure
  BY DEF InsertRuntime
<1>5. CASE phpRow.there /\ PhpGo(r, "done") /\ phpRow' = phpRow
  <2>1. "done" \in PhpSteps /\ "done" \in PhpEnded
    BY DEF PhpSteps, PhpEnded
  <2>2. ~phpReq[r].met => (phpRow'.there /\ ~phpUnsure' => phpDir' = phpRow')
    BY <1>1, <1>2, <1>3, <1>4, <1>5 DEF Known, RowKnown, FilesKnown, CopyKept
  <2>3. phpRow' \in PhpSettings /\ phpDir' \in PhpSettings /\ phpCont' \in {"none", "made", "up"} /\ phpUnsure' \in BOOLEAN /\ (phpUnsure => phpUnsure')
    BY <1>2, <1>3, <1>4, <1>5, PhpEnds
  <2> QED BY <2>1, <2>2, <2>3, <1>1, <1>2, <1>4, <1>5, PhpGoesOn
<1>6. CASE ~phpRow.there /\ phpRow' = phpReq[r].copy /\ PhpGo(r, "up")
  <2> PICK k : k = [phpReq[r] EXCEPT !.step = "up"]
    OBVIOUS
  <2>1. CopyKept(k)
    BY <1>1, <1>2, <1>3, <1>6 DEF CopyKept, PhpRequest, PhpEnded
  <2>2. k.step = "up" /\ k.op = phpReq[r].op /\ k.parts = phpReq[r].parts /\ k.copy = phpReq[r].copy /\ k.was = phpReq[r].was /\ k.old = phpReq[r].old
    BY <1>2 DEF PhpRequest
  <2>3. phpRow' \in PhpSettings /\ phpDir' \in PhpSettings /\ phpCont' \in {"none", "made", "up"} /\ phpUnsure' \in BOOLEAN /\ (phpUnsure => phpUnsure')
    BY <1>2, <1>3, <1>4, <1>6, PhpEnds DEF PhpSettings
  <2>4. ~phpReq[r].met => Known(k, r, phpRow', phpDir', phpUnsure')
    <3> SUFFICES ASSUME ~phpReq[r].met PROVE Known(k, r, phpRow', phpDir', phpUnsure')
      OBVIOUS
    <3>1. Known(phpReq[r], r, phpRow, phpDir, phpUnsure) /\ CopyKept(phpReq[r])
      BY <1>2
    <3> QED BY <3>1, <2>2, <2>3, <1>1, <1>2, <1>3, <1>4, <1>6 DEF Known, RowKnown, FilesKnown, CopyKept, Edited, WrittenParts, NoPhp
  <2>5. "up" \in PhpSteps /\ "up" \notin PhpEnded
    BY DEF PhpSteps, PhpEnded
  <2> QED BY <2>1, <2>3, <2>4, <2>5, <1>1, <1>2, <1>4, <1>6, PhpGoesOn
<1>7. CASE ~phpRow.there /\ phpRow' = phpReq[r].copy /\ PhpGo(r, "done")
  <2>1. "done" \in PhpSteps /\ "done" \in PhpEnded
    BY DEF PhpSteps, PhpEnded
  <2>2. ~phpReq[r].met => (phpRow'.there /\ ~phpUnsure' => phpDir' = phpRow')
    BY <1>1, <1>2, <1>3, <1>4, <1>7 DEF Known, RowKnown, FilesKnown, CopyKept
  <2>3. phpRow' \in PhpSettings /\ phpDir' \in PhpSettings /\ phpCont' \in {"none", "made", "up"} /\ phpUnsure' \in BOOLEAN /\ (phpUnsure => phpUnsure')
    BY <1>2, <1>3, <1>4, <1>7, PhpEnds
  <2> QED BY <2>1, <2>2, <2>3, <1>1, <1>2, <1>4, <1>7, PhpGoesOn
<1> QED BY <1>5, <1>6, <1>7 DEF InsertRuntime

LEMMA AutoStartRuntimeKeeps == ASSUME PhpInv, NEW r \in PhpReqs, AutoStartRuntime(r) PROVE PhpInv'
<1>1. phpReq[r].step = "up" /\ phpReq[r].step \notin PhpEnded
  BY DEF AutoStartRuntime, PhpAt, PhpEnded
<1>2. /\ phpReq[r] \in PhpRequest /\ CopyKept(phpReq[r])
      /\ phpRow \in PhpSettings /\ phpDir \in PhpSettings /\ phpCont \in {"none", "made", "up"} /\ phpUnsure \in BOOLEAN
      /\ phpReq[r].met => phpUnsure
      /\ ~phpReq[r].met => Known(phpReq[r], r, phpRow, phpDir, phpUnsure)
  BY <1>1, PhpKnows
<1>3. phpReq[r].op \in {"create"} /\ phpReq[r].copy \in PhpSettings /\ phpReq[r].was \in PhpSettings /\ phpReq[r].old \in PhpSettings /\ phpReq[r].op \in PhpOps
  BY <1>1, <1>2 DEF CopyKept, PhpRequest, PhpOps
<1>4. phpRow' = phpRow /\ phpDir' = phpDir /\ phpUnsure' = phpUnsure
  BY DEF AutoStartRuntime
<1>5. CASE PhpUp /\ PhpGo(r, "done")
  <2>1. "done" \in PhpSteps /\ "done" \in PhpEnded
    BY DEF PhpSteps, PhpEnded
  <2>2. ~phpReq[r].met => (phpRow'.there /\ ~phpUnsure' => phpDir' = phpRow')
    BY <1>1, <1>2, <1>3, <1>4, <1>5 DEF Known, RowKnown, FilesKnown, CopyKept, PhpUp
  <2>3. phpRow' \in PhpSettings /\ phpDir' \in PhpSettings /\ phpCont' \in {"none", "made", "up"} /\ phpUnsure' \in BOOLEAN /\ (phpUnsure => phpUnsure')
    BY <1>2, <1>3, <1>4, <1>5, PhpEnds DEF PhpUp
  <2> QED BY <2>1, <2>2, <2>3, <1>1, <1>2, <1>4, <1>5, PhpGoesOn
<1>6. CASE PhpUpFails /\ PhpGo(r, "unrow")
  <2> PICK k : k = [phpReq[r] EXCEPT !.step = "unrow"]
    OBVIOUS
  <2>1. CopyKept(k)
    BY <1>1, <1>2, <1>3, <1>6 DEF CopyKept, PhpRequest, PhpEnded
  <2>2. k.step = "unrow" /\ k.op = phpReq[r].op /\ k.parts = phpReq[r].parts /\ k.copy = phpReq[r].copy /\ k.was = phpReq[r].was /\ k.old = phpReq[r].old
    BY <1>2 DEF PhpRequest
  <2>3. phpRow' \in PhpSettings /\ phpDir' \in PhpSettings /\ phpCont' \in {"none", "made", "up"} /\ phpUnsure' \in BOOLEAN /\ (phpUnsure => phpUnsure')
    BY <1>2, <1>3, <1>4, <1>6, PhpEnds DEF PhpSettings, PhpUpFails
  <2>4. ~phpReq[r].met => Known(k, r, phpRow', phpDir', phpUnsure')
    <3> SUFFICES ASSUME ~phpReq[r].met PROVE Known(k, r, phpRow', phpDir', phpUnsure')
      OBVIOUS
    <3>1. Known(phpReq[r], r, phpRow, phpDir, phpUnsure) /\ CopyKept(phpReq[r])
      BY <1>2
    <3> QED BY <3>1, <2>2, <2>3, <1>1, <1>2, <1>3, <1>4, <1>6 DEF Known, RowKnown, FilesKnown, CopyKept, Edited, WrittenParts, NoPhp, PhpUpFails
  <2>5. "unrow" \in PhpSteps /\ "unrow" \notin PhpEnded
    BY DEF PhpSteps, PhpEnded
  <2> QED BY <2>1, <2>3, <2>4, <2>5, <1>1, <1>2, <1>4, <1>6, PhpGoesOn
<1> QED BY <1>5, <1>6 DEF AutoStartRuntime

LEMMA DropRuntimeRowKeeps == ASSUME PhpInv, NEW r \in PhpReqs, DropRuntimeRow(r) PROVE PhpInv'
<1>1. phpReq[r].step = "unrow" /\ phpReq[r].step \notin PhpEnded
  BY DEF DropRuntimeRow, PhpAt, PhpEnded
<1>2. /\ phpReq[r] \in PhpRequest /\ CopyKept(phpReq[r])
      /\ phpRow \in PhpSettings /\ phpDir \in PhpSettings /\ phpCont \in {"none", "made", "up"} /\ phpUnsure \in BOOLEAN
      /\ phpReq[r].met => phpUnsure
      /\ ~phpReq[r].met => Known(phpReq[r], r, phpRow, phpDir, phpUnsure)
  BY <1>1, PhpKnows
<1>3. phpReq[r].op \in {"create", "delete"} /\ phpReq[r].copy \in PhpSettings /\ phpReq[r].was \in PhpSettings /\ phpReq[r].old \in PhpSettings /\ phpReq[r].op \in PhpOps
  BY <1>1, <1>2 DEF CopyKept, PhpRequest, PhpOps
<1>4. phpRow' = NoPhp /\ phpDir' = phpDir /\ phpCont' = phpCont /\ phpUnsure' = phpUnsure
  BY DEF DropRuntimeRow
<1>5. CASE phpReq[r].op = "create" /\ PhpGo(r, "erase")
  <2> PICK k : k = [phpReq[r] EXCEPT !.step = "erase"]
    OBVIOUS
  <2>1. CopyKept(k)
    BY <1>1, <1>2, <1>3, <1>5 DEF CopyKept, PhpRequest, PhpEnded
  <2>2. k.step = "erase" /\ k.op = phpReq[r].op /\ k.parts = phpReq[r].parts /\ k.copy = phpReq[r].copy /\ k.was = phpReq[r].was /\ k.old = phpReq[r].old
    BY <1>2 DEF PhpRequest
  <2>3. phpRow' \in PhpSettings /\ phpDir' \in PhpSettings /\ phpCont' \in {"none", "made", "up"} /\ phpUnsure' \in BOOLEAN /\ (phpUnsure => phpUnsure')
    BY <1>2, <1>3, <1>4, <1>5, PhpEnds DEF PhpSettings
  <2>4. ~phpReq[r].met => Known(k, r, phpRow', phpDir', phpUnsure')
    <3> SUFFICES ASSUME ~phpReq[r].met PROVE Known(k, r, phpRow', phpDir', phpUnsure')
      OBVIOUS
    <3>1. Known(phpReq[r], r, phpRow, phpDir, phpUnsure) /\ CopyKept(phpReq[r])
      BY <1>2
    <3> QED BY <3>1, <2>2, <2>3, <1>1, <1>2, <1>3, <1>4, <1>5 DEF Known, RowKnown, FilesKnown, CopyKept, Edited, WrittenParts, NoPhp
  <2>5. "erase" \in PhpSteps /\ "erase" \notin PhpEnded
    BY DEF PhpSteps, PhpEnded
  <2> QED BY <2>1, <2>3, <2>4, <2>5, <1>1, <1>2, <1>4, <1>5, PhpGoesOn
<1>6. CASE phpReq[r].op = "delete" /\ PhpGo(r, "done")
  <2>1. "done" \in PhpSteps /\ "done" \in PhpEnded
    BY DEF PhpSteps, PhpEnded
  <2>2. ~phpReq[r].met => (phpRow'.there /\ ~phpUnsure' => phpDir' = phpRow')
    BY <1>1, <1>2, <1>3, <1>4, <1>6 DEF Known, RowKnown, FilesKnown, CopyKept, NoPhp
  <2>3. phpRow' \in PhpSettings /\ phpDir' \in PhpSettings /\ phpCont' \in {"none", "made", "up"} /\ phpUnsure' \in BOOLEAN /\ (phpUnsure => phpUnsure')
    BY <1>2, <1>3, <1>4, <1>6, PhpEnds DEF NoPhp
  <2> QED BY <2>1, <2>2, <2>3, <1>1, <1>2, <1>4, <1>6, PhpGoesOn
<1> QED BY <1>3, <1>5, <1>6 DEF DropRuntimeRow

LEMMA EraseRuntimeDirKeeps == ASSUME PhpInv, NEW r \in PhpReqs, EraseRuntimeDir(r) PROVE PhpInv'
<1>1. phpReq[r].step = "erase" /\ phpReq[r].step \notin PhpEnded
  BY DEF EraseRuntimeDir, PhpAt, PhpEnded
<1>2. /\ phpReq[r] \in PhpRequest /\ CopyKept(phpReq[r])
      /\ phpRow \in PhpSettings /\ phpDir \in PhpSettings /\ phpCont \in {"none", "made", "up"} /\ phpUnsure \in BOOLEAN
      /\ phpReq[r].met => phpUnsure
      /\ ~phpReq[r].met => Known(phpReq[r], r, phpRow, phpDir, phpUnsure)
  BY <1>1, PhpKnows
<1>3. phpReq[r].op \in {"create", "delete"} /\ phpReq[r].copy \in PhpSettings /\ phpReq[r].was \in PhpSettings /\ phpReq[r].old \in PhpSettings /\ phpReq[r].op \in PhpOps
  BY <1>1, <1>2 DEF CopyKept, PhpRequest, PhpOps
<1>4. phpRow' = phpRow /\ phpDir' = NoPhp /\ phpCont' = phpCont /\ phpUnsure' = phpUnsure
  BY DEF EraseRuntimeDir
<1>5. CASE phpReq[r].op = "create" /\ PhpGo(r, "done")
  <2>1. "done" \in PhpSteps /\ "done" \in PhpEnded
    BY DEF PhpSteps, PhpEnded
  <2>2. ~phpReq[r].met => (phpRow'.there /\ ~phpUnsure' => phpDir' = phpRow')
    BY <1>1, <1>2, <1>3, <1>4, <1>5 DEF Known, RowKnown, FilesKnown, CopyKept
  <2>3. phpRow' \in PhpSettings /\ phpDir' \in PhpSettings /\ phpCont' \in {"none", "made", "up"} /\ phpUnsure' \in BOOLEAN /\ (phpUnsure => phpUnsure')
    BY <1>2, <1>3, <1>4, <1>5, PhpEnds
  <2> QED BY <2>1, <2>2, <2>3, <1>1, <1>2, <1>4, <1>5, PhpGoesOn
<1>6. CASE phpReq[r].op = "delete" /\ PhpGo(r, "unrow")
  <2> PICK k : k = [phpReq[r] EXCEPT !.step = "unrow"]
    OBVIOUS
  <2>1. CopyKept(k)
    BY <1>1, <1>2, <1>3, <1>6 DEF CopyKept, PhpRequest, PhpEnded
  <2>2. k.step = "unrow" /\ k.op = phpReq[r].op /\ k.parts = phpReq[r].parts /\ k.copy = phpReq[r].copy /\ k.was = phpReq[r].was /\ k.old = phpReq[r].old
    BY <1>2 DEF PhpRequest
  <2>3. phpRow' \in PhpSettings /\ phpDir' \in PhpSettings /\ phpCont' \in {"none", "made", "up"} /\ phpUnsure' \in BOOLEAN /\ (phpUnsure => phpUnsure')
    BY <1>2, <1>3, <1>4, <1>6, PhpEnds DEF PhpSettings
  <2>4. ~phpReq[r].met => Known(k, r, phpRow', phpDir', phpUnsure')
    <3> SUFFICES ASSUME ~phpReq[r].met PROVE Known(k, r, phpRow', phpDir', phpUnsure')
      OBVIOUS
    <3>1. Known(phpReq[r], r, phpRow, phpDir, phpUnsure) /\ CopyKept(phpReq[r])
      BY <1>2
    <3> QED BY <3>1, <2>2, <2>3, <1>1, <1>2, <1>3, <1>4, <1>6 DEF Known, RowKnown, FilesKnown, CopyKept, Edited, WrittenParts, NoPhp
  <2>5. "unrow" \in PhpSteps /\ "unrow" \notin PhpEnded
    BY DEF PhpSteps, PhpEnded
  <2> QED BY <2>1, <2>3, <2>4, <2>5, <1>1, <1>2, <1>4, <1>6, PhpGoesOn
<1> QED BY <1>3, <1>5, <1>6 DEF EraseRuntimeDir

LEMMA SaveRuntimeKeeps == ASSUME PhpInv, NEW r \in PhpReqs, SaveRuntime(r) PROVE PhpInv'
<1>1. phpReq[r].step = "save" /\ phpReq[r].step \notin PhpEnded
  BY DEF SaveRuntime, PhpAt, PhpEnded
<1>2. /\ phpReq[r] \in PhpRequest /\ CopyKept(phpReq[r])
      /\ phpRow \in PhpSettings /\ phpDir \in PhpSettings /\ phpCont \in {"none", "made", "up"} /\ phpUnsure \in BOOLEAN
      /\ phpReq[r].met => phpUnsure
      /\ ~phpReq[r].met => Known(phpReq[r], r, phpRow, phpDir, phpUnsure)
  BY <1>1, PhpKnows
<1>3. phpReq[r].op \in {"config", "install", "remove"} /\ phpReq[r].copy \in PhpSettings /\ phpReq[r].was \in PhpSettings /\ phpReq[r].old \in PhpSettings /\ phpReq[r].op \in PhpOps
  BY <1>1, <1>2 DEF CopyKept, PhpRequest, PhpOps
<1>4. phpRow' = phpReq[r].copy /\ phpDir' = phpDir /\ phpCont' = phpCont /\ phpUnsure' = phpUnsure
  BY DEF SaveRuntime
<1>5. CASE phpReq[r].op = "config" /\ PhpGo(r, "restart")
  <2> PICK k : k = [phpReq[r] EXCEPT !.step = "restart"]
    OBVIOUS
  <2>1. CopyKept(k)
    BY <1>1, <1>2, <1>3, <1>5 DEF CopyKept, PhpRequest, PhpEnded
  <2>2. k.step = "restart" /\ k.op = phpReq[r].op /\ k.parts = phpReq[r].parts /\ k.copy = phpReq[r].copy /\ k.was = phpReq[r].was /\ k.old = phpReq[r].old
    BY <1>2 DEF PhpRequest
  <2>3. phpRow' \in PhpSettings /\ phpDir' \in PhpSettings /\ phpCont' \in {"none", "made", "up"} /\ phpUnsure' \in BOOLEAN /\ (phpUnsure => phpUnsure')
    BY <1>2, <1>3, <1>4, <1>5, PhpEnds DEF PhpSettings
  <2>4. ~phpReq[r].met => Known(k, r, phpRow', phpDir', phpUnsure')
    <3> SUFFICES ASSUME ~phpReq[r].met PROVE Known(k, r, phpRow', phpDir', phpUnsure')
      OBVIOUS
    <3>1. Known(phpReq[r], r, phpRow, phpDir, phpUnsure) /\ CopyKept(phpReq[r])
      BY <1>2
    <3> QED BY <3>1, <2>2, <2>3, <1>1, <1>2, <1>3, <1>4, <1>5 DEF Known, RowKnown, FilesKnown, CopyKept, Edited, WrittenParts, NoPhp
  <2>5. "restart" \in PhpSteps /\ "restart" \notin PhpEnded
    BY DEF PhpSteps, PhpEnded
  <2> QED BY <2>1, <2>3, <2>4, <2>5, <1>1, <1>2, <1>4, <1>5, PhpGoesOn
<1>6. CASE phpReq[r].op \in {"install", "remove"} /\ PhpGo(r, "dockerfile")
  <2> PICK k : k = [phpReq[r] EXCEPT !.step = "dockerfile"]
    OBVIOUS
  <2>1. CopyKept(k)
    BY <1>1, <1>2, <1>3, <1>6 DEF CopyKept, PhpRequest, PhpEnded
  <2>2. k.step = "dockerfile" /\ k.op = phpReq[r].op /\ k.parts = phpReq[r].parts /\ k.copy = phpReq[r].copy /\ k.was = phpReq[r].was /\ k.old = phpReq[r].old
    BY <1>2 DEF PhpRequest
  <2>3. phpRow' \in PhpSettings /\ phpDir' \in PhpSettings /\ phpCont' \in {"none", "made", "up"} /\ phpUnsure' \in BOOLEAN /\ (phpUnsure => phpUnsure')
    BY <1>2, <1>3, <1>4, <1>6, PhpEnds DEF PhpSettings
  <2>4. ~phpReq[r].met => Known(k, r, phpRow', phpDir', phpUnsure')
    <3> SUFFICES ASSUME ~phpReq[r].met PROVE Known(k, r, phpRow', phpDir', phpUnsure')
      OBVIOUS
    <3>1. Known(phpReq[r], r, phpRow, phpDir, phpUnsure) /\ CopyKept(phpReq[r])
      BY <1>2
    <3> QED BY <3>1, <2>2, <2>3, <1>1, <1>2, <1>3, <1>4, <1>6 DEF Known, RowKnown, FilesKnown, CopyKept, Edited, WrittenParts, NoPhp
  <2>5. "dockerfile" \in PhpSteps /\ "dockerfile" \notin PhpEnded
    BY DEF PhpSteps, PhpEnded
  <2> QED BY <2>1, <2>3, <2>4, <2>5, <1>1, <1>2, <1>4, <1>6, PhpGoesOn
<1> QED BY <1>3, <1>5, <1>6 DEF SaveRuntime

LEMMA RestartAfterConfigKeeps == ASSUME PhpInv, NEW r \in PhpReqs, RestartAfterConfig(r) PROVE PhpInv'
<1>1. phpReq[r].step = "restart" /\ phpReq[r].step \notin PhpEnded
  BY DEF RestartAfterConfig, PhpAt, PhpEnded
<1>2. /\ phpReq[r] \in PhpRequest /\ CopyKept(phpReq[r])
      /\ phpRow \in PhpSettings /\ phpDir \in PhpSettings /\ phpCont \in {"none", "made", "up"} /\ phpUnsure \in BOOLEAN
      /\ phpReq[r].met => phpUnsure
      /\ ~phpReq[r].met => Known(phpReq[r], r, phpRow, phpDir, phpUnsure)
  BY <1>1, PhpKnows
<1>3. phpReq[r].op \in {"config"} /\ phpReq[r].copy \in PhpSettings /\ phpReq[r].was \in PhpSettings /\ phpReq[r].old \in PhpSettings /\ phpReq[r].op \in PhpOps
  BY <1>1, <1>2 DEF CopyKept, PhpRequest, PhpOps
<1>4. phpRow' = phpRow /\ phpDir' = phpDir /\ phpCont' = phpCont /\ phpUnsure' = phpUnsure
  BY DEF RestartAfterConfig
<1>5. CASE PhpGo(r, "done")
  <2>1. "done" \in PhpSteps /\ "done" \in PhpEnded
    BY DEF PhpSteps, PhpEnded
  <2>2. ~phpReq[r].met => (phpRow'.there /\ ~phpUnsure' => phpDir' = phpRow')
    BY <1>1, <1>2, <1>3, <1>4, <1>5 DEF Known, RowKnown, FilesKnown, CopyKept
  <2>3. phpRow' \in PhpSettings /\ phpDir' \in PhpSettings /\ phpCont' \in {"none", "made", "up"} /\ phpUnsure' \in BOOLEAN /\ (phpUnsure => phpUnsure')
    BY <1>2, <1>3, <1>4, <1>5, PhpEnds
  <2> QED BY <2>1, <2>2, <2>3, <1>1, <1>2, <1>4, <1>5, PhpGoesOn
<1>6. CASE PhpGo(r, "putback")
  <2> PICK k : k = [phpReq[r] EXCEPT !.step = "putback"]
    OBVIOUS
  <2>1. CopyKept(k)
    BY <1>1, <1>2, <1>3, <1>6 DEF CopyKept, PhpRequest, PhpEnded
  <2>2. k.step = "putback" /\ k.op = phpReq[r].op /\ k.parts = phpReq[r].parts /\ k.copy = phpReq[r].copy /\ k.was = phpReq[r].was /\ k.old = phpReq[r].old
    BY <1>2 DEF PhpRequest
  <2>3. phpRow' \in PhpSettings /\ phpDir' \in PhpSettings /\ phpCont' \in {"none", "made", "up"} /\ phpUnsure' \in BOOLEAN /\ (phpUnsure => phpUnsure')
    BY <1>2, <1>3, <1>4, <1>6, PhpEnds DEF PhpSettings
  <2>4. ~phpReq[r].met => Known(k, r, phpRow', phpDir', phpUnsure')
    <3> SUFFICES ASSUME ~phpReq[r].met PROVE Known(k, r, phpRow', phpDir', phpUnsure')
      OBVIOUS
    <3>1. Known(phpReq[r], r, phpRow, phpDir, phpUnsure) /\ CopyKept(phpReq[r])
      BY <1>2
    <3> QED BY <3>1, <2>2, <2>3, <1>1, <1>2, <1>3, <1>4, <1>6 DEF Known, RowKnown, FilesKnown, CopyKept, Edited, WrittenParts, NoPhp
  <2>5. "putback" \in PhpSteps /\ "putback" \notin PhpEnded
    BY DEF PhpSteps, PhpEnded
  <2> QED BY <2>1, <2>3, <2>4, <2>5, <1>1, <1>2, <1>4, <1>6, PhpGoesOn
<1> QED BY <1>5, <1>6 DEF RestartAfterConfig

LEMMA RestoreRowKeeps == ASSUME PhpInv, NEW r \in PhpReqs, RestoreRow(r) PROVE PhpInv'
<1>1. phpReq[r].step = "putback" /\ phpReq[r].op = "config" /\ phpReq[r].step \notin PhpEnded
  BY DEF RestoreRow, PhpAt, PhpEnded
<1>2. /\ phpReq[r] \in PhpRequest /\ CopyKept(phpReq[r])
      /\ phpRow \in PhpSettings /\ phpDir \in PhpSettings /\ phpCont \in {"none", "made", "up"} /\ phpUnsure \in BOOLEAN
      /\ phpReq[r].met => phpUnsure
      /\ ~phpReq[r].met => Known(phpReq[r], r, phpRow, phpDir, phpUnsure)
  BY <1>1, PhpKnows
<1>3. phpReq[r].op \in {"config"} /\ phpReq[r].copy \in PhpSettings /\ phpReq[r].was \in PhpSettings /\ phpReq[r].old \in PhpSettings /\ phpReq[r].op \in PhpOps
  BY <1>1, <1>2 DEF CopyKept, PhpRequest, PhpOps
<1>4. /\ phpDir' = phpDir /\ phpCont' = phpCont /\ phpUnsure' = phpUnsure
      /\ phpRow' = [phpReq[r].copy EXCEPT !.ini = phpReq[r].was.ini, !.fpm = phpReq[r].was.fpm]
  BY DEF RestoreRow
<1>r. phpRow' = phpReq[r].was
  <2>1. phpReq[r].op = "config" /\ phpReq[r].copy.there /\ phpReq[r].was.there /\ phpReq[r].copy.ext = phpReq[r].was.ext
    BY <1>1, <1>2, <1>3 DEF CopyKept
  <2>2. \A c, w \in PhpSettings : c.there /\ w.there /\ c.ext = w.ext => [c EXCEPT !.ini = w.ini, !.fpm = w.fpm] = w
    BY DEF PhpSettings
  <2>. QED
    BY <1>3, <1>4, <2>1, <2>2
<1>5. CASE PhpGo(r, "rewrite")
  <2> PICK k : k = [phpReq[r] EXCEPT !.step = "rewrite"]
    OBVIOUS
  <2>1. CopyKept(k)
    BY <1>1, <1>2, <1>3, <1>5 DEF CopyKept, PhpRequest, PhpEnded
  <2>2. k.step = "rewrite" /\ k.op = phpReq[r].op /\ k.parts = phpReq[r].parts /\ k.copy = phpReq[r].copy /\ k.was = phpReq[r].was /\ k.old = phpReq[r].old
    BY <1>2 DEF PhpRequest
  <2>3. phpRow' \in PhpSettings /\ phpDir' \in PhpSettings /\ phpCont' \in {"none", "made", "up"} /\ phpUnsure' \in BOOLEAN /\ (phpUnsure => phpUnsure')
    BY <1>2, <1>3, <1>4, <1>5, PhpEnds DEF PhpSettings
  <2>4. ~phpReq[r].met => Known(k, r, phpRow', phpDir', phpUnsure')
    <3> SUFFICES ASSUME ~phpReq[r].met PROVE Known(k, r, phpRow', phpDir', phpUnsure')
      OBVIOUS
    <3>1. Known(phpReq[r], r, phpRow, phpDir, phpUnsure) /\ CopyKept(phpReq[r])
      BY <1>2
    <3>2. RowKnown(k, phpRow')
      BY <1>3, <1>r, <2>2 DEF RowKnown
    <3>3. ~phpUnsure => FilesKnown(k, r, phpRow', phpDir)
      <4>1. phpReq[r].op = "config" => WrittenParts(phpReq[r]) = WrittenParts(k)
        BY <1>1, <2>2 DEF WrittenParts
      <4>2. ~phpUnsure => FilesKnown(phpReq[r], r, phpRow, phpDir)
        BY <3>1, <1>1 DEF Known
      <4> QED BY <4>1, <4>2, <1>3, <2>2 DEF FilesKnown
    <3> QED BY <3>2, <3>3, <2>2, <1>4 DEF Known
  <2>5. "rewrite" \in PhpSteps /\ "rewrite" \notin PhpEnded
    BY DEF PhpSteps, PhpEnded
  <2> QED BY <2>1, <2>3, <2>4, <2>5, <1>1, <1>2, <1>4, <1>5, PhpGoesOn
<1> QED BY <1>5 DEF RestoreRow

LEMMA RestoreFilesKeeps == ASSUME PhpInv, NEW r \in PhpReqs, RestoreFiles(r) PROVE PhpInv'
<1>1. phpReq[r].step = "rewrite" /\ phpReq[r].step \notin PhpEnded
  BY DEF RestoreFiles, PhpAt, PhpEnded
<1>2. /\ phpReq[r] \in PhpRequest /\ CopyKept(phpReq[r])
      /\ phpRow \in PhpSettings /\ phpDir \in PhpSettings /\ phpCont \in {"none", "made", "up"} /\ phpUnsure \in BOOLEAN
      /\ phpReq[r].met => phpUnsure
      /\ ~phpReq[r].met => Known(phpReq[r], r, phpRow, phpDir, phpUnsure)
  BY <1>1, PhpKnows
<1>3. phpReq[r].op \in {"config"} /\ phpReq[r].copy \in PhpSettings /\ phpReq[r].was \in PhpSettings /\ phpReq[r].old \in PhpSettings /\ phpReq[r].op \in PhpOps
  BY <1>1, <1>2 DEF CopyKept, PhpRequest, PhpOps
<1>4. /\ phpRow' = phpRow /\ phpCont' = phpCont /\ phpUnsure' = phpUnsure
      /\ phpDir' = [phpDir EXCEPT !.ini = IF phpDir.there /\ "ini" \in phpReq[r].parts THEN phpReq[r].old.ini ELSE @,
                                  !.fpm = IF phpDir.there /\ "fpm" \in phpReq[r].parts THEN phpReq[r].old.fpm ELSE @]
  BY DEF RestoreFiles
<1>f. ~phpReq[r].met /\ ~phpUnsure => phpDir' = phpRow'
  <2> SUFFICES ASSUME ~phpReq[r].met, ~phpUnsure PROVE phpDir' = phpRow'
    OBVIOUS
  <2>1. RowKnown(phpReq[r], phpRow) /\ FilesKnown(phpReq[r], r, phpRow, phpDir) /\ WrittenParts(phpReq[r]) = phpReq[r].parts
    BY <1>1, <1>2 DEF Known, WrittenParts
  <2>2. phpRow = phpReq[r].was /\ phpDir = Edited(phpReq[r].was, phpReq[r].parts, r) /\ phpReq[r].was.there
    BY <2>1, <1>1, <1>2, <1>3 DEF RowKnown, FilesKnown, CopyKept
  <2>3. phpDir.there
    BY <2>2, <1>3, PhpEdits
  <2>4. ("ini" \in phpReq[r].parts => phpReq[r].old.ini = phpRow.ini) /\ ("fpm" \in phpReq[r].parts => phpReq[r].old.fpm = phpRow.fpm)
    BY <2>1, <2>2, <1>3 DEF FilesKnown
  <2>5. /\ phpDir' \in PhpSettings /\ phpDir'.there /\ phpDir'.ext = phpDir.ext
        /\ phpDir'.ini = (IF "ini" \in phpReq[r].parts THEN phpReq[r].old.ini ELSE phpDir.ini)
        /\ phpDir'.fpm = (IF "fpm" \in phpReq[r].parts THEN phpReq[r].old.fpm ELSE phpDir.fpm)
    BY <2>3, <1>2, <1>3, <1>4 DEF PhpSettings
  <2>6. phpDir'.ini = phpRow.ini /\ phpDir'.fpm = phpRow.fpm /\ phpDir'.ext = phpRow.ext
    BY <2>2, <2>4, <2>5, <1>3, PhpEdits
  <2> QED BY <2>2, <2>5, <2>6, <1>2, <1>4, PhpSameFields
<1>5. CASE PhpGo(r, "failed")
  <2>1. "failed" \in PhpSteps /\ "failed" \in PhpEnded
    BY DEF PhpSteps, PhpEnded
  <2>2. ~phpReq[r].met => (phpRow'.there /\ ~phpUnsure' => phpDir' = phpRow')
    BY <1>f, <1>4
  <2>3. phpRow' \in PhpSettings /\ phpDir' \in PhpSettings /\ phpCont' \in {"none", "made", "up"} /\ phpUnsure' \in BOOLEAN /\ (phpUnsure => phpUnsure')
    BY <1>2, <1>3, <1>4, PhpEnds DEF PhpSettings
  <2> QED BY <2>1, <2>2, <2>3, <1>1, <1>2, <1>4, <1>5, PhpGoesOn
<1> QED BY <1>5 DEF RestoreFiles

LEMMA WriteDockerfileKeeps == ASSUME PhpInv, NEW r \in PhpReqs, WriteDockerfile(r) PROVE PhpInv'
<1>1. phpReq[r].step = "dockerfile" /\ phpReq[r].step \notin PhpEnded
  BY DEF WriteDockerfile, PhpAt, PhpEnded
<1>2. /\ phpReq[r] \in PhpRequest /\ CopyKept(phpReq[r])
      /\ phpRow \in PhpSettings /\ phpDir \in PhpSettings /\ phpCont \in {"none", "made", "up"} /\ phpUnsure \in BOOLEAN
      /\ phpReq[r].met => phpUnsure
      /\ ~phpReq[r].met => Known(phpReq[r], r, phpRow, phpDir, phpUnsure)
  BY <1>1, PhpKnows
<1>3. phpReq[r].op \in {"install", "remove"} /\ phpReq[r].copy \in PhpSettings /\ phpReq[r].was \in PhpSettings /\ phpReq[r].old \in PhpSettings /\ phpReq[r].op \in PhpOps
  BY <1>1, <1>2 DEF CopyKept, PhpRequest, PhpOps
<1>4. phpRow' = phpRow /\ phpCont' = phpCont /\ phpUnsure' = phpUnsure
  BY DEF WriteDockerfile
<1>5. CASE phpDir.there /\ phpDir' = [phpDir EXCEPT !.ext = phpReq[r].copy.ext] /\ PhpGo(r, "rebuild")
  <2> PICK k : k = [phpReq[r] EXCEPT !.step = "rebuild"]
    OBVIOUS
  <2>1. CopyKept(k)
    BY <1>1, <1>2, <1>3, <1>5 DEF CopyKept, PhpRequest, PhpEnded
  <2>2. k.step = "rebuild" /\ k.op = phpReq[r].op /\ k.parts = phpReq[r].parts /\ k.copy = phpReq[r].copy /\ k.was = phpReq[r].was /\ k.old = phpReq[r].old
    BY <1>2 DEF PhpRequest
  <2>3. phpRow' \in PhpSettings /\ phpDir' \in PhpSettings /\ phpCont' \in {"none", "made", "up"} /\ phpUnsure' \in BOOLEAN /\ (phpUnsure => phpUnsure')
    BY <1>2, <1>3, <1>4, <1>5, PhpEnds DEF PhpSettings
  <2>4. ~phpReq[r].met => Known(k, r, phpRow', phpDir', phpUnsure')
    <3> SUFFICES ASSUME ~phpReq[r].met PROVE Known(k, r, phpRow', phpDir', phpUnsure')
      OBVIOUS
    <3>1. Known(phpReq[r], r, phpRow, phpDir, phpUnsure) /\ CopyKept(phpReq[r])
      BY <1>2
    <3> QED BY <3>1, <2>2, <2>3, <1>1, <1>2, <1>3, <1>4, <1>5 DEF Known, RowKnown, FilesKnown, CopyKept, Edited, WrittenParts, NoPhp
  <2>5. "rebuild" \in PhpSteps /\ "rebuild" \notin PhpEnded
    BY DEF PhpSteps, PhpEnded
  <2> QED BY <2>1, <2>3, <2>4, <2>5, <1>1, <1>2, <1>4, <1>5, PhpGoesOn
<1>6. CASE phpDir' = phpDir /\ PhpGo(r, "putback")
  <2> PICK k : k = [phpReq[r] EXCEPT !.step = "putback"]
    OBVIOUS
  <2>1. CopyKept(k)
    BY <1>1, <1>2, <1>3, <1>6 DEF CopyKept, PhpRequest, PhpEnded
  <2>2. k.step = "putback" /\ k.op = phpReq[r].op /\ k.parts = phpReq[r].parts /\ k.copy = phpReq[r].copy /\ k.was = phpReq[r].was /\ k.old = phpReq[r].old
    BY <1>2 DEF PhpRequest
  <2>3. phpRow' \in PhpSettings /\ phpDir' \in PhpSettings /\ phpCont' \in {"none", "made", "up"} /\ phpUnsure' \in BOOLEAN /\ (phpUnsure => phpUnsure')
    BY <1>2, <1>3, <1>4, <1>6, PhpEnds DEF PhpSettings
  <2>4. ~phpReq[r].met => Known(k, r, phpRow', phpDir', phpUnsure')
    <3> SUFFICES ASSUME ~phpReq[r].met PROVE Known(k, r, phpRow', phpDir', phpUnsure')
      OBVIOUS
    <3>1. Known(phpReq[r], r, phpRow, phpDir, phpUnsure) /\ CopyKept(phpReq[r])
      BY <1>2
    <3> QED BY <3>1, <2>2, <2>3, <1>1, <1>2, <1>3, <1>4, <1>6 DEF Known, RowKnown, FilesKnown, CopyKept, Edited, WrittenParts, NoPhp
  <2>5. "putback" \in PhpSteps /\ "putback" \notin PhpEnded
    BY DEF PhpSteps, PhpEnded
  <2> QED BY <2>1, <2>3, <2>4, <2>5, <1>1, <1>2, <1>4, <1>6, PhpGoesOn
<1> QED BY <1>5, <1>6 DEF WriteDockerfile

LEMMA RebuildRuntimeKeeps == ASSUME PhpInv, NEW r \in PhpReqs, RebuildRuntime(r) PROVE PhpInv'
<1>1. phpReq[r].step = "rebuild" /\ phpReq[r].step \notin PhpEnded
  BY DEF RebuildRuntime, PhpAt, PhpEnded
<1>2. /\ phpReq[r] \in PhpRequest /\ CopyKept(phpReq[r])
      /\ phpRow \in PhpSettings /\ phpDir \in PhpSettings /\ phpCont \in {"none", "made", "up"} /\ phpUnsure \in BOOLEAN
      /\ phpReq[r].met => phpUnsure
      /\ ~phpReq[r].met => Known(phpReq[r], r, phpRow, phpDir, phpUnsure)
  BY <1>1, PhpKnows
<1>3. phpReq[r].op \in {"install", "remove"} /\ phpReq[r].copy \in PhpSettings /\ phpReq[r].was \in PhpSettings /\ phpReq[r].old \in PhpSettings /\ phpReq[r].op \in PhpOps
  BY <1>1, <1>2 DEF CopyKept, PhpRequest, PhpOps
<1>4. phpRow' = phpRow /\ phpDir' = phpDir /\ phpUnsure' = phpUnsure
  BY DEF RebuildRuntime
<1>5. CASE PhpUp /\ PhpGo(r, "done")
  <2>1. "done" \in PhpSteps /\ "done" \in PhpEnded
    BY DEF PhpSteps, PhpEnded
  <2>2. ~phpReq[r].met => (phpRow'.there /\ ~phpUnsure' => phpDir' = phpRow')
    BY <1>1, <1>2, <1>3, <1>4, <1>5 DEF Known, RowKnown, FilesKnown, CopyKept, PhpUp
  <2>3. phpRow' \in PhpSettings /\ phpDir' \in PhpSettings /\ phpCont' \in {"none", "made", "up"} /\ phpUnsure' \in BOOLEAN /\ (phpUnsure => phpUnsure')
    BY <1>2, <1>3, <1>4, <1>5, PhpEnds DEF PhpUp
  <2> QED BY <2>1, <2>2, <2>3, <1>1, <1>2, <1>4, <1>5, PhpGoesOn
<1>6. CASE PhpUpFails /\ PhpGo(r, "putback")
  <2> PICK k : k = [phpReq[r] EXCEPT !.step = "putback"]
    OBVIOUS
  <2>1. CopyKept(k)
    BY <1>1, <1>2, <1>3, <1>6 DEF CopyKept, PhpRequest, PhpEnded
  <2>2. k.step = "putback" /\ k.op = phpReq[r].op /\ k.parts = phpReq[r].parts /\ k.copy = phpReq[r].copy /\ k.was = phpReq[r].was /\ k.old = phpReq[r].old
    BY <1>2 DEF PhpRequest
  <2>3. phpRow' \in PhpSettings /\ phpDir' \in PhpSettings /\ phpCont' \in {"none", "made", "up"} /\ phpUnsure' \in BOOLEAN /\ (phpUnsure => phpUnsure')
    BY <1>2, <1>3, <1>4, <1>6, PhpEnds DEF PhpSettings, PhpUpFails
  <2>4. ~phpReq[r].met => Known(k, r, phpRow', phpDir', phpUnsure')
    <3> SUFFICES ASSUME ~phpReq[r].met PROVE Known(k, r, phpRow', phpDir', phpUnsure')
      OBVIOUS
    <3>1. Known(phpReq[r], r, phpRow, phpDir, phpUnsure) /\ CopyKept(phpReq[r])
      BY <1>2
    <3> QED BY <3>1, <2>2, <2>3, <1>1, <1>2, <1>3, <1>4, <1>6 DEF Known, RowKnown, FilesKnown, CopyKept, Edited, WrittenParts, NoPhp, PhpUpFails
  <2>5. "putback" \in PhpSteps /\ "putback" \notin PhpEnded
    BY DEF PhpSteps, PhpEnded
  <2> QED BY <2>1, <2>3, <2>4, <2>5, <1>1, <1>2, <1>4, <1>6, PhpGoesOn
<1> QED BY <1>5, <1>6 DEF RebuildRuntime

LEMMA PutBackExtensionsKeeps == ASSUME PhpInv, NEW r \in PhpReqs, PutBackExtensions(r) PROVE PhpInv'
<1>1. phpReq[r].step = "putback" /\ phpReq[r].op \in {"install", "remove"} /\ phpReq[r].step \notin PhpEnded
  BY DEF PutBackExtensions, PhpAt, PhpEnded
<1>2. /\ phpReq[r] \in PhpRequest /\ CopyKept(phpReq[r])
      /\ phpRow \in PhpSettings /\ phpDir \in PhpSettings /\ phpCont \in {"none", "made", "up"} /\ phpUnsure \in BOOLEAN
      /\ phpReq[r].met => phpUnsure
      /\ ~phpReq[r].met => Known(phpReq[r], r, phpRow, phpDir, phpUnsure)
  BY <1>1, PhpKnows
<1>3. phpReq[r].op \in {"install", "remove"} /\ phpReq[r].copy \in PhpSettings /\ phpReq[r].was \in PhpSettings /\ phpReq[r].old \in PhpSettings /\ phpReq[r].op \in PhpOps
  BY <1>1, <1>2 DEF CopyKept, PhpRequest, PhpOps
<1>4. /\ phpDir' = phpDir /\ phpCont' = phpCont /\ phpUnsure' = (phpUnsure \/ phpDir.ext # phpRow'.ext)
      /\ phpRow' = [phpReq[r].copy EXCEPT !.ext = IF phpReq[r].op = "remove" THEN phpReq[r].was.ext ELSE @]
  BY DEF PutBackExtensions
<1>5. CASE PhpGo(r, "failed")
  <2>1. "failed" \in PhpSteps /\ "failed" \in PhpEnded
    BY DEF PhpSteps, PhpEnded
  <2>2. ~phpReq[r].met => (phpRow'.there /\ ~phpUnsure' => phpDir' = phpRow')
    BY <1>1, <1>2, <1>3, <1>4, <1>5 DEF Known, RowKnown, FilesKnown, CopyKept, PhpSettings
  <2>3. phpRow' \in PhpSettings /\ phpDir' \in PhpSettings /\ phpCont' \in {"none", "made", "up"} /\ phpUnsure' \in BOOLEAN /\ (phpUnsure => phpUnsure')
    BY <1>2, <1>3, <1>4, <1>5, PhpEnds DEF PhpSettings
  <2> QED BY <2>1, <2>2, <2>3, <1>1, <1>2, <1>4, <1>5, PhpGoesOn
<1> QED BY <1>5 DEF PutBackExtensions

LEMMA DeleteRuntimeKeeps == ASSUME PhpInv, NEW r \in PhpReqs, DeleteRuntime(r) PROVE PhpInv'
<1>1. phpRow' = phpRow /\ phpDir' = phpDir /\ phpCont' \in {"none", "made", "up"}
  BY DEF DeleteRuntime, PhpInv, PhpTypeOK
<1>2. NoPhp \in PhpSettings /\ "delete" \in PhpOps /\ "erase" \in PhpSteps /\ "done" \in PhpSteps /\ {} \in SUBSET {"ini", "fpm"}
  BY PhpEnds DEF PhpOps, PhpSteps
<1>3. CASE PhpBegin(r, "delete", "erase", {}, NoPhp)
  <2>1. "erase" \notin PhpEnded
    BY DEF PhpEnded
  <2>2. \A met \in BOOLEAN :
          LET k == [op |-> "delete", step |-> "erase", parts |-> {}, copy |-> NoPhp, was |-> phpRow, old |-> NoPhp, met |-> met]
          IN CopyKept(k) /\ ((phpRow.there /\ ~phpUnsure => phpDir = phpRow) => Known(k, r, phpRow, phpDir, phpUnsure))
    BY <2>1 DEF CopyKept, Known, RowKnown, FilesKnown
  <2> QED BY <1>1, <1>2, <1>3, <2>1, <2>2, PhpBegins
<1>4. CASE PhpBegin(r, "delete", "done", {}, NoPhp)
  BY <1>1, <1>2, <1>4, PhpBegins
<1> QED BY <1>3, <1>4 DEF DeleteRuntime

LEMMA PhpLifecycleKeeps == ASSUME PhpInv, NEW r \in PhpReqs, StartRuntime(r) \/ StopRuntime(r) \/ RestartRuntime(r) PROVE PhpInv'
<1>1. PhpLifecycle(r) /\ phpCont' \in {"none", "made", "up"}
  BY DEF PhpInv, PhpTypeOK, StartRuntime, StopRuntime, RestartRuntime, PhpUp, PhpUpFails
<1>2. NoPhp \in PhpSettings /\ "lifecycle" \in PhpOps /\ "done" \in PhpSteps /\ {} \in SUBSET {"ini", "fpm"}
  BY PhpEnds DEF PhpOps, PhpSteps
<1>3. phpRow' = phpRow /\ phpDir' = phpDir /\ PhpBegin(r, "lifecycle", "done", {}, NoPhp)
  BY <1>1 DEF PhpLifecycle
<1> QED BY <1>1, <1>2, <1>3, PhpBegins

LEMMA UpdateConfigKeeps == ASSUME PhpInv, NEW r \in PhpReqs, UpdateConfig(r) PROVE PhpInv'
<1> PICK parts \in SUBSET {"ini", "fpm"} : PhpBegin(r, "config", "ini", parts, phpRow)
  BY DEF UpdateConfig
<1>1. phpRow' = phpRow /\ phpDir' = phpDir /\ phpCont' \in {"none", "made", "up"} /\ phpRow \in PhpSettings /\ phpRow.there
  BY DEF UpdateConfig, PhpInv, PhpTypeOK
<1>2. "config" \in PhpOps /\ "ini" \in PhpSteps /\ "ini" \notin PhpEnded
  BY DEF PhpOps, PhpSteps, PhpEnded
<1>3. Edited(phpRow, {}, r) = phpRow
  BY <1>1 DEF Edited, PhpSettings
<1>4. \A met \in BOOLEAN :
        LET k == [op |-> "config", step |-> "ini", parts |-> parts, copy |-> phpRow, was |-> phpRow, old |-> NoPhp, met |-> met]
        IN CopyKept(k) /\ ((phpRow.there /\ ~phpUnsure => phpDir = phpRow) => Known(k, r, phpRow, phpDir, phpUnsure))
  BY <1>1, <1>2, <1>3 DEF CopyKept, Known, RowKnown, FilesKnown, WrittenParts
<1> QED BY <1>1, <1>2, <1>4, PhpBegins

\* An extension request begins: the copy differs from the row in the extensions.
LEMMA ExtensionsBegin ==
  ASSUME PhpInv, NEW r \in PhpReqs, NEW op \in {"install", "remove"}, NEW ext \in SUBSET PhpExts,
         phpRow.there, PhpBegin(r, op, "save", {}, [phpRow EXCEPT !.ext = ext]),
         UNCHANGED <<phpRow, phpDir, phpCont>>
  PROVE  PhpInv'
<1> PICK copy : copy = [phpRow EXCEPT !.ext = ext]
  OBVIOUS
<1>1. phpRow' = phpRow /\ phpDir' = phpDir /\ phpCont' \in {"none", "made", "up"} /\ phpRow \in PhpSettings
  BY DEF PhpInv, PhpTypeOK
<1>2. op \in PhpOps /\ "save" \in PhpSteps /\ "save" \notin PhpEnded /\ {} \in SUBSET {"ini", "fpm"}
  BY DEF PhpOps, PhpSteps, PhpEnded
<1>3. copy \in PhpSettings /\ copy = [phpRow EXCEPT !.ext = copy.ext] /\ PhpBegin(r, op, "save", {}, copy)
  BY <1>1 DEF PhpSettings
<1>4. \A met \in BOOLEAN :
        LET k == [op |-> op, step |-> "save", parts |-> {}, copy |-> copy, was |-> phpRow, old |-> NoPhp, met |-> met]
        IN CopyKept(k) /\ ((phpRow.there /\ ~phpUnsure => phpDir = phpRow) => Known(k, r, phpRow, phpDir, phpUnsure))
  BY <1>1, <1>2, <1>3 DEF CopyKept, Known, RowKnown, FilesKnown
<1> QED BY <1>1, <1>2, <1>3, <1>4, PhpBegins

LEMMA InstallExtensionsKeeps == ASSUME PhpInv, NEW r \in PhpReqs, InstallExtensions(r) PROVE PhpInv'
<1> PICK new \in SUBSET PhpExts : PhpBegin(r, "install", "save", {}, [phpRow EXCEPT !.ext = @ \cup new])
  BY DEF InstallExtensions
<1>1. phpRow.there /\ UNCHANGED <<phpRow, phpDir, phpCont>> /\ phpRow \in PhpSettings
  BY DEF InstallExtensions, PhpInv, PhpTypeOK
<1>2. phpRow.ext \cup new \in SUBSET PhpExts
  BY <1>1 DEF PhpSettings
<1>3. PhpBegin(r, "install", "save", {}, [phpRow EXCEPT !.ext = phpRow.ext \cup new])
  OBVIOUS
<1> QED BY <1>1, <1>2, <1>3, ExtensionsBegin

LEMMA RemoveExtensionKeeps == ASSUME PhpInv, NEW r \in PhpReqs, RemoveExtension(r) PROVE PhpInv'
<1> PICK e \in phpRow.ext : PhpBegin(r, "remove", "save", {}, [phpRow EXCEPT !.ext = @ \ {e}])
  BY DEF RemoveExtension
<1>1. phpRow.there /\ UNCHANGED <<phpRow, phpDir, phpCont>> /\ phpRow \in PhpSettings
  BY DEF RemoveExtension, PhpInv, PhpTypeOK
<1>2. phpRow.ext \ {e} \in SUBSET PhpExts
  BY <1>1 DEF PhpSettings
<1>3. PhpBegin(r, "remove", "save", {}, [phpRow EXCEPT !.ext = phpRow.ext \ {e}])
  OBVIOUS
<1> QED BY <1>1, <1>2, <1>3, ExtensionsBegin

LEMMA WriteIniKeeps == ASSUME PhpInv, NEW r \in PhpReqs, WriteIni(r) PROVE PhpInv'
<1>1. phpReq[r].step = "ini" /\ phpReq[r].step \notin PhpEnded
  BY DEF WriteIni, PhpAt, PhpEnded
<1>2. /\ phpReq[r] \in PhpRequest /\ CopyKept(phpReq[r])
      /\ phpRow \in PhpSettings /\ phpDir \in PhpSettings /\ phpCont \in {"none", "made", "up"} /\ phpUnsure \in BOOLEAN
      /\ phpReq[r].met => phpUnsure
      /\ ~phpReq[r].met => Known(phpReq[r], r, phpRow, phpDir, phpUnsure)
  BY <1>1, PhpKnows
<1>3. /\ phpReq[r].op = "config" /\ phpReq[r].copy \in PhpSettings /\ phpReq[r].was \in PhpSettings /\ phpReq[r].old \in PhpSettings
      /\ phpReq[r].was.there /\ phpReq[r].copy.there /\ phpReq[r].copy.ext = phpReq[r].was.ext
  BY <1>1, <1>2 DEF CopyKept, PhpRequest, PhpOps
<1>4. phpRow' = phpRow /\ phpCont' = phpCont /\ phpUnsure' = phpUnsure
  BY DEF WriteIni
<1>r. ~phpReq[r].met => phpRow = phpReq[r].was
  BY <1>1, <1>2, <1>3 DEF Known, RowKnown
<1>k. ~phpReq[r].met /\ ~phpUnsure =>
        /\ phpReq[r].copy = Edited(phpReq[r].was, WrittenParts(phpReq[r]), r) /\ phpDir = phpReq[r].copy
        /\ "ini" \in WrittenParts(phpReq[r]) => phpReq[r].old.ini = phpReq[r].was.ini
  BY <1>1, <1>2, <1>3 DEF Known, FilesKnown
<1>s. "fpm" \in PhpSteps /\ "fpm" \notin PhpEnded /\ "done" \in PhpSteps /\ "done" \in PhpEnded
  BY DEF PhpSteps, PhpEnded
<1>5. CASE /\ "ini" \in phpReq[r].parts /\ phpDir.there /\ phpDir' = [phpDir EXCEPT !.ini = r]
           /\ phpReq' = [phpReq EXCEPT ![r].copy.ini = r, ![r].old = phpDir, ![r].step = "fpm"]
  <2>o. PICK old : old = phpDir
    OBVIOUS
  <2>c. PICK copy : copy = [phpReq[r].copy EXCEPT !.ini = r]
    OBVIOUS
  <2>k. PICK k : k = [phpReq[r] EXCEPT !.copy = copy, !.old = old, !.step = "fpm"]
    OBVIOUS
  <2>1. phpReq' = [phpReq EXCEPT ![r] = k]
    BY <1>5, <2>o, <2>c, <2>k
  <2>2. phpDir' \in PhpSettings /\ copy \in PhpSettings /\ old \in PhpSettings
    BY <1>2, <1>3, <1>5, <2>o, <2>c DEF PhpSettings
  <2>3. /\ k \in PhpRequest /\ k.step = "fpm" /\ k.op = "config" /\ k.parts = phpReq[r].parts /\ k.was = phpReq[r].was /\ k.met = phpReq[r].met
        /\ k.copy = copy /\ k.old = old
    BY <2>2, <2>k, <1>2, <1>3, <1>s DEF PhpRequest
  <2>4. CopyKept(k)
    <3>1. copy.there /\ copy.ext = k.was.ext
      BY <2>3, <2>c, <1>3 DEF PhpSettings
    <3> QED BY <3>1, <2>3, <1>3, <1>s DEF CopyKept
  <2>5. ~phpReq[r].met => Known(k, r, phpRow', phpDir', phpUnsure')
    <3> SUFFICES ASSUME ~phpReq[r].met PROVE Known(k, r, phpRow, phpDir', phpUnsure)
      BY <1>4, <1>5
    <3>1. RowKnown(k, phpRow)
      BY <2>3, <1>r DEF RowKnown
    <3>2. ASSUME ~phpUnsure PROVE FilesKnown(k, r, phpRow, phpDir')
      <4>1. phpReq[r].copy = Edited(phpReq[r].was, WrittenParts(phpReq[r]), r) /\ phpDir = phpReq[r].copy
        BY <3>2, <1>k
      <4>2. WrittenParts(phpReq[r]) = {}
        BY <1>1 DEF WrittenParts
      <4>3. WrittenParts(k) = WrittenParts(phpReq[r]) \cup {"ini"}
        BY <4>2, <2>3, <1>2, <1>5 DEF WrittenParts, PhpRequest
      <4>4. /\ copy.there = phpReq[r].copy.there /\ copy.ext = phpReq[r].copy.ext
            /\ copy.ini = r /\ copy.fpm = phpReq[r].copy.fpm
        BY <2>c, <1>3 DEF PhpSettings
      <4>5. copy = Edited(k.was, WrittenParts(k), r) /\ phpDir' = copy
        <5>1. k.was = phpReq[r].was /\ k.was \in PhpSettings
          BY <2>3, <1>3
        <5>2. /\ copy.there = Edited(k.was, WrittenParts(k), r).there /\ copy.ext = Edited(k.was, WrittenParts(k), r).ext
              /\ copy.ini = Edited(k.was, WrittenParts(k), r).ini /\ copy.fpm = Edited(k.was, WrittenParts(k), r).fpm
          BY <4>1, <4>2, <4>3, <4>4, <5>1, PhpEdits
        <5>3. copy = Edited(k.was, WrittenParts(k), r)
          BY <5>1, <5>2, <2>2, PhpEdits, PhpSameFields
        <5> QED BY <5>3, <4>1, <1>5, <2>c
      <4>6. "ini" \in WrittenParts(k) => old.ini = k.was.ini
        BY <4>1, <4>2, <2>3, <2>o, <1>3, PhpEdits
      <4>7. "fpm" \in WrittenParts(k) => old.fpm = k.was.fpm
        BY <4>2, <4>3
      <4> QED BY <4>5, <4>6, <4>7, <2>3, <1>s DEF FilesKnown
    <3> QED BY <3>1, <3>2, <2>3 DEF Known
  <2>6. /\ k.step \notin PhpEnded /\ k.met = phpReq[r].met /\ k \in PhpRequest
        /\ phpRow' \in PhpSettings /\ phpCont' \in {"none", "made", "up"} /\ phpUnsure' \in BOOLEAN
        /\ phpReq[r].met => phpUnsure'
    BY <2>3, <1>s, <1>2, <1>4, <1>5
  <2> QED BY <2>1, <2>2, <2>4, <2>5, <2>6, <1>1, PhpWorks
<1>6. CASE PhpGo(r, "done") /\ phpDir' = phpDir
  <2>1. ~phpReq[r].met => (phpRow'.there /\ ~phpUnsure' => phpDir' = phpRow')
    <3> SUFFICES ASSUME ~phpReq[r].met, ~phpUnsure' PROVE phpDir = phpRow
      BY <1>4, <1>6
    <3>1. ~phpUnsure
      BY <1>2, <1>4, <1>6
    <3>2. WrittenParts(phpReq[r]) = {}
      BY <3>1, <1>1, <1>2 DEF WrittenParts
    <3>3. phpDir = Edited(phpRow, {}, r) /\ phpRow \in PhpSettings
      BY <3>1, <3>2, <1>k, <1>r, <1>2
    <3> QED BY <3>3, PhpEdits, PhpSameFields
  <2>2. phpUnsure' \in BOOLEAN /\ (phpUnsure => phpUnsure')
    BY <1>2, <1>4, <1>6
  <2> QED BY <2>1, <2>2, <1>1, <1>2, <1>4, <1>s, <1>6, PhpGoesOn
<1>7. CASE "ini" \notin phpReq[r].parts /\ PhpGo(r, "fpm") /\ phpDir' = phpDir
  <2> PICK k : k = [phpReq[r] EXCEPT !.step = "fpm"]
    OBVIOUS
  <2>1. CopyKept(k)
    BY <1>1, <1>2, <1>3, <1>s DEF CopyKept, PhpRequest
  <2>2. k.step = "fpm" /\ k.op = "config" /\ k.parts = phpReq[r].parts /\ k.copy = phpReq[r].copy /\ k.was = phpReq[r].was /\ k.old = phpReq[r].old
    BY <1>2, <1>3 DEF PhpRequest
  <2>3. WrittenParts(k) = WrittenParts(phpReq[r])
    BY <2>2, <1>1, <1>2, <1>7 DEF WrittenParts, PhpRequest
  <2>4. ~phpReq[r].met => Known(k, r, phpRow', phpDir', phpUnsure')
    <3> SUFFICES ASSUME ~phpReq[r].met PROVE Known(k, r, phpRow, phpDir, phpUnsure)
      BY <1>4, <1>7
    <3>1. RowKnown(k, phpRow)
      BY <2>2, <1>r DEF RowKnown
    <3>2. ASSUME ~phpUnsure PROVE FilesKnown(k, r, phpRow, phpDir)
      <4>1. "fpm" \notin WrittenParts(k)
        BY <2>3, <1>1 DEF WrittenParts
      <4> QED BY <4>1, <3>2, <2>2, <2>3, <1>k DEF FilesKnown
    <3> QED BY <3>1, <3>2, <2>2 DEF Known
  <2> QED BY <2>1, <2>4, <1>1, <1>2, <1>4, <1>s, <1>7, PhpGoesOn
<1> QED BY <1>4, <1>5, <1>6, <1>7 DEF WriteIni

LEMMA WriteFpmKeeps == ASSUME PhpInv, NEW r \in PhpReqs, WriteFpm(r) PROVE PhpInv'
<1>1. phpReq[r].step = "fpm" /\ phpReq[r].step \notin PhpEnded
  BY DEF WriteFpm, PhpAt, PhpEnded
<1>2. /\ phpReq[r] \in PhpRequest /\ CopyKept(phpReq[r])
      /\ phpRow \in PhpSettings /\ phpDir \in PhpSettings /\ phpCont \in {"none", "made", "up"} /\ phpUnsure \in BOOLEAN
      /\ phpReq[r].met => phpUnsure
      /\ ~phpReq[r].met => Known(phpReq[r], r, phpRow, phpDir, phpUnsure)
  BY <1>1, PhpKnows
<1>3. /\ phpReq[r].op = "config" /\ phpReq[r].copy \in PhpSettings /\ phpReq[r].was \in PhpSettings /\ phpReq[r].old \in PhpSettings
      /\ phpReq[r].was.there /\ phpReq[r].copy.there /\ phpReq[r].copy.ext = phpReq[r].was.ext
  BY <1>1, <1>2 DEF CopyKept, PhpRequest, PhpOps
<1>4. phpRow' = phpRow /\ phpCont' = phpCont
  BY DEF WriteFpm
<1>r. ~phpReq[r].met => phpRow = phpReq[r].was
  BY <1>1, <1>2, <1>3 DEF Known, RowKnown
<1>k. ~phpReq[r].met /\ ~phpUnsure =>
        /\ phpReq[r].copy = Edited(phpReq[r].was, WrittenParts(phpReq[r]), r) /\ phpDir = phpReq[r].copy
        /\ "ini" \in WrittenParts(phpReq[r]) => phpReq[r].old.ini = phpReq[r].was.ini
  BY <1>1, <1>2, <1>3 DEF Known, FilesKnown
<1>s. "save" \in PhpSteps /\ "save" \notin PhpEnded /\ "done" \in PhpSteps /\ "done" \in PhpEnded
  BY DEF PhpSteps, PhpEnded
<1>5. CASE /\ "fpm" \in phpReq[r].parts /\ phpDir.there /\ phpDir' = [phpDir EXCEPT !.fpm = r] /\ phpUnsure' = phpUnsure
           /\ phpReq' = [phpReq EXCEPT ![r].copy.fpm = r, ![r].step = "save",
                                       ![r].old = [phpDir EXCEPT !.ini =
                                         IF "ini" \in phpReq[r].parts THEN phpReq[r].old.ini ELSE @]]
  <2>o. PICK old : old = [phpDir EXCEPT !.ini = IF "ini" \in phpReq[r].parts THEN phpReq[r].old.ini ELSE @]
    OBVIOUS
  <2>c. PICK copy : copy = [phpReq[r].copy EXCEPT !.fpm = r]
    OBVIOUS
  <2>k. PICK k : k = [phpReq[r] EXCEPT !.copy = copy, !.old = old, !.step = "save"]
    OBVIOUS
  <2>1. phpReq' = [phpReq EXCEPT ![r] = k]
    BY <1>5, <2>o, <2>c, <2>k
  <2>2. phpDir' \in PhpSettings /\ copy \in PhpSettings /\ old \in PhpSettings
    BY <1>2, <1>3, <1>5, <2>o, <2>c DEF PhpSettings
  <2>3. /\ k \in PhpRequest /\ k.step = "save" /\ k.op = "config" /\ k.parts = phpReq[r].parts /\ k.was = phpReq[r].was /\ k.met = phpReq[r].met
        /\ k.copy = copy /\ k.old = old
    BY <2>2, <2>k, <1>2, <1>3, <1>s DEF PhpRequest
  <2>4. CopyKept(k)
    <3>1. copy.there /\ copy.ext = k.was.ext
      BY <2>3, <2>c, <1>3 DEF PhpSettings
    <3> QED BY <3>1, <2>3, <1>3, <1>s DEF CopyKept
  <2>5. ~phpReq[r].met => Known(k, r, phpRow', phpDir', phpUnsure')
    <3> SUFFICES ASSUME ~phpReq[r].met PROVE Known(k, r, phpRow, phpDir', phpUnsure)
      BY <1>4, <1>5
    <3>1. RowKnown(k, phpRow)
      BY <2>3, <1>r DEF RowKnown
    <3>2. ASSUME ~phpUnsure PROVE FilesKnown(k, r, phpRow, phpDir')
      <4>1. phpReq[r].copy = Edited(phpReq[r].was, WrittenParts(phpReq[r]), r) /\ phpDir = phpReq[r].copy
        BY <3>2, <1>k
      <4>2. WrittenParts(phpReq[r]) = phpReq[r].parts \cap {"ini"}
        BY <1>1 DEF WrittenParts
      <4>3. WrittenParts(k) = WrittenParts(phpReq[r]) \cup {"fpm"}
        BY <4>2, <2>3, <1>2, <1>5 DEF WrittenParts, PhpRequest
      <4>4. /\ copy.there = phpReq[r].copy.there /\ copy.ext = phpReq[r].copy.ext
            /\ copy.fpm = r /\ copy.ini = phpReq[r].copy.ini
        BY <2>c, <1>3 DEF PhpSettings
      <4>5. copy = Edited(k.was, WrittenParts(k), r) /\ phpDir' = copy
        <5>1. k.was = phpReq[r].was /\ k.was \in PhpSettings
          BY <2>3, <1>3
        <5>2. /\ copy.there = Edited(k.was, WrittenParts(k), r).there /\ copy.ext = Edited(k.was, WrittenParts(k), r).ext
              /\ copy.ini = Edited(k.was, WrittenParts(k), r).ini /\ copy.fpm = Edited(k.was, WrittenParts(k), r).fpm
          BY <4>1, <4>2, <4>3, <4>4, <5>1, PhpEdits
        <5>3. copy = Edited(k.was, WrittenParts(k), r)
          BY <5>1, <5>2, <2>2, PhpEdits, PhpSameFields
        <5> QED BY <5>3, <4>1, <1>5, <2>c
      <4>o. old \in PhpSettings /\ old.fpm = phpDir.fpm /\ ("ini" \in phpReq[r].parts => old.ini = phpReq[r].old.ini)
        BY <2>2, <2>o, <1>2 DEF PhpSettings
      <4>6. "ini" \in WrittenParts(k) => old.ini = k.was.ini
        BY <4>2, <4>3, <4>o, <2>3, <1>k, <3>2
      <4>7. "fpm" \in WrittenParts(k) => old.fpm = k.was.fpm
        BY <4>1, <4>2, <4>o, <2>3, <1>3, PhpEdits
      <4> QED BY <4>5, <4>6, <4>7, <2>3, <1>s DEF FilesKnown
    <3> QED BY <3>1, <3>2, <2>3 DEF Known
  <2>6. /\ k.step \notin PhpEnded /\ k.met = phpReq[r].met /\ k \in PhpRequest
        /\ phpRow' \in PhpSettings /\ phpCont' \in {"none", "made", "up"} /\ phpUnsure' \in BOOLEAN
        /\ phpReq[r].met => phpUnsure'
    BY <2>3, <1>s, <1>2, <1>4, <1>5
  <2> QED BY <2>1, <2>2, <2>4, <2>5, <2>6, <1>1, PhpWorks
<1>6. CASE PhpGo(r, "done") /\ phpDir' = phpDir /\ phpUnsure' = (phpUnsure \/ "ini" \in phpReq[r].parts)
  <2>1. ~phpReq[r].met => (phpRow'.there /\ ~phpUnsure' => phpDir' = phpRow')
    <3> SUFFICES ASSUME ~phpReq[r].met, ~phpUnsure' PROVE phpDir = phpRow
      BY <1>4, <1>6
    <3>1. ~phpUnsure /\ "ini" \notin phpReq[r].parts
      BY <1>2, <1>4, <1>6
    <3>2. WrittenParts(phpReq[r]) = {}
      BY <3>1, <1>1, <1>2 DEF WrittenParts
    <3>3. phpDir = Edited(phpRow, {}, r) /\ phpRow \in PhpSettings
      BY <3>1, <3>2, <1>k, <1>r, <1>2
    <3> QED BY <3>3, PhpEdits, PhpSameFields
  <2>2. phpUnsure' \in BOOLEAN /\ (phpUnsure => phpUnsure')
    BY <1>2, <1>4, <1>6
  <2> QED BY <2>1, <2>2, <1>1, <1>2, <1>4, <1>s, <1>6, PhpGoesOn
<1>7. CASE "fpm" \notin phpReq[r].parts /\ PhpGo(r, "save") /\ phpDir' = phpDir /\ phpUnsure' = phpUnsure
  <2> PICK k : k = [phpReq[r] EXCEPT !.step = "save"]
    OBVIOUS
  <2>1. CopyKept(k)
    BY <1>1, <1>2, <1>3, <1>s DEF CopyKept, PhpRequest
  <2>2. k.step = "save" /\ k.op = "config" /\ k.parts = phpReq[r].parts /\ k.copy = phpReq[r].copy /\ k.was = phpReq[r].was /\ k.old = phpReq[r].old
    BY <1>2, <1>3 DEF PhpRequest
  <2>3. WrittenParts(k) = WrittenParts(phpReq[r])
    BY <2>2, <1>1, <1>2, <1>7 DEF WrittenParts, PhpRequest
  <2>4. ~phpReq[r].met => Known(k, r, phpRow', phpDir', phpUnsure')
    <3> SUFFICES ASSUME ~phpReq[r].met PROVE Known(k, r, phpRow, phpDir, phpUnsure)
      BY <1>4, <1>7
    <3>1. RowKnown(k, phpRow)
      BY <2>2, <1>r DEF RowKnown
    <3>2. ASSUME ~phpUnsure PROVE FilesKnown(k, r, phpRow, phpDir)
      <4>1. "fpm" \notin WrittenParts(k)
        BY <2>3, <1>1 DEF WrittenParts
      <4> QED BY <4>1, <3>2, <2>2, <2>3, <1>k DEF FilesKnown
    <3> QED BY <3>1, <3>2, <2>2 DEF Known
  <2> QED BY <2>1, <2>4, <1>1, <1>2, <1>4, <1>s, <1>7, PhpGoesOn
<1> QED BY <1>4, <1>5, <1>6, <1>7 DEF WriteFpm

LEMMA PhpDeathKeeps == PhpInv /\ PhpPanelDies => PhpInv'
<1> SUFFICES ASSUME PhpInv, PhpPanelDies PROVE PhpInv'
  OBVIOUS
<1>1. phpReq \in [PhpReqs -> PhpRequest] /\ \A r \in PhpReqs : CopyKept(phpReq[r])
  BY DEF PhpInv, PhpTypeOK, PhpRequest
<1>2. phpReq' = [r \in PhpReqs |-> IF phpReq[r].step \in PhpEnded THEN phpReq[r] ELSE PhpRest("done")]
  BY DEF PhpPanelDies
<1>3. "done" \in PhpEnded /\ PhpRest("done") \in PhpRequest /\ CopyKept(PhpRest("done")) /\ PhpRest("done").step = "done"
  BY PhpEnds DEF PhpEnded
<1>4. \A r \in PhpReqs : CopyKept(phpReq'[r]) /\ phpReq'[r].step \in PhpEnded /\ phpReq'[r] \in PhpRequest
  BY <1>1, <1>2, <1>3
<1>5. phpReq' \in [PhpReqs -> PhpRequest]
  BY <1>1, <1>2, <1>3
<1>6. UNCHANGED <<phpRow, phpDir, phpCont>> /\ phpUnsure'
  BY DEF PhpPanelDies
<1>7. phpUnsure' = TRUE
  BY DEF PhpPanelDies
<1>8. PhpTypeOK'
  BY <1>5, <1>6, <1>7 DEF PhpInv, PhpTypeOK, PhpRequest
<1> QED BY <1>4, <1>6, <1>8 DEF PhpInv, PhpFilesMatch

LEMMA RuntimeKeeps == ASSUME PhpInv, NEW r \in PhpReqs, RuntimeRequest(r) PROVE PhpInv'
BY CreateRuntimeKeeps, WriteRuntimeKeeps, InsertRuntimeKeeps, AutoStartRuntimeKeeps, DropRuntimeRowKeeps,
   EraseRuntimeDirKeeps, DeleteRuntimeKeeps, PhpLifecycleKeeps DEF RuntimeRequest

LEMMA SettingsKeep == ASSUME PhpInv, NEW r \in PhpReqs, SettingsRequest(r) PROVE PhpInv'
BY UpdateConfigKeeps, WriteIniKeeps, WriteFpmKeeps, SaveRuntimeKeeps, RestartAfterConfigKeeps, RestoreRowKeeps,
   RestoreFilesKeeps, InstallExtensionsKeeps, RemoveExtensionKeeps, WriteDockerfileKeeps, RebuildRuntimeKeeps,
   PutBackExtensionsKeeps DEF SettingsRequest

LEMMA PhpInvStep == PhpInv /\ PhpNext => PhpInv'
BY PhpDeathKeeps, RuntimeKeeps, SettingsKeep DEF PhpNext

-----------------------------------------------------------------------------
(* The PHP runtime: a change that fails leaves the row as it was.          *)

\* Only the two rollbacks end a request as failed.
LEMMA PhpFailsOnly ==
  ASSUME PhpInv, PhpNext, NEW r \in PhpReqs, phpReq[r].step # "failed", phpReq'[r].step = "failed"
  PROVE  RestoreFiles(r) \/ PutBackExtensions(r)
<1>1. phpReq \in [PhpReqs -> PhpRequest]
  BY DEF PhpInv, PhpTypeOK, PhpRequest
<1>2. ASSUME NEW q \in PhpReqs, NEW step \in PhpSteps, q # r \/ step # "failed", PhpGo(q, step) PROVE FALSE
  <2>1. CASE q # r
    BY <1>1, <1>2, <2>1 DEF PhpGo
  <2>2. CASE q = r /\ step \in PhpEnded /\ step # "failed"
    BY <1>1, <1>2, <2>2 DEF PhpGo, PhpRest
  <2>3. CASE q = r /\ step \notin PhpEnded /\ step # "failed"
    <3>1. phpReq'[r] = [phpReq[r] EXCEPT !.step = step]
      BY <1>1, <1>2, <2>3 DEF PhpGo
    <3> QED BY <3>1, <1>1, <2>3 DEF PhpRequest
  <2> QED BY <1>2, <2>1, <2>2, <2>3
<1>3. ASSUME NEW q \in PhpReqs, NEW op, NEW step, NEW parts, NEW copy, step # "failed", PhpBegin(q, op, step, parts, copy) PROVE FALSE
  <2>1. phpReq'[r] = IF r = q /\ step = "done" THEN PhpRest("done")
                     ELSE IF r = q
                     THEN [op |-> op, step |-> step, parts |-> parts, copy |-> copy,
                           was |-> phpRow, old |-> NoPhp, met |-> PhpBusy]
                     ELSE [phpReq[r] EXCEPT !.met = @ \/ phpReq[r].step \notin PhpEnded]
    BY <1>3 DEF PhpBegin
  <2>2. CASE r # q
    BY <2>1, <2>2, <1>1 DEF PhpRequest
  <2>3. CASE r = q /\ step = "done"
    BY <2>1, <2>3 DEF PhpRest
  <2>4. CASE r = q /\ step # "done"
    BY <2>1, <2>4, <1>3
  <2> QED BY <2>2, <2>3, <2>4
<1>4. \A s \in {"insert", "done", "up", "unrow", "erase", "fpm", "save", "restart", "dockerfile", "putback", "rewrite", "rebuild"} :
        s \in PhpSteps /\ s # "failed"
  BY DEF PhpSteps
<1>5. ~PhpPanelDies
  BY DEF PhpPanelDies, PhpRest, PhpEnded
<1>6. ASSUME NEW q \in PhpReqs PROVE ~RuntimeRequest(q)
  <2>1. ~CreateRuntime(q)
    BY <1>3 DEF CreateRuntime
  <2>2. ~DeleteRuntime(q)
    BY <1>3 DEF DeleteRuntime
  <2>3. ~PhpLifecycle(q)
    BY <1>3 DEF PhpLifecycle
  <2>4. ~WriteRuntime(q) /\ ~AutoStartRuntime(q) /\ ~DropRuntimeRow(q) /\ ~EraseRuntimeDir(q)
    BY <1>2, <1>4 DEF WriteRuntime, AutoStartRuntime, DropRuntimeRow, EraseRuntimeDir
  <2>5. ~InsertRuntime(q)
    BY <1>2, <1>4 DEF InsertRuntime
  <2> QED BY <2>1, <2>2, <2>3, <2>4, <2>5 DEF RuntimeRequest, StartRuntime, StopRuntime, RestartRuntime
<1>7. ASSUME NEW q \in PhpReqs, SettingsRequest(q) PROVE RestoreFiles(r) \/ PutBackExtensions(r)
  <2>1. ~UpdateConfig(q)
    BY <1>3 DEF UpdateConfig
  <2>2. ~InstallExtensions(q)
    BY <1>3 DEF InstallExtensions
  <2>3. ~RemoveExtension(q)
    BY <1>3 DEF RemoveExtension
  <2>4. ~SaveRuntime(q) /\ ~RestartAfterConfig(q) /\ ~RestoreRow(q) /\ ~WriteDockerfile(q) /\ ~RebuildRuntime(q)
    BY <1>2, <1>4 DEF SaveRuntime, RestartAfterConfig, RestoreRow, WriteDockerfile, RebuildRuntime
  <2>5. ~WriteIni(q)
    <3> SUFFICES ASSUME WriteIni(q) PROVE FALSE
      OBVIOUS
    <3>1. phpReq' = [phpReq EXCEPT ![q].copy.ini = q, ![q].old = phpDir, ![q].step = "fpm"]
      BY <1>2, <1>4 DEF WriteIni
    <3>2. phpReq'[r].step = IF r = q THEN "fpm" ELSE phpReq[r].step
      BY <3>1, <1>1 DEF PhpRequest
    <3> QED BY <3>2
  <2>6. ~WriteFpm(q)
    <3> SUFFICES ASSUME WriteFpm(q) PROVE FALSE
      OBVIOUS
    <3>1. phpReq' = [phpReq EXCEPT ![q].copy.fpm = q, ![q].step = "save",
                                   ![q].old = [phpDir EXCEPT !.ini = IF "ini" \in phpReq[q].parts THEN phpReq[q].old.ini ELSE @]]
      BY <1>2, <1>4 DEF WriteFpm
    <3>2. phpReq'[r].step = IF r = q THEN "save" ELSE phpReq[r].step
      BY <3>1, <1>1 DEF PhpRequest
    <3> QED BY <3>2
  <2>7. RestoreFiles(q) \/ PutBackExtensions(q)
    BY <1>7, <2>1, <2>2, <2>3, <2>4, <2>5, <2>6 DEF SettingsRequest
  <2>8. PhpGo(q, "failed") /\ "failed" \in PhpSteps
    BY <2>7 DEF RestoreFiles, PutBackExtensions, PhpSteps
  <2> QED BY <2>7, <2>8, <1>2
<1> QED BY <1>5, <1>6, <1>7 DEF PhpNext

\* PhpUndone, of one step: the row is the one the request has read.
LEMMA PhpUndoes ==
  ASSUME PhpInv, PhpNext, NEW r \in PhpReqs, phpReq[r].step # "failed", phpReq'[r].step = "failed",
         phpReq[r].op \in {"config", "remove"}, ~phpReq[r].met
  PROVE  phpRow' = phpReq[r].was
<1>1. RestoreFiles(r) \/ PutBackExtensions(r)
  BY PhpFailsOnly
<1>2. CASE RestoreFiles(r)
  <2>1. phpReq[r].step = "rewrite" /\ phpReq[r].step \notin PhpEnded /\ phpRow' = phpRow
    BY <1>2 DEF RestoreFiles, PhpAt, PhpEnded
  <2>2. CopyKept(phpReq[r]) /\ Known(phpReq[r], r, phpRow, phpDir, phpUnsure)
    BY <2>1, PhpKnows
  <2> QED BY <2>1, <2>2 DEF CopyKept, Known, RowKnown
<1>3. CASE PutBackExtensions(r)
  <2>1. /\ phpReq[r].step = "putback" /\ phpReq[r].step \notin PhpEnded /\ phpReq[r].op = "remove"
        /\ phpRow' = [phpReq[r].copy EXCEPT !.ext = IF phpReq[r].op = "remove" THEN phpReq[r].was.ext ELSE @]
    BY <1>3 DEF PutBackExtensions, PhpAt, PhpEnded
  <2>2. CopyKept(phpReq[r]) /\ phpReq[r] \in PhpRequest
    BY <2>1, PhpKnows
  <2>3. phpReq[r].copy = [phpReq[r].was EXCEPT !.ext = phpReq[r].copy.ext] /\ phpReq[r].was \in PhpSettings
    BY <2>1, <2>2 DEF CopyKept, PhpRequest
  <2>4. phpRow' = [phpReq[r].copy EXCEPT !.ext = phpReq[r].was.ext]
    BY <2>1
  <2> QED BY <2>3, <2>4 DEF PhpSettings
<1> QED BY <1>1, <1>2, <1>3

-----------------------------------------------------------------------------
(* The PHP sites: what holds of a site, and of the request at work at it.  *)

SiteRows == [there : BOOLEAN, kind : {"fpm", "franken"}, domain : Domains \cup {NoOne}, host : SiteReqs \cup {NoOne}]
SiteRequests == [step : SiteSteps, name : PhpNames \cup {NoOne}, kind : {"fpm", "franken"},
                 domain : Domains \cup {NoOne}, host : SiteReqs \cup {NoOne}]

\* A runtime that nobody creates or deletes has a row.
RuntimeSure == phpRow.there /\ ~RuntimeGoing

\* A site that no request is at work at: it is served, and its box is its own.
SiteAtRest(n, site, box, hosts, sure) ==
  site.there => /\ hosts[site.host] = site.domain
                /\ IF site.kind = "fpm" THEN sure ELSE box = n

\* A FrankenPHP site's request k that has started the container.
HasBox(k) == k.kind = "franken" /\ k.step \in {"host", "row", "unhost"}

\* What the one request k of r at work at a site n knows at each of its steps.
SiteAtStep(k, r, n, site, box, hosts, sure) ==
  /\ k.step \in {"box", "host", "row"} => ~site.there
  /\ k.step = "box" => k.kind = "franken"
  /\ HasBox(k) => box = n
  /\ k.step = "row" => k.host = r /\ hosts[r] = k.domain
  /\ k.step # "unhost"
  /\ k.step \in {"unserve", "sync"} => site.there /\ k.host = site.host /\ k.kind = site.kind
  /\ k.step = "sync" => k.domain = site.domain /\ (site.kind = "franken" => box = n)
  /\ (site.there /\ site.kind = "fpm") \/ (k.kind = "fpm" /\ k.step \in {"host", "row"}) => sure

\* A site of which nothing is doubtful: at most one request is at work at the names of its
\* slug, and one at work at another name has no box while this site has one.
SiteSound(n) ==
  /\ \A q, r \in SiteReqs : siteReq[q].name \in SameSlug(n) /\ siteReq[r].name \in SameSlug(n) => q = r
  /\ (\A r \in SiteReqs : siteReq[r].name # n) => SiteAtRest(n, phpSite[n], siteBox[PhpSlugOf[n]], siteHost, RuntimeSure)
  /\ \A r \in SiteReqs : siteReq[r].name = n =>
       SiteAtStep(siteReq[r], r, n, phpSite[n], siteBox[PhpSlugOf[n]], siteHost, RuntimeSure)
  /\ phpSite[n].there /\ phpSite[n].kind = "franken" =>
       \A r \in SiteReqs : siteReq[r].name \in SameSlug(n) \ {n} => ~HasBox(siteReq[r])

\* The row of a site, or a request at work at it, refers to a host.
SiteRefers(n, h) == phpSite[n].host = h \/ \E r \in SiteReqs : siteReq[r].name = n /\ siteReq[r].host = h

SiteRowWell(site) == IF site.there THEN site.host # NoOne ELSE site = NoPhpSite
SiteRequestWell(k) ==
  IF k.step = "done" THEN k = SiteRest
  ELSE /\ k.name \in PhpNames
       /\ k.step \in {"box", "host", "row"} => k.domain # NoOne
       /\ k.step = "row" => k.host # NoOne

\* The inductive invariant of the sites: a host is referred to by one site only, and by none
\* while the request it is named after has not created it; and all sites but the doubtful are sound.
SiteInv ==
  /\ SiteTypeOK
  /\ \A n \in PhpNames : SiteRowWell(phpSite[n])
  /\ \A r \in SiteReqs : SiteRequestWell(siteReq[r])
  /\ \A h \in SiteReqs, n, m \in PhpNames : SiteRefers(n, h) /\ SiteRefers(m, h) => n = m
  /\ \A r \in SiteReqs, n \in PhpNames : siteReq[r].step \in {"box", "host"} => ~SiteRefers(n, r)
  /\ \A n \in PhpNames \ siteUnsure : SiteSound(n)

LEMMA SiteTypes ==
  SiteTypeOK <=> /\ phpSite \in [PhpNames -> SiteRows] /\ siteHost \in [SiteReqs -> Domains \cup {NoOne}]
                 /\ siteBox \in [PhpSlugs -> PhpNames \cup {NoOne}] /\ siteReq \in [SiteReqs -> SiteRequests]
                 /\ siteUnsure \subseteq PhpNames
BY DEF SiteTypeOK, SiteRows, SiteRequests

\* "none" is nobody's name.
LEMMA SiteNames == NoOne \notin PhpNames /\ NoOne \notin Domains /\ NoOne \notin SiteReqs
BY PhpSlugAssumption DEF NoOne

\* Every site that SitesServed speaks of is sound.
LEMMA SiteInvSound == SiteInv => SitesServed
<1> SUFFICES ASSUME SiteInv, NEW n \in PhpNames, phpSite[n].there, n \notin siteUnsure \cup SitesAtWork
             PROVE  /\ phpSite[n].host # NoOne /\ siteHost[phpSite[n].host] = phpSite[n].domain
                    /\ \A m \in PhpNames \ {n} : phpSite[m].there => phpSite[m].host # phpSite[n].host
                    /\ IF phpSite[n].kind = "fpm" THEN phpRow.there ELSE siteBox[PhpSlugOf[n]] = n
  BY DEF SitesServed
<1>1. phpSite[n].host # NoOne /\ phpSite[n].host \in SiteReqs
  <2>1. phpSite[n] \in SiteRows /\ phpSite[n].host # NoOne
    BY SiteTypes DEF SiteInv, SiteRowWell
  <2> QED BY <2>1 DEF SiteRows
<1>2. \A r \in SiteReqs : siteReq[r].name # n
  BY SiteNames DEF SitesAtWork
<1>3. SiteAtRest(n, phpSite[n], siteBox[PhpSlugOf[n]], siteHost, RuntimeSure)
  BY <1>2 DEF SiteInv, SiteSound
<1>4. \A m \in PhpNames : phpSite[m].host = phpSite[n].host => m = n
  BY <1>1 DEF SiteInv, SiteRefers
<1> QED BY <1>1, <1>3, <1>4 DEF SiteAtRest, RuntimeSure

LEMMA SiteInvInit == SiteInit => SiteInv
<1> SUFFICES ASSUME SiteInit PROVE SiteInv
  OBVIOUS
<1>1. /\ \A n \in PhpNames : phpSite[n] = NoPhpSite
      /\ \A r \in SiteReqs : siteReq[r] = SiteRest /\ siteHost[r] = NoOne
  BY DEF SiteInit, PhpInit
<1>2. NoPhpSite \in SiteRows /\ SiteRest \in SiteRequests /\ ~NoPhpSite.there /\ NoPhpSite.host = NoOne
  BY DEF NoPhpSite, SiteRest, SiteRows, SiteRequests, NoOne, SiteSteps
<1>3. SiteTypeOK
  <2>1. phpSite = [n \in PhpNames |-> NoPhpSite] /\ siteReq = [r \in SiteReqs |-> SiteRest]
    BY DEF SiteInit, PhpInit
  <2>2. /\ siteHost = [r \in SiteReqs |-> NoOne] /\ siteBox = [s \in PhpSlugs |-> NoOne] /\ siteUnsure = {}
    BY DEF SiteInit
  <2> QED BY <2>1, <2>2, <1>2, SiteTypes
<1>4. \A n \in PhpNames : SiteRowWell(phpSite[n])
  BY <1>1, <1>2 DEF SiteRowWell
<1>5. \A r \in SiteReqs : SiteRequestWell(siteReq[r]) /\ siteReq[r].step = "done" /\ siteReq[r].name = NoOne /\ siteReq[r].host = NoOne
  BY <1>1 DEF SiteRequestWell, SiteRest
<1>6. \A h \in SiteReqs, n \in PhpNames : ~SiteRefers(n, h)
  BY <1>1, <1>2, <1>5, SiteNames DEF SiteRefers
<1>7. \A n \in PhpNames : SiteSound(n)
  BY <1>1, <1>2, <1>5, SiteNames DEF SiteSound, SameSlug, SiteAtRest
<1> QED BY <1>3, <1>4, <1>5, <1>6, <1>7 DEF SiteInv

\* An invariant of the sites' variables holds on when none of them changes.
LEMMA SiteInvSame == SiteInv /\ UNCHANGED siteVars => SiteInv'
BY DEF SiteInv, siteVars, phpVars, SiteTypeOK, SiteSound, SiteRefers, SameSlug, RuntimeSure, RuntimeGoing

\* A step of one request, at a name: the invariant holds on if it does for the hosts and the
\* row of that name, for the request, and for the other names of its slug.
LEMMA SiteMove ==
  ASSUME SiteInv, NEW r \in SiteReqs, NEW n0 \in PhpNames, NEW k \in SiteRequests,
         siteReq' = [siteReq EXCEPT ![r] = k],
         siteReq[r].name \in {n0, NoOne},
         k = SiteRest \/ (k.step # "done" /\ k.name = n0),
         SiteRequestWell(k),
         phpSite' \in [PhpNames -> SiteRows], siteHost' \in [SiteReqs -> Domains \cup {NoOne}],
         siteBox' \in [PhpSlugs -> PhpNames \cup {NoOne}], siteUnsure' \subseteq PhpNames,
         \A m \in PhpNames \ {n0} : phpSite'[m] = phpSite[m],
         SiteRowWell(phpSite'[n0]),
         \A m \in PhpNames : PhpSlugOf[m] # PhpSlugOf[n0] => siteBox'[PhpSlugOf[m]] = siteBox[PhpSlugOf[m]],
         \A h \in SiteReqs : siteHost'[h] # siteHost[h] => SiteRefers(n0, h) \/ (h = r /\ siteReq[r].step = "host"),
         \A h \in SiteReqs : phpSite'[n0].host = h \/ k.host = h => SiteRefers(n0, h) \/ (h = r /\ siteReq[r].step = "host"),
         k.step \in {"box", "host"} => k.host # r /\ phpSite'[n0].host # r /\ \A n \in PhpNames : ~SiteRefers(n, r),
         RuntimeSure' = RuntimeSure,
         siteUnsure \subseteq siteUnsure',
         \A m \in SameSlug(n0) \ siteUnsure', q \in SiteReqs \ {r} : siteReq[q].name \notin SameSlug(n0),
         n0 \notin siteUnsure' =>
           IF k.step = "done" THEN SiteAtRest(n0, phpSite'[n0], siteBox'[PhpSlugOf[n0]], siteHost', RuntimeSure)
           ELSE SiteAtStep(k, r, n0, phpSite'[n0], siteBox'[PhpSlugOf[n0]], siteHost', RuntimeSure),
         \A m \in SameSlug(n0) \ (siteUnsure' \cup {n0}) : phpSite[m].there /\ phpSite[m].kind = "franken" =>
           siteBox'[PhpSlugOf[n0]] = siteBox[PhpSlugOf[n0]] /\ ~HasBox(k)
  PROVE  SiteInv'
<1>1. /\ phpSite \in [PhpNames -> SiteRows] /\ siteHost \in [SiteReqs -> Domains \cup {NoOne}]
      /\ siteBox \in [PhpSlugs -> PhpNames \cup {NoOne}] /\ siteReq \in [SiteReqs -> SiteRequests]
  BY SiteTypes DEF SiteInv
<1>2. siteReq'[r] = k /\ \A q \in SiteReqs \ {r} : siteReq'[q] = siteReq[q]
  BY <1>1
<1>n. (k.step = "done" => k.name = NoOne /\ k.host = NoOne) /\ (k.step # "done" => k.name = n0)
  BY DEF SiteRest
<1>3. SiteTypeOK'
  <2>1. siteReq' \in [SiteReqs -> SiteRequests]
    BY <1>1
  <2> QED BY <2>1, SiteTypes DEF SiteTypeOK, SiteRows, SiteRequests
<1>4. \A n \in PhpNames : SiteRowWell(phpSite'[n])
  BY DEF SiteInv
<1>5. \A q \in SiteReqs : SiteRequestWell(siteReq'[q])
  BY <1>2 DEF SiteInv
<1>6. ASSUME NEW n \in PhpNames, NEW h \in SiteReqs, SiteRefers(n, h)' PROVE SiteRefers(n, h) \/ (n = n0 /\ h = r /\ siteReq[r].step = "host")
  <2>1. CASE phpSite'[n].host = h
    BY <2>1 DEF SiteRefers
  <2>2. ASSUME NEW q \in SiteReqs, siteReq'[q].name = n, siteReq'[q].host = h
        PROVE  SiteRefers(n, h) \/ (n = n0 /\ h = r /\ siteReq[r].step = "host")
    <3>1. CASE q = r
      BY <3>1, <2>2, <1>2, <1>n, SiteNames
    <3>2. CASE q # r
      BY <3>2, <2>2, <1>2 DEF SiteRefers
    <3> QED BY <3>1, <3>2
  <2> QED BY <1>6, <2>1, <2>2 DEF SiteRefers
<1>7. siteReq[r].step = "host" => \A n \in PhpNames : ~SiteRefers(n, r)
  BY DEF SiteInv
<1>8. \A h \in SiteReqs, n, m \in PhpNames : SiteRefers(n, h)' /\ SiteRefers(m, h)' => n = m
  BY <1>6, <1>7 DEF SiteInv
<1>9. ASSUME NEW q \in SiteReqs, NEW n \in PhpNames, siteReq'[q].step \in {"box", "host"}, SiteRefers(n, q)' PROVE FALSE
  <2>1. CASE q = r
    <3>1. k.step \in {"box", "host"} /\ k.host # r /\ phpSite'[n0].host # r /\ ~SiteRefers(n, r)
      BY <1>2, <1>9, <2>1
    <3>2. n = n0
      BY <3>1, <1>6, <1>9, <2>1
    <3>3. PICK p \in SiteReqs : siteReq'[p].name = n0 /\ siteReq'[p].host = r
      BY <3>1, <3>2, <1>9, <2>1 DEF SiteRefers
    <3>4. p # r
      BY <3>1, <3>3, <1>2
    <3> QED BY <3>1, <3>2, <3>3, <3>4, <1>2 DEF SiteRefers
  <2>2. CASE q # r
    <3>1. siteReq[q].step \in {"box", "host"}
      BY <2>2, <1>2, <1>9
    <3>2. ~SiteRefers(n, q)
      BY <3>1 DEF SiteInv
    <3> QED BY <3>2, <2>2, <1>6, <1>9
  <2> QED BY <2>1, <2>2
<1>10. ASSUME NEW n \in PhpNames \ siteUnsure' PROVE SiteSound(n)'
  <2>1. SiteSound(n)
    BY DEF SiteInv
  <2>2. \A m \in PhpNames, h \in SiteReqs : SiteRefers(m, h) /\ m # n0 => siteHost'[h] = siteHost[h]
    BY <1>7 DEF SiteInv
  <2>s. SameSlug(n)' = SameSlug(n) /\ SameSlug(n) \subseteq PhpNames /\ n \in SameSlug(n)
    BY DEF SameSlug
  <2>h. n # n0 /\ phpSite[n].there => siteHost'[phpSite[n].host] = siteHost[phpSite[n].host]
    <3> SUFFICES ASSUME n # n0, phpSite[n].there PROVE siteHost'[phpSite[n].host] = siteHost[phpSite[n].host]
      OBVIOUS
    <3>1. phpSite[n] \in SiteRows /\ SiteRowWell(phpSite[n])
      BY <1>1 DEF SiteInv
    <3>2. phpSite[n].host \in SiteReqs
      BY <3>1 DEF SiteRows, SiteRowWell
    <3>3. SiteRefers(n, phpSite[n].host)
      BY DEF SiteRefers
    <3> QED BY <3>2, <3>3, <2>2
  <2>3. CASE PhpSlugOf[n] # PhpSlugOf[n0]
    <3>1. n0 \notin SameSlug(n) /\ n # n0 /\ NoOne \notin SameSlug(n)
      BY <2>3, <2>s, SiteNames DEF SameSlug
    <3>2. siteReq[r].name \notin SameSlug(n) /\ k.name \notin SameSlug(n)
      BY <3>1, <1>n
    <3>3. \A q \in SiteReqs : siteReq'[q].name \in SameSlug(n) \/ siteReq[q].name \in SameSlug(n) => siteReq'[q] = siteReq[q]
      BY <3>2, <1>2
    <3>4. phpSite'[n] = phpSite[n] /\ siteBox'[PhpSlugOf[n]] = siteBox[PhpSlugOf[n]]
      BY <3>1, <2>3
    <3>5. \A q, p \in SiteReqs : siteReq'[q].name \in SameSlug(n) /\ siteReq'[p].name \in SameSlug(n) => q = p
      BY <3>3, <2>1 DEF SiteSound
    <3>6. (\A q \in SiteReqs : siteReq'[q].name # n) => SiteAtRest(n, phpSite'[n], siteBox'[PhpSlugOf[n]], siteHost', RuntimeSure)
      <4> SUFFICES ASSUME \A q \in SiteReqs : siteReq'[q].name # n
                   PROVE  SiteAtRest(n, phpSite'[n], siteBox'[PhpSlugOf[n]], siteHost', RuntimeSure)
        OBVIOUS
      <4>1. SiteAtRest(n, phpSite[n], siteBox[PhpSlugOf[n]], siteHost, RuntimeSure)
        BY <3>3, <2>1, <2>s DEF SiteSound
      <4> QED BY <4>1, <3>1, <3>4, <2>h DEF SiteAtRest
    <3>7. ASSUME NEW q \in SiteReqs, siteReq'[q].name = n
          PROVE  SiteAtStep(siteReq'[q], q, n, phpSite'[n], siteBox'[PhpSlugOf[n]], siteHost', RuntimeSure)
      <4>1. siteReq'[q] = siteReq[q] /\ siteReq[q].name = n
        BY <3>3, <3>7, <2>s
      <4>2. SiteAtStep(siteReq[q], q, n, phpSite[n], siteBox[PhpSlugOf[n]], siteHost, RuntimeSure)
        BY <4>1, <2>1 DEF SiteSound
      <4>3. siteReq[q].step = "row" => siteHost'[q] = siteHost[q]
        BY <4>1, <4>2, <2>2, <3>1 DEF SiteAtStep, SiteRefers
      <4> QED BY <4>1, <4>2, <4>3, <3>4 DEF SiteAtStep
    <3>8. phpSite'[n].there /\ phpSite'[n].kind = "franken" =>
            \A q \in SiteReqs : siteReq'[q].name \in SameSlug(n) \ {n} => ~HasBox(siteReq'[q])
      BY <3>3, <3>4, <2>1 DEF SiteSound
    <3> QED BY <3>5, <3>6, <3>7, <3>8, <2>s DEF SiteSound
  <2>4. CASE PhpSlugOf[n] = PhpSlugOf[n0]
    <3>1. SameSlug(n) = SameSlug(n0) /\ n \in SameSlug(n0) /\ NoOne \notin SameSlug(n0)
      BY <2>4, SiteNames DEF SameSlug
    <3>2. \A q \in SiteReqs \ {r} : siteReq[q].name \notin SameSlug(n) /\ siteReq'[q].name \notin SameSlug(n)
      BY <3>1, <1>2
    <3>3. \A q, p \in SiteReqs : siteReq'[q].name \in SameSlug(n) /\ siteReq'[p].name \in SameSlug(n) => q = p
      BY <3>2
    <3>4. CASE n = n0
      <4>1. \A q \in SiteReqs : siteReq'[q].name = n => q = r /\ k.step # "done"
        BY <3>2, <1>2, <1>n, <2>s, SiteNames
      <4>2. k.step # "done" => siteReq'[r].name = n
        BY <3>4, <1>2, <1>n
      <4>3. (\A q \in SiteReqs : siteReq'[q].name # n) => SiteAtRest(n, phpSite'[n], siteBox'[PhpSlugOf[n]], siteHost', RuntimeSure)
        BY <3>4, <4>2
      <4>4. \A q \in SiteReqs : siteReq'[q].name = n =>
              SiteAtStep(siteReq'[q], q, n, phpSite'[n], siteBox'[PhpSlugOf[n]], siteHost', RuntimeSure)
        BY <3>4, <4>1, <1>2
      <4>5. \A q \in SiteReqs : siteReq'[q].name \in SameSlug(n) => siteReq'[q].name = n
        BY <3>2, <3>4, <1>2, <1>n, <3>1
      <4> QED BY <3>3, <4>3, <4>4, <4>5, <2>s DEF SiteSound
    <3>5. CASE n # n0
      <4>1. \A q \in SiteReqs : siteReq'[q].name # n /\ siteReq[q].name # n
        BY <3>2, <3>5, <1>2, <1>n, <2>s, SiteNames
      <4>2. SiteAtRest(n, phpSite[n], siteBox[PhpSlugOf[n]], siteHost, RuntimeSure) /\ phpSite'[n] = phpSite[n]
        BY <4>1, <3>5, <2>1 DEF SiteSound
      <4>3. phpSite[n].there /\ phpSite[n].kind = "franken" => siteBox'[PhpSlugOf[n]] = siteBox[PhpSlugOf[n]] /\ ~HasBox(k)
        BY <3>1, <3>5, <2>4
      <4>4. phpSite[n] \in SiteRows
        BY <1>1
      <4>5. SiteAtRest(n, phpSite'[n], siteBox'[PhpSlugOf[n]], siteHost', RuntimeSure)
        BY <4>2, <4>3, <4>4, <3>5, <2>h DEF SiteAtRest, SiteRows
      <4>6. phpSite'[n].there /\ phpSite'[n].kind = "franken" =>
              \A q \in SiteReqs : siteReq'[q].name \in SameSlug(n) \ {n} => ~HasBox(siteReq'[q])
        BY <4>2, <4>3, <3>2, <1>2
      <4> QED BY <3>3, <4>1, <4>5, <4>6, <2>s DEF SiteSound
    <3> QED BY <3>4, <3>5
  <2> QED BY <2>3, <2>4
<1> QED BY <1>3, <1>4, <1>5, <1>8, <1>9, <1>10 DEF SiteInv

-----------------------------------------------------------------------------
(* The PHP sites: each action keeps the invariant.                         *)

\* What a step of a request is to site n0, with the row k as what the request becomes.
SiteMoves(r, n0, k) ==
  /\ siteReq' = [siteReq EXCEPT ![r] = k]
  /\ siteReq[r].name \in {n0, NoOne}
  /\ (k = SiteRest \/ (k.step # "done" /\ k.name = n0))
  /\ SiteRequestWell(k)
  /\ phpSite' \in [PhpNames -> SiteRows] /\ siteHost' \in [SiteReqs -> Domains \cup {NoOne}]
  /\ siteBox' \in [PhpSlugs -> PhpNames \cup {NoOne}] /\ siteUnsure' \subseteq PhpNames
  /\ \A m \in PhpNames \ {n0} : phpSite'[m] = phpSite[m]
  /\ SiteRowWell(phpSite'[n0])
  /\ \A m \in PhpNames : PhpSlugOf[m] # PhpSlugOf[n0] => siteBox'[PhpSlugOf[m]] = siteBox[PhpSlugOf[m]]
  /\ \A h \in SiteReqs : siteHost'[h] # siteHost[h] => SiteRefers(n0, h) \/ (h = r /\ siteReq[r].step = "host")
  /\ \A h \in SiteReqs : phpSite'[n0].host = h \/ k.host = h => SiteRefers(n0, h) \/ (h = r /\ siteReq[r].step = "host")
  /\ k.step \in {"box", "host"} => k.host # r /\ phpSite'[n0].host # r /\ \A n \in PhpNames : ~SiteRefers(n, r)
  /\ RuntimeSure' = RuntimeSure
  /\ siteUnsure \subseteq siteUnsure'
  /\ \A m \in SameSlug(n0) \ siteUnsure', q \in SiteReqs \ {r} : siteReq[q].name \notin SameSlug(n0)
  /\ n0 \notin siteUnsure' =>
       IF k.step = "done" THEN SiteAtRest(n0, phpSite'[n0], siteBox'[PhpSlugOf[n0]], siteHost', RuntimeSure)
       ELSE SiteAtStep(k, r, n0, phpSite'[n0], siteBox'[PhpSlugOf[n0]], siteHost', RuntimeSure)
  /\ \A m \in SameSlug(n0) \ (siteUnsure' \cup {n0}) : phpSite[m].there /\ phpSite[m].kind = "franken" =>
       siteBox'[PhpSlugOf[n0]] = siteBox[PhpSlugOf[n0]] /\ ~HasBox(k)

\* Such a step keeps the invariant.
LEMMA SiteMoved ==
  ASSUME SiteInv, NEW r \in SiteReqs, NEW n0 \in PhpNames, NEW k \in SiteRequests, SiteMoves(r, n0, k)
  PROVE  SiteInv'
BY SiteMove DEF SiteMoves

\* What is known of a request at work at a site.
LEMMA SiteKnows ==
  ASSUME SiteInv, NEW r \in SiteReqs, siteReq[r].step # "done"
  PROVE  /\ siteReq[r] \in SiteRequests /\ siteReq[r].name \in PhpNames /\ SiteRequestWell(siteReq[r])
         /\ phpSite[siteReq[r].name] \in SiteRows /\ SiteRowWell(phpSite[siteReq[r].name])
         /\ siteReq[r].name \in SameSlug(siteReq[r].name)
         /\ siteReq[r].name \notin siteUnsure =>
              SiteAtStep(siteReq[r], r, siteReq[r].name, phpSite[siteReq[r].name], siteBox[SiteSlug(r)], siteHost, RuntimeSure)
         /\ \A m \in SameSlug(siteReq[r].name) \ siteUnsure, q \in SiteReqs \ {r} : siteReq[q].name \notin SameSlug(siteReq[r].name)
         /\ \A m \in SameSlug(siteReq[r].name) \ (siteUnsure \cup {siteReq[r].name}) :
              phpSite[m].there /\ phpSite[m].kind = "franken" => ~HasBox(siteReq[r])
<1>1. siteReq[r] \in SiteRequests /\ SiteRequestWell(siteReq[r])
  BY SiteTypes DEF SiteInv
<1>2. siteReq[r].name \in PhpNames
  BY <1>1 DEF SiteRequestWell
<1> PICK n \in PhpNames : n = siteReq[r].name
  BY <1>2
<1>3. phpSite[n] \in SiteRows /\ SiteRowWell(phpSite[n])
  BY SiteTypes DEF SiteInv
<1>4. \A m \in SameSlug(n) : m \in PhpNames /\ SameSlug(m) = SameSlug(n) /\ n \in SameSlug(m)
  BY DEF SameSlug
<1>5. \A m \in SameSlug(n) \ siteUnsure : SiteSound(m)
  BY <1>4 DEF SiteInv
<1>6. n \notin siteUnsure => SiteAtStep(siteReq[r], r, n, phpSite[n], siteBox[PhpSlugOf[n]], siteHost, RuntimeSure)
  BY DEF SiteInv, SiteSound
<1>7. \A m \in SameSlug(n) \ siteUnsure, q \in SiteReqs \ {r} : siteReq[q].name \notin SameSlug(n)
  BY <1>4, <1>5 DEF SiteSound
<1>8. \A m \in SameSlug(n) \ (siteUnsure \cup {n}) : phpSite[m].there /\ phpSite[m].kind = "franken" => ~HasBox(siteReq[r])
  BY <1>4, <1>5 DEF SiteSound
<1>9. n \in SameSlug(n)
  BY DEF SameSlug
<1> QED BY <1>1, <1>3, <1>6, <1>7, <1>8, <1>9 DEF SiteSlug

\* A request at work takes a step k at its site, and the rows of the sites do not change.
LEMMA SiteWorks ==
  ASSUME SiteInv, NEW r \in SiteReqs, siteReq[r].step # "done", NEW k \in SiteRequests,
         siteReq' = [siteReq EXCEPT ![r] = k],
         k = SiteRest \/ (k.step \notin {"done", "box"} /\ k.name = siteReq[r].name /\ (k.step = "host" => siteReq[r].step = "box")),
         SiteRequestWell(k),
         k.host \in {NoOne, siteReq[r].host} \/ (k.host = r /\ siteReq[r].step = "host"),
         UNCHANGED <<phpSite, phpRow, phpReq>>,
         siteHost' \in [SiteReqs -> Domains \cup {NoOne}],
         siteBox' \in [PhpSlugs -> PhpNames \cup {NoOne}], siteUnsure' \subseteq PhpNames,
         \A s \in PhpSlugs \ {SiteSlug(r)} : siteBox'[s] = siteBox[s],
         \A h \in SiteReqs : siteHost'[h] # siteHost[h] => h = siteReq[r].host \/ (h = r /\ siteReq[r].step = "host"),
         siteUnsure \subseteq siteUnsure',
         siteReq[r].name \notin siteUnsure' =>
           IF k.step = "done"
           THEN SiteAtRest(siteReq[r].name, phpSite[siteReq[r].name], siteBox'[SiteSlug(r)], siteHost', RuntimeSure)
           ELSE SiteAtStep(k, r, siteReq[r].name, phpSite[siteReq[r].name], siteBox'[SiteSlug(r)], siteHost', RuntimeSure),
         \A m \in SameSlug(siteReq[r].name) \ (siteUnsure' \cup {siteReq[r].name}) :
           phpSite[m].there /\ phpSite[m].kind = "franken" => siteBox'[SiteSlug(r)] = siteBox[SiteSlug(r)] /\ ~HasBox(k)
  PROVE  SiteInv'
<1>1. siteReq[r].name \in PhpNames
  BY SiteKnows
<1> PICK n \in PhpNames : n = siteReq[r].name
  BY <1>1
<1>2. SiteSlug(r) = PhpSlugOf[n] /\ \A m \in PhpNames : PhpSlugOf[m] \in PhpSlugs
  BY DEF SiteSlug, PhpSlugs
<1>3. phpSite' = phpSite /\ phpSite' \in [PhpNames -> SiteRows] /\ SiteRowWell(phpSite'[n])
  BY SiteTypes DEF SiteInv
<1>4. RuntimeSure' = RuntimeSure
  BY DEF RuntimeSure, RuntimeGoing
<1>5. \A m \in PhpNames : PhpSlugOf[m] # PhpSlugOf[n] => siteBox'[PhpSlugOf[m]] = siteBox[PhpSlugOf[m]]
  BY <1>2
<1>6. \A h \in SiteReqs : siteHost'[h] # siteHost[h] => SiteRefers(n, h) \/ (h = r /\ siteReq[r].step = "host")
  BY DEF SiteRefers
<1>7. \A h \in SiteReqs : phpSite'[n].host = h \/ k.host = h => SiteRefers(n, h) \/ (h = r /\ siteReq[r].step = "host")
  BY <1>3, SiteNames DEF SiteRefers
<1>8. k.step \in {"box", "host"} => k.host # r /\ phpSite'[n].host # r /\ \A m \in PhpNames : ~SiteRefers(m, r)
  <2> SUFFICES ASSUME k.step \in {"box", "host"} PROVE k.host # r /\ phpSite'[n].host # r /\ \A m \in PhpNames : ~SiteRefers(m, r)
    OBVIOUS
  <2>1. siteReq[r].step = "box"
    BY DEF SiteRest
  <2>2. \A m \in PhpNames : ~SiteRefers(m, r)
    BY <2>1 DEF SiteInv
  <2>3. siteReq[r].host # r /\ phpSite[n].host # r
    BY <2>2 DEF SiteRefers
  <2> QED BY <2>1, <2>2, <2>3, <1>3, SiteNames
<1>9. \A m \in SameSlug(n) \ siteUnsure', q \in SiteReqs \ {r} : siteReq[q].name \notin SameSlug(n)
  BY SiteKnows
<1>10. n \notin siteUnsure' =>
         IF k.step = "done" THEN SiteAtRest(n, phpSite'[n], siteBox'[PhpSlugOf[n]], siteHost', RuntimeSure)
         ELSE SiteAtStep(k, r, n, phpSite'[n], siteBox'[PhpSlugOf[n]], siteHost', RuntimeSure)
  BY <1>2, <1>3
<1>11. \A m \in SameSlug(n) \ (siteUnsure' \cup {n}) : phpSite[m].there /\ phpSite[m].kind = "franken" =>
         siteBox'[PhpSlugOf[n]] = siteBox[PhpSlugOf[n]] /\ ~HasBox(k)
  BY <1>2
<1>12. \A m \in PhpNames \ {n} : phpSite'[m] = phpSite[m]
  BY <1>3
<1>13. siteReq[r].name \in {n, NoOne} /\ (k = SiteRest \/ (k.step # "done" /\ k.name = n))
  OBVIOUS
<1> HIDE DEF SiteRest
<1>20. SiteMoves(r, n, k)
  BY <1>3, <1>4, <1>5, <1>6, <1>7, <1>8, <1>9, <1>10, <1>11, <1>12, <1>13 DEF SiteMoves
<1> QED BY <1>20, SiteMoved

LEMMA SiteRests == SiteRest \in SiteRequests /\ SiteRequestWell(SiteRest) /\ SiteRest.step = "done" /\ SiteRest.host = NoOne /\ ~HasBox(SiteRest)
BY DEF SiteRest, SiteRequests, SiteRequestWell, SiteSteps, NoOne, HasBox

\* The request as SiteGo leaves it, and the container's entry as it is taken away.
LEMMA SiteGoes ==
  ASSUME SiteInv, NEW r \in SiteReqs, siteReq[r].step # "done", NEW step \in SiteSteps, SiteGo(r, step)
  PROVE  \E k \in SiteRequests :
           /\ siteReq' = [siteReq EXCEPT ![r] = k]
           /\ IF step = "done" THEN k = SiteRest
              ELSE /\ k.step = step /\ k.name = siteReq[r].name /\ k.kind = siteReq[r].kind
                   /\ k.domain = siteReq[r].domain /\ k.host = siteReq[r].host
<1>1. siteReq[r] \in SiteRequests
  BY SiteKnows
<1>2. CASE step = "done"
  BY <1>2, SiteRests DEF SiteGo
<1>3. CASE step # "done"
  <2>1. PICK k : k = [siteReq[r] EXCEPT !.step = step]
    OBVIOUS
  <2>2. /\ k \in SiteRequests /\ k.step = step /\ k.name = siteReq[r].name /\ k.kind = siteReq[r].kind
        /\ k.domain = siteReq[r].domain /\ k.host = siteReq[r].host
    BY <1>1, <2>1 DEF SiteRequests
  <2>3. siteReq' = [siteReq EXCEPT ![r] = k]
    BY <1>3, <2>1 DEF SiteGo
  <2> QED BY <1>3, <2>2, <2>3
<1> QED BY <1>2, <1>3

\* The same lemma as SiteWorks, for a request that ends.
LEMMA SiteEnds ==
  ASSUME SiteInv, NEW r \in SiteReqs, siteReq[r].step # "done", SiteGo(r, "done"),
         UNCHANGED <<phpSite, phpRow, phpReq>>,
         siteHost' \in [SiteReqs -> Domains \cup {NoOne}],
         siteBox' \in [PhpSlugs -> PhpNames \cup {NoOne}], siteUnsure' \subseteq PhpNames,
         \A s \in PhpSlugs \ {SiteSlug(r)} : siteBox'[s] = siteBox[s],
         \A h \in SiteReqs : siteHost'[h] # siteHost[h] => h = siteReq[r].host \/ (h = r /\ siteReq[r].step = "host"),
         siteUnsure \subseteq siteUnsure',
         siteReq[r].name \notin siteUnsure' =>
           SiteAtRest(siteReq[r].name, phpSite[siteReq[r].name], siteBox'[SiteSlug(r)], siteHost', RuntimeSure),
         \A m \in SameSlug(siteReq[r].name) \ (siteUnsure' \cup {siteReq[r].name}) :
           phpSite[m].there /\ phpSite[m].kind = "franken" => siteBox'[SiteSlug(r)] = siteBox[SiteSlug(r)]
  PROVE  SiteInv'
<1>1. PICK k \in SiteRequests : siteReq' = [siteReq EXCEPT ![r] = k] /\ k = SiteRest
  BY SiteRests DEF SiteGo
<1>2. k.step = "done" /\ k.host \in {NoOne, siteReq[r].host} /\ SiteRequestWell(k) /\ ~HasBox(k)
  BY <1>1, SiteRests
<1>3. k = SiteRest \/ (k.step \notin {"done", "box"} /\ k.name = siteReq[r].name /\ (k.step = "host" => siteReq[r].step = "box"))
  <2>1. k = SiteRest
    BY <1>1
  <2> QED BY <2>1
<1>4. siteReq[r].name \notin siteUnsure' =>
        IF k.step = "done"
        THEN SiteAtRest(siteReq[r].name, phpSite[siteReq[r].name], siteBox'[SiteSlug(r)], siteHost', RuntimeSure)
        ELSE SiteAtStep(k, r, siteReq[r].name, phpSite[siteReq[r].name], siteBox'[SiteSlug(r)], siteHost', RuntimeSure)
  BY <1>2
<1>5. \A m \in SameSlug(siteReq[r].name) \ (siteUnsure' \cup {siteReq[r].name}) :
        phpSite[m].there /\ phpSite[m].kind = "franken" => siteBox'[SiteSlug(r)] = siteBox[SiteSlug(r)] /\ ~HasBox(k)
  BY <1>2
<1>6. k \in SiteRequests /\ siteReq' = [siteReq EXCEPT ![r] = k]
  BY <1>1
<1> QED BY <1>2, <1>3, <1>4, <1>5, <1>6, SiteWorks

LEMMA StartFrankenKeeps == ASSUME SiteInv, NEW r \in SiteReqs, StartFranken(r) PROVE SiteInv'
<1> PICK n, s : n = siteReq[r].name /\ s = SiteSlug(r)
  OBVIOUS
<1>1. siteReq[r].step = "box" /\ siteReq[r].step # "done"
  BY DEF StartFranken, SiteAt
<1>2. /\ siteReq[r] \in SiteRequests /\ n \in PhpNames /\ SiteRequestWell(siteReq[r])
      /\ n \notin siteUnsure => SiteAtStep(siteReq[r], r, n, phpSite[n], siteBox[s], siteHost, RuntimeSure)
  BY <1>1, SiteKnows
<1>3. siteBox \in [PhpSlugs -> PhpNames \cup {NoOne}] /\ siteHost \in [SiteReqs -> Domains \cup {NoOne}] /\ siteUnsure \subseteq PhpNames
  BY SiteTypes DEF SiteInv
<1>4. s \in PhpSlugs
  BY <1>2 DEF SiteSlug, PhpSlugs
<1>5. UNCHANGED <<phpSite, phpRow, phpReq>> /\ siteHost' = siteHost
  BY DEF StartFranken, phpVars
<1>6. siteUnsure' = siteUnsure \cup {m \in SameSlug(n) \ {n} : phpSite[m].there \/ m = siteBox[s]}
  BY DEF StartFranken
<1>7. siteUnsure \subseteq siteUnsure' /\ siteUnsure' \subseteq PhpNames /\ \A m \in SameSlug(n) \ (siteUnsure' \cup {n}) : ~phpSite[m].there
  BY <1>3, <1>6 DEF SameSlug
<1>8. CASE siteBox' = [siteBox EXCEPT ![s] = n] /\ SiteGo(r, "host")
  <2>1. PICK k \in SiteRequests : /\ siteReq' = [siteReq EXCEPT ![r] = k]
                                  /\ k.step = "host" /\ k.name = siteReq[r].name /\ k.kind = siteReq[r].kind
                                  /\ k.domain = siteReq[r].domain /\ k.host = siteReq[r].host
    BY <1>1, <1>8, SiteGoes DEF SiteSteps
  <2>2. SiteRequestWell(k)
    BY <2>1, <1>1, <1>2 DEF SiteRequestWell
  <2>3. n \notin siteUnsure' => SiteAtStep(k, r, n, phpSite[n], siteBox'[s], siteHost', RuntimeSure)
    BY <2>1, <1>1, <1>2, <1>3, <1>4, <1>5, <1>7, <1>8 DEF SiteAtStep
  <2>4. siteBox' \in [PhpSlugs -> PhpNames \cup {NoOne}] /\ \A t \in PhpSlugs \ {s} : siteBox'[t] = siteBox[t]
    BY <1>2, <1>3, <1>4, <1>8
  <2> QED BY <2>1, <2>2, <2>3, <2>4, <1>1, <1>3, <1>5, <1>7, SiteWorks
<1>9. CASE siteBox' = [siteBox EXCEPT ![s] = NoOne] /\ SiteGo(r, "done")
  <2>2. n \notin siteUnsure' => SiteAtRest(n, phpSite[n], siteBox'[s], siteHost', RuntimeSure)
    BY <1>1, <1>2, <1>7 DEF SiteAtStep, SiteAtRest
  <2>3. siteBox' \in [PhpSlugs -> PhpNames \cup {NoOne}] /\ \A t \in PhpSlugs \ {s} : siteBox'[t] = siteBox[t]
    BY <1>3, <1>4, <1>9
  <2> QED BY <2>2, <2>3, <1>1, <1>3, <1>5, <1>7, <1>9, SiteEnds
<1> QED BY <1>8, <1>9 DEF StartFranken

LEMMA CreateSiteHostKeeps == ASSUME SiteInv, NEW r \in SiteReqs, CreateSiteHost(r) PROVE SiteInv'
<1> PICK n, s : n = siteReq[r].name /\ s = SiteSlug(r)
  OBVIOUS
<1>1. siteReq[r].step = "host" /\ siteReq[r].step # "done"
  BY DEF CreateSiteHost, SiteAt
<1>2. /\ siteReq[r] \in SiteRequests /\ n \in PhpNames /\ SiteRequestWell(siteReq[r])
      /\ n \notin siteUnsure => SiteAtStep(siteReq[r], r, n, phpSite[n], siteBox[s], siteHost, RuntimeSure)
      /\ \A m \in SameSlug(n) \ (siteUnsure \cup {n}) : phpSite[m].there /\ phpSite[m].kind = "franken" => ~HasBox(siteReq[r])
  BY <1>1, SiteKnows
<1>3. siteBox \in [PhpSlugs -> PhpNames \cup {NoOne}] /\ siteHost \in [SiteReqs -> Domains \cup {NoOne}] /\ siteUnsure \subseteq PhpNames
  BY SiteTypes DEF SiteInv
<1>4. s \in PhpSlugs
  BY <1>2 DEF SiteSlug, PhpSlugs
<1>5. UNCHANGED <<phpSite, phpRow, phpReq>> /\ siteUnsure' = siteUnsure
  BY DEF CreateSiteHost, phpVars
<1>6. siteReq[r].domain \in Domains \cup {NoOne} /\ siteReq[r].domain # NoOne
  BY <1>1, <1>2 DEF SiteRequests, SiteRequestWell
<1>7. HasBox(siteReq[r]) <=> siteReq[r].kind = "franken"
  BY <1>1 DEF HasBox
<1>8. CASE /\ CreateHost(r, siteReq[r].domain, TRUE)
           /\ siteReq' = [siteReq EXCEPT ![r].step = "row", ![r].host = r]
           /\ UNCHANGED siteBox
  <2>1. PICK k : k = [siteReq[r] EXCEPT !.step = "row", !.host = r]
    OBVIOUS
  <2>2. k \in SiteRequests /\ k.step = "row" /\ k.host = r /\ k.name = n /\ k.kind = siteReq[r].kind /\ k.domain = siteReq[r].domain
    BY <2>1, <1>2 DEF SiteRequests, SiteSteps
  <2>3. siteReq' = [siteReq EXCEPT ![r] = k]
    BY <2>1, <1>8
  <2>4. siteHost' = [siteHost EXCEPT ![r] = siteReq[r].domain] /\ siteBox' = siteBox
    BY <1>8 DEF CreateHost
  <2>5. SiteRequestWell(k)
    BY <2>2, <1>2, <1>6, SiteNames DEF SiteRequestWell
  <2>6. n \notin siteUnsure' => SiteAtStep(k, r, n, phpSite[n], siteBox'[s], siteHost', RuntimeSure)
    BY <2>2, <2>4, <1>1, <1>2, <1>3, <1>5 DEF SiteAtStep, HasBox
  <2>7. HasBox(k) <=> HasBox(siteReq[r])
    BY <2>2, <1>1 DEF HasBox
  <2>8. siteHost' \in [SiteReqs -> Domains \cup {NoOne}] /\ \A h \in SiteReqs : siteHost'[h] # siteHost[h] => h = r
    BY <2>4, <1>3, <1>6
  <2>9. k = SiteRest \/ (k.step \notin {"done", "box"} /\ k.name = siteReq[r].name /\ (k.step = "host" => siteReq[r].step = "box"))
    BY <2>2
  <2> QED BY <2>2, <2>3, <2>4, <2>5, <2>6, <2>7, <2>8, <2>9, <1>1, <1>2, <1>3, <1>5, SiteWorks
<1>9. CASE /\ CreateHost(r, siteReq[r].domain, FALSE) /\ SiteGo(r, "done")
           /\ siteBox' = IF siteReq[r].kind = "fpm" THEN siteBox ELSE [siteBox EXCEPT ![s] = NoOne]
  <2>1. siteHost' \in [SiteReqs -> Domains \cup {NoOne}] /\ \A h \in SiteReqs : siteHost'[h] # siteHost[h] => h = r
    BY <1>3, <1>6, <1>9 DEF CreateHost
  <2>2. siteBox' \in [PhpSlugs -> PhpNames \cup {NoOne}] /\ \A t \in PhpSlugs \ {s} : siteBox'[t] = siteBox[t]
    BY <1>3, <1>4, <1>9
  <2>3. n \notin siteUnsure' => SiteAtRest(n, phpSite[n], siteBox'[s], siteHost', RuntimeSure)
    BY <1>1, <1>2, <1>5 DEF SiteAtStep, SiteAtRest
  <2>4. ~HasBox(siteReq[r]) => siteBox' = siteBox
    BY <1>2, <1>7, <1>9 DEF SiteRequests
  <2> QED BY <2>1, <2>2, <2>3, <2>4, <1>1, <1>2, <1>3, <1>5, <1>9, SiteEnds
<1> QED BY <1>8, <1>9 DEF CreateSiteHost

LEMMA UndoSiteKeeps == ASSUME SiteInv, NEW r \in SiteReqs, UndoSite(r) PROVE SiteInv'
<1> PICK n, s : n = siteReq[r].name /\ s = SiteSlug(r)
  OBVIOUS
<1>1. siteReq[r].step = "unhost" /\ siteReq[r].step # "done" /\ SiteGo(r, "done")
  BY DEF UndoSite, SiteAt
<1>2. /\ siteReq[r] \in SiteRequests /\ n \in PhpNames
      /\ n \notin siteUnsure => SiteAtStep(siteReq[r], r, n, phpSite[n], siteBox[s], siteHost, RuntimeSure)
      /\ \A m \in SameSlug(n) \ (siteUnsure \cup {n}) : phpSite[m].there /\ phpSite[m].kind = "franken" => ~HasBox(siteReq[r])
  BY <1>1, SiteKnows
<1>3. siteBox \in [PhpSlugs -> PhpNames \cup {NoOne}] /\ siteHost \in [SiteReqs -> Domains \cup {NoOne}] /\ siteUnsure \subseteq PhpNames
  BY SiteTypes DEF SiteInv
<1>4. s \in PhpSlugs
  BY <1>2 DEF SiteSlug, PhpSlugs
<1>5. UNCHANGED <<phpSite, phpRow, phpReq>> /\ siteUnsure' = siteUnsure
  BY DEF UndoSite, phpVars
<1>6. siteBox' = IF siteReq[r].kind = "fpm" THEN siteBox ELSE [siteBox EXCEPT ![s] = NoOne]
  BY DEF UndoSite
<1>7. siteBox' \in [PhpSlugs -> PhpNames \cup {NoOne}] /\ \A t \in PhpSlugs \ {s} : siteBox'[t] = siteBox[t]
  BY <1>3, <1>4, <1>6
<1>8. siteHost' \in [SiteReqs -> Domains \cup {NoOne}] /\ \A h \in SiteReqs : siteHost'[h] # siteHost[h] => h = siteReq[r].host
  BY <1>3 DEF UndoSite, DeleteHost
<1>9. n \in siteUnsure
  BY <1>1, <1>2 DEF SiteAtStep
<1>10. ~HasBox(siteReq[r]) => siteBox' = siteBox
  BY <1>1, <1>2, <1>6 DEF HasBox, SiteRequests
<1> QED BY <1>1, <1>2, <1>3, <1>5, <1>7, <1>8, <1>9, <1>10, SiteEnds

LEMMA UnserveSiteKeeps == ASSUME SiteInv, NEW r \in SiteReqs, UnserveSite(r) PROVE SiteInv'
<1> PICK n, s : n = siteReq[r].name /\ s = SiteSlug(r)
  OBVIOUS
<1>1. siteReq[r].step = "unserve" /\ siteReq[r].step # "done" /\ SiteGo(r, "forget")
  BY DEF UnserveSite, SiteAt
<1>2. /\ siteReq[r] \in SiteRequests /\ n \in PhpNames /\ SiteRequestWell(siteReq[r])
      /\ n \notin siteUnsure => SiteAtStep(siteReq[r], r, n, phpSite[n], siteBox[s], siteHost, RuntimeSure)
  BY <1>1, SiteKnows
<1>3. siteBox \in [PhpSlugs -> PhpNames \cup {NoOne}] /\ siteHost \in [SiteReqs -> Domains \cup {NoOne}] /\ siteUnsure \subseteq PhpNames
  BY SiteTypes DEF SiteInv
<1>4. UNCHANGED <<phpSite, phpRow, phpReq>> /\ siteUnsure' = siteUnsure /\ siteBox' = siteBox
  BY DEF UnserveSite, phpVars
<1>5. PICK k \in SiteRequests : /\ siteReq' = [siteReq EXCEPT ![r] = k]
                                /\ k.step = "forget" /\ k.name = siteReq[r].name /\ k.kind = siteReq[r].kind
                                /\ k.domain = siteReq[r].domain /\ k.host = siteReq[r].host
  BY <1>1, SiteGoes DEF SiteSteps
<1>6. SiteRequestWell(k) /\ ~HasBox(k)
  BY <1>2, <1>5 DEF SiteRequestWell, HasBox
<1>7. siteHost' \in [SiteReqs -> Domains \cup {NoOne}] /\ \A h \in SiteReqs : siteHost'[h] # siteHost[h] => h = siteReq[r].host
  BY <1>3 DEF UnserveSite, DeleteHost
<1>8. n \notin siteUnsure' => SiteAtStep(k, r, n, phpSite[n], siteBox'[s], siteHost', RuntimeSure)
  BY <1>1, <1>2, <1>4, <1>5, <1>6 DEF SiteAtStep
<1>9. k = SiteRest \/ (k.step \notin {"done", "box"} /\ k.name = siteReq[r].name /\ (k.step = "host" => siteReq[r].step = "box"))
  BY <1>5
<1> QED BY <1>1, <1>3, <1>4, <1>5, <1>6, <1>7, <1>8, <1>9, SiteWorks

LEMMA SyncSiteKeeps == ASSUME SiteInv, NEW r \in SiteReqs, SyncSite(r) PROVE SiteInv'
<1> PICK n, s, h : n = siteReq[r].name /\ s = SiteSlug(r) /\ h = siteReq[r].host
  OBVIOUS
<1>1. siteReq[r].step = "sync" /\ siteReq[r].step # "done" /\ SiteGo(r, "done")
  BY DEF SyncSite, SiteAt
<1>2. /\ siteReq[r] \in SiteRequests /\ n \in PhpNames
      /\ phpSite[n] \in SiteRows
      /\ n \notin siteUnsure => SiteAtStep(siteReq[r], r, n, phpSite[n], siteBox[s], siteHost, RuntimeSure)
  BY <1>1, SiteKnows
<1>3. siteBox \in [PhpSlugs -> PhpNames \cup {NoOne}] /\ siteHost \in [SiteReqs -> Domains \cup {NoOne}] /\ siteUnsure \subseteq PhpNames
  BY SiteTypes DEF SiteInv
<1>4. UNCHANGED <<phpSite, phpRow, phpReq>> /\ siteBox' = siteBox
  BY DEF SyncSite, phpVars
<1>5. /\ siteHost' \in [SiteReqs -> Domains \cup {NoOne}] /\ \A g \in SiteReqs : siteHost'[g] # siteHost[g] => g = h
      /\ siteUnsure' \subseteq PhpNames /\ siteUnsure \subseteq siteUnsure'
      /\ n \notin siteUnsure' => h \in SiteReqs /\ siteHost'[h] = siteReq[r].domain
  <2>1. siteReq[r].domain \in Domains \cup {NoOne} /\ h \in SiteReqs \cup {NoOne}
    BY <1>2 DEF SiteRequests
  <2>2. CASE h # NoOne /\ siteHost' = [siteHost EXCEPT ![h] = siteReq[r].domain] /\ UNCHANGED siteUnsure
    BY <1>3, <2>1, <2>2
  <2>3. CASE UNCHANGED siteHost /\ siteUnsure' = siteUnsure \cup {n}
    BY <1>2, <1>3, <2>3
  <2> QED BY <2>2, <2>3 DEF SyncSite
<1>6. n \notin siteUnsure' => SiteAtRest(n, phpSite[n], siteBox'[s], siteHost', RuntimeSure)
  <2> SUFFICES ASSUME n \notin siteUnsure' PROVE SiteAtRest(n, phpSite[n], siteBox[s], siteHost', RuntimeSure)
    BY <1>4
  <2>1. SiteAtStep(siteReq[r], r, n, phpSite[n], siteBox[s], siteHost, RuntimeSure)
    BY <1>2, <1>5
  <2>2. phpSite[n].there /\ h = phpSite[n].host /\ siteReq[r].domain = phpSite[n].domain
    BY <2>1, <1>1 DEF SiteAtStep
  <2>3. siteHost'[phpSite[n].host] = phpSite[n].domain
    BY <2>2, <1>5
  <2>4. phpSite[n].kind \in {"fpm", "franken"} /\ (phpSite[n].kind = "fpm" => RuntimeSure) /\ (phpSite[n].kind = "franken" => siteBox[s] = n)
    BY <2>1, <2>2, <1>1, <1>2 DEF SiteAtStep, SiteRows
  <2> QED BY <2>3, <2>4 DEF SiteAtRest
<1> QED BY <1>1, <1>3, <1>4, <1>5, <1>6, SiteEnds

LEMMA ForgetSiteKeeps == ASSUME SiteInv, NEW r \in SiteReqs, ForgetSite(r) PROVE SiteInv'
<1>1. siteReq[r].step = "forget" /\ siteReq[r].step # "done"
  BY DEF ForgetSite, SiteAt
<1>2. siteReq[r].name \in PhpNames
  BY <1>1, SiteKnows
<1> PICK n \in PhpNames : n = siteReq[r].name
  BY <1>2
<1>3. \A m \in SameSlug(n) \ siteUnsure, q \in SiteReqs \ {r} : siteReq[q].name \notin SameSlug(n)
  BY <1>1, SiteKnows
<1>4. PICK k \in SiteRequests : siteReq' = [siteReq EXCEPT ![r] = k] /\ k = SiteRest
  BY SiteRests DEF ForgetSite, SiteGo
<1>5. k.step = "done" /\ k.host = NoOne /\ SiteRequestWell(k) /\ ~HasBox(k)
  BY <1>4, SiteRests
<1>6. phpSite' = [phpSite EXCEPT ![n] = NoPhpSite]
  BY DEF ForgetSite
<1>7. /\ phpSite \in [PhpNames -> SiteRows] /\ siteBox \in [PhpSlugs -> PhpNames \cup {NoOne}]
      /\ siteHost \in [SiteReqs -> Domains \cup {NoOne}] /\ siteUnsure \subseteq PhpNames
  BY SiteTypes DEF SiteInv
<1>8. NoPhpSite \in SiteRows /\ SiteRowWell(NoPhpSite) /\ ~NoPhpSite.there /\ NoPhpSite.host = NoOne
  BY DEF NoPhpSite, SiteRows, SiteRowWell, NoOne
<1>9. /\ phpSite' \in [PhpNames -> SiteRows] /\ SiteRowWell(phpSite'[n]) /\ ~phpSite'[n].there /\ phpSite'[n].host = NoOne
      /\ \A m \in PhpNames \ {n} : phpSite'[m] = phpSite[m]
  BY <1>6, <1>7, <1>8
<1>10. siteHost' = siteHost /\ siteBox' = siteBox /\ siteUnsure' = siteUnsure /\ RuntimeSure' = RuntimeSure
  BY DEF ForgetSite, RuntimeSure, RuntimeGoing
<1>11. SiteAtRest(n, phpSite'[n], siteBox'[PhpSlugOf[n]], siteHost', RuntimeSure)
  BY <1>9 DEF SiteAtRest
<1>12. \A h \in SiteReqs : phpSite'[n].host # h /\ k.host # h
  BY <1>5, <1>9, SiteNames
<1>13. siteReq[r].name \in {n, NoOne} /\ (k = SiteRest \/ (k.step # "done" /\ k.name = n))
  BY <1>4
<1>14. siteReq' = [siteReq EXCEPT ![r] = k]
  BY <1>4
<1>20. SiteMoves(r, n, k)
  BY <1>3, <1>5, <1>7, <1>9, <1>10, <1>11, <1>12, <1>13, <1>14 DEF SiteMoves
<1> QED BY <1>20, SiteMoved

LEMMA InsertSiteKeeps == ASSUME SiteInv, NEW r \in SiteReqs, InsertSite(r) PROVE SiteInv'
<1>1. siteReq[r].step = "row" /\ siteReq[r].step # "done"
  BY DEF InsertSite, SiteAt
<1>2. /\ siteReq[r] \in SiteRequests /\ siteReq[r].name \in PhpNames /\ SiteRequestWell(siteReq[r])
      /\ siteReq[r].name \notin siteUnsure =>
           SiteAtStep(siteReq[r], r, siteReq[r].name, phpSite[siteReq[r].name], siteBox[SiteSlug(r)], siteHost, RuntimeSure)
      /\ \A m \in SameSlug(siteReq[r].name) \ siteUnsure, q \in SiteReqs \ {r} : siteReq[q].name \notin SameSlug(siteReq[r].name)
      /\ \A m \in SameSlug(siteReq[r].name) \ (siteUnsure \cup {siteReq[r].name}) :
              phpSite[m].there /\ phpSite[m].kind = "franken" => ~HasBox(siteReq[r])
  BY <1>1, SiteKnows
<1> PICK n \in PhpNames : n = siteReq[r].name
  BY <1>2
<1>3. SiteSlug(r) = PhpSlugOf[n]
  BY DEF SiteSlug
<1>4. /\ phpSite \in [PhpNames -> SiteRows] /\ siteBox \in [PhpSlugs -> PhpNames \cup {NoOne}]
      /\ siteHost \in [SiteReqs -> Domains \cup {NoOne}] /\ siteUnsure \subseteq PhpNames
  BY SiteTypes DEF SiteInv
<1>5. /\ UNCHANGED <<phpRow, phpReq>>
      /\ siteHost' = siteHost /\ siteBox' = siteBox /\ siteUnsure' = siteUnsure
  BY DEF InsertSite
<1>6. RuntimeSure' = RuntimeSure
  BY <1>5 DEF RuntimeSure, RuntimeGoing
<1>7. siteReq[r].host # NoOne
  BY <1>1, <1>2 DEF SiteRequestWell
<1>8. CASE phpSite[n].there /\ SiteGo(r, "unhost") /\ UNCHANGED phpSite
  <2>1. PICK k \in SiteRequests : /\ siteReq' = [siteReq EXCEPT ![r] = k]
                                  /\ k.step = "unhost" /\ k.name = siteReq[r].name /\ k.kind = siteReq[r].kind
                                  /\ k.domain = siteReq[r].domain /\ k.host = siteReq[r].host
    BY <1>1, <1>8, SiteGoes DEF SiteSteps
  <2>2. SiteRequestWell(k) /\ (HasBox(k) <=> HasBox(siteReq[r]))
    BY <1>1, <1>2, <2>1 DEF SiteRequestWell, HasBox
  <2>3. n \in siteUnsure
    BY <1>1, <1>2, <1>8 DEF SiteAtStep
  <2>4. k = SiteRest \/ (k.step \notin {"done", "box"} /\ k.name = siteReq[r].name /\ (k.step = "host" => siteReq[r].step = "box"))
    BY <2>1
  <2> QED BY <2>1, <2>2, <2>3, <2>4, <1>1, <1>2, <1>4, <1>5, <1>8, SiteWorks
<1>9. CASE /\ ~phpSite[n].there /\ SiteGo(r, "done")
           /\ phpSite' = [phpSite EXCEPT ![n] =
                [there |-> TRUE, kind |-> siteReq[r].kind, domain |-> siteReq[r].domain, host |-> siteReq[r].host]]
  <2>1. PICK k \in SiteRequests : siteReq' = [siteReq EXCEPT ![r] = k] /\ k = SiteRest
    BY <1>9, SiteRests DEF SiteGo
  <2>2. k.step = "done" /\ k.host = NoOne /\ SiteRequestWell(k) /\ ~HasBox(k)
    BY <2>1, SiteRests
  <2>3. PICK site : site = [there |-> TRUE, kind |-> siteReq[r].kind, domain |-> siteReq[r].domain, host |-> siteReq[r].host]
    OBVIOUS
  <2>4. /\ site \in SiteRows /\ site.there /\ site.kind = siteReq[r].kind /\ site.domain = siteReq[r].domain /\ site.host = siteReq[r].host
        /\ SiteRowWell(site)
    BY <2>3, <1>2, <1>7 DEF SiteRows, SiteRequests, SiteRowWell
  <2>5. phpSite' \in [PhpNames -> SiteRows] /\ phpSite'[n] = site /\ \A m \in PhpNames \ {n} : phpSite'[m] = phpSite[m]
    BY <2>3, <2>4, <1>4, <1>9
  <2>6. n \notin siteUnsure' => SiteAtRest(n, phpSite'[n], siteBox'[PhpSlugOf[n]], siteHost', RuntimeSure)
    <3> SUFFICES ASSUME n \notin siteUnsure PROVE SiteAtRest(n, site, siteBox[PhpSlugOf[n]], siteHost, RuntimeSure)
      BY <2>5, <1>5
    <3>1. SiteAtStep(siteReq[r], r, n, phpSite[n], siteBox[PhpSlugOf[n]], siteHost, RuntimeSure)
      BY <1>2, <1>3
    <3>2. siteHost[site.host] = site.domain
      BY <3>1, <2>4, <1>1 DEF SiteAtStep
    <3>3. (site.kind = "fpm" => RuntimeSure) /\ (site.kind = "franken" => siteBox[PhpSlugOf[n]] = n) /\ site.kind \in {"fpm", "franken"}
      BY <3>1, <2>4, <1>1, <1>2 DEF SiteAtStep, HasBox, SiteRequests
    <3> QED BY <3>2, <3>3 DEF SiteAtRest
  <2>7. \A h \in SiteReqs : phpSite'[n].host = h \/ k.host = h => SiteRefers(n, h)
    BY <2>2, <2>4, <2>5, SiteNames DEF SiteRefers
  <2>8. siteReq[r].name \in {n, NoOne} /\ (k = SiteRest \/ (k.step # "done" /\ k.name = n)) /\ SiteRowWell(phpSite'[n])
    BY <2>1, <2>4, <2>5
  <2>9. siteReq' = [siteReq EXCEPT ![r] = k] /\ k \in SiteRequests
    BY <2>1
  <2>10. \A m \in SameSlug(n) \ siteUnsure', q \in SiteReqs \ {r} : siteReq[q].name \notin SameSlug(n)
    BY <1>2, <1>5
  <2>11. /\ \A m \in PhpNames : PhpSlugOf[m] # PhpSlugOf[n] => siteBox'[PhpSlugOf[m]] = siteBox[PhpSlugOf[m]]
         /\ \A h \in SiteReqs : siteHost'[h] # siteHost[h] => SiteRefers(n, h) \/ (h = r /\ siteReq[r].step = "host")
         /\ \A h \in SiteReqs : phpSite'[n].host = h \/ k.host = h => SiteRefers(n, h) \/ (h = r /\ siteReq[r].step = "host")
         /\ k.step \in {"box", "host"} => k.host # r /\ phpSite'[n].host # r /\ \A m \in PhpNames : ~SiteRefers(m, r)
         /\ siteUnsure \subseteq siteUnsure' /\ siteUnsure' \subseteq PhpNames
         /\ siteHost' \in [SiteReqs -> Domains \cup {NoOne}] /\ siteBox' \in [PhpSlugs -> PhpNames \cup {NoOne}]
    BY <2>2, <2>7, <1>4, <1>5
  <2>12. n \notin siteUnsure' =>
           IF k.step = "done" THEN SiteAtRest(n, phpSite'[n], siteBox'[PhpSlugOf[n]], siteHost', RuntimeSure)
           ELSE SiteAtStep(k, r, n, phpSite'[n], siteBox'[PhpSlugOf[n]], siteHost', RuntimeSure)
    BY <2>2, <2>6
  <2>13. \A m \in SameSlug(n) \ (siteUnsure' \cup {n}) : phpSite[m].there /\ phpSite[m].kind = "franken" =>
           siteBox'[PhpSlugOf[n]] = siteBox[PhpSlugOf[n]] /\ ~HasBox(k)
    BY <2>2, <1>5
  <2>14. SiteRequestWell(k) /\ phpSite' \in [PhpNames -> SiteRows] /\ \A m \in PhpNames \ {n} : phpSite'[m] = phpSite[m]
    BY <2>2, <2>5
  <2>20. SiteMoves(r, n, k)
    BY <2>8, <2>9, <2>10, <2>11, <2>12, <2>13, <2>14, <1>6 DEF SiteMoves
  <2> QED BY <2>20, <2>9, SiteMoved
<1> QED BY <1>8, <1>9 DEF InsertSite

\* A request begins: where the site stays certain, nobody is at work at a name of its slug.
LEMMA SiteBegins ==
  ASSUME SiteInv, NEW r \in SiteReqs, NEW n \in PhpNames, NEW kind \in {"fpm", "franken"}, NEW domain \in Domains \cup {NoOne},
         NEW host \in SiteReqs \cup {NoOne}, NEW doubt \in SUBSET PhpNames, NEW step \in {"box", "host", "unserve", "sync"},
         SiteBeginIn(r, step, n, kind, domain, host, doubt),
         phpRow' = phpRow, phpReq' = phpReq, siteHost' = siteHost,
         phpSite' \in [PhpNames -> SiteRows], \A m \in PhpNames \ {n} : phpSite'[m] = phpSite[m],
         SiteRowWell(phpSite'[n]), phpSite'[n].host = phpSite[n].host,
         siteBox' \in [PhpSlugs -> PhpNames \cup {NoOne}], \A s \in PhpSlugs \ {PhpSlugOf[n]} : siteBox'[s] = siteBox[s],
         host \in {NoOne, phpSite[n].host},
         step \in {"box", "host"} => UnusedHost(r) /\ domain # NoOne /\ host = NoOne,
         \A k \in SiteRequests :
           /\ k.step = step /\ k.kind = kind /\ k.domain = domain /\ k.host = host
           /\ n \notin siteUnsure' /\ (kind = "fpm" => ~RuntimeGoing)
           /\ SiteAtRest(n, phpSite[n], siteBox[PhpSlugOf[n]], siteHost, RuntimeSure)
           => SiteAtStep(k, r, n, phpSite'[n], siteBox'[PhpSlugOf[n]], siteHost, RuntimeSure),
         \A m \in SameSlug(n) \ (siteUnsure' \cup {n}) :
           phpSite[m].there /\ phpSite[m].kind = "franken" /\ siteBox[PhpSlugOf[n]] = m
           => siteBox'[PhpSlugOf[n]] = m /\ ~(kind = "franken" /\ step = "host")
  PROVE  SiteInv'
<1>1. PICK k : k = [step |-> step, name |-> n, kind |-> kind, domain |-> domain, host |-> host]
  OBVIOUS
<1>2. k \in SiteRequests /\ k.step = step /\ k.name = n /\ k.kind = kind /\ k.domain = domain /\ k.host = host
  BY <1>1 DEF SiteRequests, SiteSteps
<1>3. siteReq' = [siteReq EXCEPT ![r] = k]
  BY <1>1 DEF SiteBeginIn
<1>4. siteReq[r] = SiteRest /\ siteReq[r].name = NoOne /\ siteReq[r].step = "done" /\ siteReq[r].host = NoOne
  <2>1. siteReq[r].step = "done" /\ SiteRequestWell(siteReq[r])
    BY DEF SiteBeginIn, SiteAt, SiteInv
  <2> QED BY <2>1 DEF SiteRequestWell, SiteRest
<1>5. SiteRequestWell(k)
  BY <1>2 DEF SiteRequestWell
<1>6. siteUnsure \subseteq PhpNames /\ siteBox \in [PhpSlugs -> PhpNames \cup {NoOne}] /\ siteHost \in [SiteReqs -> Domains \cup {NoOne}]
  BY SiteTypes DEF SiteInv
<1>7. siteUnsure \subseteq siteUnsure' /\ siteUnsure' \subseteq PhpNames
  BY <1>6 DEF SiteBeginIn, SameSlug
<1>8. \A m \in SameSlug(n) \ siteUnsure', q \in SiteReqs : siteReq[q].name \notin SameSlug(n)
  <2>1. SameSlug(n) \cap SitesAtWork # {} => SameSlug(n) \subseteq siteUnsure'
    BY DEF SiteBeginIn
  <2>2. NoOne \notin SameSlug(n)
    BY SiteNames DEF SameSlug
  <2>3. \A q \in SiteReqs : siteReq[q].name \in SameSlug(n) => siteReq[q].name \in SameSlug(n) \cap SitesAtWork
    BY <2>2 DEF SitesAtWork
  <2> QED BY <2>1, <2>3
<1>9. \A m \in SameSlug(n) \ siteUnsure' : SiteAtRest(m, phpSite[m], siteBox[PhpSlugOf[n]], siteHost, RuntimeSure)
  <2> SUFFICES ASSUME NEW m \in SameSlug(n) \ siteUnsure' PROVE SiteAtRest(m, phpSite[m], siteBox[PhpSlugOf[n]], siteHost, RuntimeSure)
    OBVIOUS
  <2>1. m \in PhpNames \ siteUnsure /\ PhpSlugOf[m] = PhpSlugOf[n]
    BY <1>7 DEF SameSlug
  <2>2. SiteSound(m) /\ \A q \in SiteReqs : siteReq[q].name # m
    BY <2>1, <1>8 DEF SiteInv
  <2> QED BY <2>1, <2>2 DEF SiteSound
<1>10. n \in SameSlug(n) /\ \A m \in PhpNames : PhpSlugOf[m] \in PhpSlugs
  BY DEF SameSlug, PhpSlugs
<1>11. n \notin siteUnsure' =>
         IF k.step = "done" THEN SiteAtRest(n, phpSite'[n], siteBox'[PhpSlugOf[n]], siteHost', RuntimeSure)
         ELSE SiteAtStep(k, r, n, phpSite'[n], siteBox'[PhpSlugOf[n]], siteHost', RuntimeSure)
  <2> SUFFICES ASSUME n \notin siteUnsure' PROVE SiteAtStep(k, r, n, phpSite'[n], siteBox'[PhpSlugOf[n]], siteHost, RuntimeSure)
    BY <1>2
  <2>1. kind = "fpm" => ~RuntimeGoing
    BY DEF SiteBeginIn
  <2> QED BY <2>1, <1>2, <1>9, <1>10
<1>12. \A m \in SameSlug(n) \ (siteUnsure' \cup {n}) : phpSite[m].there /\ phpSite[m].kind = "franken" =>
         siteBox'[PhpSlugOf[n]] = siteBox[PhpSlugOf[n]] /\ ~HasBox(k)
  <2> SUFFICES ASSUME NEW m \in SameSlug(n) \ (siteUnsure' \cup {n}), phpSite[m].there, phpSite[m].kind = "franken"
               PROVE  siteBox'[PhpSlugOf[n]] = siteBox[PhpSlugOf[n]] /\ ~HasBox(k)
    OBVIOUS
  <2>1. siteBox[PhpSlugOf[n]] = m
    BY <1>9 DEF SiteAtRest
  <2> QED BY <2>1, <1>2 DEF HasBox
<1>13. \A h \in SiteReqs : phpSite'[n].host = h \/ k.host = h => SiteRefers(n, h) \/ (h = r /\ siteReq[r].step = "host")
  BY <1>2, SiteNames DEF SiteRefers
<1>14. k.step \in {"box", "host"} => k.host # r /\ phpSite'[n].host # r /\ \A m \in PhpNames : ~SiteRefers(m, r)
  BY <1>2, SiteNames DEF UnusedHost, SiteRefers
<1>15. RuntimeSure' = RuntimeSure
  BY DEF RuntimeSure, RuntimeGoing
<1>16. /\ \A m \in PhpNames : PhpSlugOf[m] # PhpSlugOf[n] => siteBox'[PhpSlugOf[m]] = siteBox[PhpSlugOf[m]]
       /\ \A h \in SiteReqs : siteHost'[h] # siteHost[h] => SiteRefers(n, h) \/ (h = r /\ siteReq[r].step = "host")
       /\ siteHost' \in [SiteReqs -> Domains \cup {NoOne}]
  BY <1>6, <1>10
<1>17. siteReq[r].name \in {n, NoOne} /\ (k = SiteRest \/ (k.step # "done" /\ k.name = n))
  BY <1>2, <1>4
<1>18. \A m \in SameSlug(n) \ siteUnsure', q \in SiteReqs \ {r} : siteReq[q].name \notin SameSlug(n)
  BY <1>8
<1>19. k \in SiteRequests
  BY <1>2
<1>20. SiteMoves(r, n, k)
  BY <1>3, <1>5, <1>7, <1>11, <1>12, <1>13, <1>14, <1>15, <1>16, <1>17, <1>18, <1>19 DEF SiteMoves
<1> QED BY <1>20, <1>19, SiteMoved

LEMMA CreateSiteKeeps == ASSUME SiteInv, NEW r \in SiteReqs, CreateSite(r) PROVE SiteInv'
<1>1. UnusedHost(r) /\ UNCHANGED <<phpSite, phpRow, phpReq>> /\ siteHost' = siteHost /\ siteBox' = siteBox
  BY DEF CreateSite, phpVars
<1> PICK n \in PhpNames, d \in Domains :
       /\ ~phpSite[n].there
       /\ \/ phpRow.there /\ phpCont = "up" /\ SiteBegin(r, "host", n, "fpm", d, NoOne)
          \/ SiteBegin(r, "box", n, "franken", d, NoOne)
  BY DEF CreateSite
<1>2. /\ phpSite \in [PhpNames -> SiteRows] /\ siteBox \in [PhpSlugs -> PhpNames \cup {NoOne}]
      /\ \A m \in PhpNames : SiteRowWell(phpSite[m])
  BY SiteTypes DEF SiteInv
<1>3. d # NoOne /\ d \in Domains \cup {NoOne} /\ {} \in SUBSET PhpNames
  BY SiteNames
<1>4. CASE phpRow.there /\ SiteBegin(r, "host", n, "fpm", d, NoOne)
  <2>1. SiteBeginIn(r, "host", n, "fpm", d, NoOne, {})
    BY <1>4 DEF SiteBegin
  <2>2. \A k \in SiteRequests :
          k.step = "host" /\ k.kind = "fpm" /\ k.domain = d /\ k.host = NoOne /\ ~RuntimeGoing
          => SiteAtStep(k, r, n, phpSite[n], siteBox[PhpSlugOf[n]], siteHost, RuntimeSure)
    BY <1>4 DEF SiteAtStep, HasBox, RuntimeSure
  <2> QED BY <2>1, <2>2, <1>1, <1>2, <1>3, SiteBegins
<1>5. CASE SiteBegin(r, "box", n, "franken", d, NoOne)
  <2>1. SiteBeginIn(r, "box", n, "franken", d, NoOne, {})
    BY <1>5 DEF SiteBegin
  <2>2. \A k \in SiteRequests :
          k.step = "box" /\ k.kind = "franken" /\ k.domain = d /\ k.host = NoOne
          => SiteAtStep(k, r, n, phpSite[n], siteBox[PhpSlugOf[n]], siteHost, RuntimeSure)
    BY DEF SiteAtStep, HasBox
  <2> QED BY <2>1, <2>2, <1>1, <1>2, <1>3, SiteBegins
<1> QED BY <1>4, <1>5

LEMMA DeleteSiteKeeps == ASSUME SiteInv, NEW r \in SiteReqs, DeleteSite(r) PROVE SiteInv'
<1>1. UNCHANGED <<phpSite, phpRow, phpReq>> /\ siteHost' = siteHost
  BY DEF DeleteSite, phpVars
<1> PICK n \in PhpNames :
       /\ phpSite[n].there
       /\ \/ /\ phpSite[n].kind = "fpm" /\ UNCHANGED siteBox
             /\ SiteBegin(r, "unserve", n, phpSite[n].kind, phpSite[n].domain, phpSite[n].host)
          \/ /\ phpSite[n].kind = "franken" /\ siteBox' = [siteBox EXCEPT ![PhpSlugOf[n]] = NoOne]
             /\ SiteBeginIn(r, "unserve", n, phpSite[n].kind, phpSite[n].domain, phpSite[n].host, {siteBox[PhpSlugOf[n]]} \ {n, NoOne})
  BY DEF DeleteSite
<1>2. /\ phpSite \in [PhpNames -> SiteRows] /\ siteBox \in [PhpSlugs -> PhpNames \cup {NoOne}] /\ siteBox[PhpSlugOf[n]] \in PhpNames \cup {NoOne}
      /\ \A m \in PhpNames : SiteRowWell(phpSite[m])
  BY SiteTypes DEF SiteInv, PhpSlugs
<1>3. /\ phpSite[n].kind \in {"fpm", "franken"} /\ phpSite[n].domain \in Domains \cup {NoOne} /\ phpSite[n].host \in SiteReqs \cup {NoOne}
  BY <1>2 DEF SiteRows
<1>4. \A k \in SiteRequests :
        /\ k.step = "unserve" /\ k.kind = phpSite[n].kind /\ k.domain = phpSite[n].domain /\ k.host = phpSite[n].host
        /\ SiteAtRest(n, phpSite[n], siteBox[PhpSlugOf[n]], siteHost, RuntimeSure)
        => SiteAtStep(k, r, n, phpSite[n], siteBox'[PhpSlugOf[n]], siteHost, RuntimeSure)
  BY DEF SiteAtStep, SiteAtRest, HasBox
<1>5. CASE siteBox' = siteBox /\ SiteBeginIn(r, "unserve", n, phpSite[n].kind, phpSite[n].domain, phpSite[n].host, {})
  <2>1. {} \in SUBSET PhpNames
    OBVIOUS
  <2>2. /\ siteBox' \in [PhpSlugs -> PhpNames \cup {NoOne}] /\ \A s \in PhpSlugs \ {PhpSlugOf[n]} : siteBox'[s] = siteBox[s]
        /\ \A m \in SameSlug(n) \ (siteUnsure' \cup {n}) : siteBox[PhpSlugOf[n]] = m => siteBox'[PhpSlugOf[n]] = m
    BY <1>2, <1>5
  <2> QED BY <2>1, <2>2, <1>1, <1>2, <1>3, <1>4, <1>5, SiteBegins, SMTT(30)
<1>6. CASE /\ siteBox' = [siteBox EXCEPT ![PhpSlugOf[n]] = NoOne]
           /\ SiteBeginIn(r, "unserve", n, phpSite[n].kind, phpSite[n].domain, phpSite[n].host, {siteBox[PhpSlugOf[n]]} \ {n, NoOne})
  <2>1. PICK doubt : doubt = {siteBox[PhpSlugOf[n]]} \ {n, NoOne}
    OBVIOUS
  <2>2. doubt \in SUBSET PhpNames /\ SiteBeginIn(r, "unserve", n, phpSite[n].kind, phpSite[n].domain, phpSite[n].host, doubt)
    BY <2>1, <1>2, <1>6
  <2>3. doubt \subseteq siteUnsure'
    BY <2>2 DEF SiteBeginIn
  <2>4. \A m \in SameSlug(n) \ (siteUnsure' \cup {n}) : siteBox[PhpSlugOf[n]] # m
    BY <2>1, <2>3, SiteNames DEF SameSlug
  <2>5. siteBox' \in [PhpSlugs -> PhpNames \cup {NoOne}] /\ \A s \in PhpSlugs \ {PhpSlugOf[n]} : siteBox'[s] = siteBox[s]
    BY <1>2, <1>6
  <2>6. \A m \in SameSlug(n) \ (siteUnsure' \cup {n}) :
          phpSite[m].there /\ phpSite[m].kind = "franken" /\ siteBox[PhpSlugOf[n]] = m => siteBox'[PhpSlugOf[n]] = m
    BY <2>4
  <2>7. PICK kind, domain, host : kind = phpSite[n].kind /\ domain = phpSite[n].domain /\ host = phpSite[n].host
    OBVIOUS
  <2>8. SiteBeginIn(r, "unserve", n, kind, domain, host, doubt)
    BY <2>2, <2>7
  <2>9. kind \in {"fpm", "franken"} /\ domain \in Domains \cup {NoOne} /\ host \in SiteReqs \cup {NoOne} /\ host = phpSite[n].host
    BY <2>7, <1>3
  <2>10. \A k \in SiteRequests :
          /\ k.step = "unserve" /\ k.kind = kind /\ k.domain = domain /\ k.host = host
          /\ SiteAtRest(n, phpSite[n], siteBox[PhpSlugOf[n]], siteHost, RuntimeSure)
          => SiteAtStep(k, r, n, phpSite'[n], siteBox'[PhpSlugOf[n]], siteHost, RuntimeSure)
    BY <2>7, <1>1, <1>4
  <2>11. /\ phpSite' \in [PhpNames -> SiteRows] /\ SiteRowWell(phpSite'[n]) /\ phpSite'[n].host = phpSite[n].host
         /\ \A m \in PhpNames \ {n} : phpSite'[m] = phpSite[m]
    BY <1>1, <1>2
  <2>12. phpRow' = phpRow /\ phpReq' = phpReq /\ siteHost' = siteHost /\ doubt \in SUBSET PhpNames
    BY <1>1, <2>2
  <2> QED BY <2>5, <2>6, <2>8, <2>9, <2>10, <2>11, <2>12, SiteBegins
<1> QED BY <1>5, <1>6 DEF SiteBegin

LEMMA UpdateSiteKeeps == ASSUME SiteInv, NEW r \in SiteReqs, UpdateSite(r) PROVE SiteInv'
<1>1. UNCHANGED <<phpRow, phpReq>> /\ siteHost' = siteHost /\ siteBox' = siteBox
  BY DEF UpdateSite
<1> PICK n \in PhpNames, d \in Domains :
       /\ phpSite[n].there
       /\ phpSite' = [phpSite EXCEPT ![n].domain = d]
       /\ SiteBegin(r, "sync", n, phpSite[n].kind, d, phpSite[n].host)
  BY DEF UpdateSite
<1>2. /\ phpSite \in [PhpNames -> SiteRows] /\ siteBox \in [PhpSlugs -> PhpNames \cup {NoOne}]
      /\ SiteRowWell(phpSite[n]) /\ phpSite[n] \in SiteRows
  BY SiteTypes DEF SiteInv
<1>3. PICK site : site = [phpSite[n] EXCEPT !.domain = d]
  OBVIOUS
<1>4. site \in SiteRows /\ site.there /\ site.domain = d /\ site.kind = phpSite[n].kind /\ site.host = phpSite[n].host /\ SiteRowWell(site)
  BY <1>2, <1>3 DEF SiteRows, SiteRowWell
<1>5. phpSite' \in [PhpNames -> SiteRows] /\ phpSite'[n] = site /\ \A m \in PhpNames \ {n} : phpSite'[m] = phpSite[m]
  BY <1>2, <1>3, <1>4
<1>6. /\ phpSite[n].kind \in {"fpm", "franken"} /\ d \in Domains \cup {NoOne} /\ phpSite[n].host \in SiteReqs \cup {NoOne}
      /\ {} \in SUBSET PhpNames /\ SiteBeginIn(r, "sync", n, phpSite[n].kind, d, phpSite[n].host, {})
  BY <1>2 DEF SiteRows, SiteBegin
<1>7. \A k \in SiteRequests :
        /\ k.step = "sync" /\ k.kind = phpSite[n].kind /\ k.domain = d /\ k.host = phpSite[n].host
        /\ SiteAtRest(n, phpSite[n], siteBox[PhpSlugOf[n]], siteHost, RuntimeSure)
        => SiteAtStep(k, r, n, phpSite'[n], siteBox'[PhpSlugOf[n]], siteHost, RuntimeSure)
  BY <1>1, <1>4, <1>5 DEF SiteAtStep, SiteAtRest, HasBox
<1>8. SiteRowWell(phpSite'[n]) /\ phpSite'[n].host = phpSite[n].host
  BY <1>4, <1>5
<1> QED BY <1>1, <1>2, <1>5, <1>6, <1>7, <1>8, SiteBegins

LEMMA SiteDeathKeeps == SiteInv /\ SitePanelDies => SiteInv'
<1> SUFFICES ASSUME SiteInv, SitePanelDies PROVE SiteInv'
  OBVIOUS
<1>1. /\ phpSite' = phpSite /\ siteHost' = siteHost /\ siteBox' = siteBox /\ RuntimeSure' = RuntimeSure
      /\ siteReq' = [r \in SiteReqs |-> SiteRest]
      /\ siteUnsure' = siteUnsure \cup UNION {SameSlug(n) : n \in SitesAtWork}
  BY DEF SitePanelDies, phpVars, RuntimeSure, RuntimeGoing
<1>2. \A r \in SiteReqs : siteReq'[r] = SiteRest
  BY <1>1
<1>3. SiteTypeOK'
  <2>1. siteReq' \in [SiteReqs -> SiteRequests]
    BY <1>1, SiteRests
  <2>2. siteUnsure' \subseteq PhpNames
    BY <1>1, SiteTypes DEF SiteInv, SameSlug
  <2> QED BY <1>1, <2>1, <2>2, SiteTypes DEF SiteInv, SiteTypeOK, SiteRequests
<1>4. \A r \in SiteReqs : SiteRequestWell(siteReq'[r]) /\ siteReq'[r].step = "done" /\ siteReq'[r].name = NoOne /\ siteReq'[r].host = NoOne
  BY <1>2, SiteRests DEF SiteRest
<1>5. \A n \in PhpNames, h \in SiteReqs : SiteRefers(n, h)' => SiteRefers(n, h)
  BY <1>1, <1>4, SiteNames DEF SiteRefers
<1>6. ASSUME NEW n \in PhpNames \ siteUnsure' PROVE SiteSound(n)'
  <2>1. SiteSound(n) /\ n \in SameSlug(n)
    BY <1>1 DEF SiteInv, SameSlug
  <2>2. \A m \in PhpNames : m \in SameSlug(n) => n \in SameSlug(m)
    BY DEF SameSlug
  <2>3. \A r \in SiteReqs : siteReq[r].name # n
    BY <1>1, <2>1, SiteNames DEF SitesAtWork
  <2>4. SiteAtRest(n, phpSite[n], siteBox[PhpSlugOf[n]], siteHost, RuntimeSure)
    BY <2>1, <2>3 DEF SiteSound
  <2>5. \A r \in SiteReqs : siteReq'[r].name \notin SameSlug(n)' /\ siteReq'[r].name # n
    BY <1>4, SiteNames DEF SameSlug
  <2> QED BY <1>1, <2>4, <2>5 DEF SiteSound
<1> QED BY <1>1, <1>3, <1>4, <1>5, <1>6 DEF SiteInv

\* While the runtime is sure, its requests leave it sure but for a deletion, which no site
\* with a row of its kind lets begin.
LEMMA RuntimeStays ==
  ASSUME PhpInv, RuntimeSure, NEW r \in PhpReqs, RuntimeRequest(r)
  PROVE  RuntimeSure' \/ (DeletesRuntime /\ \A n \in PhpNames : ~(phpSite[n].there /\ phpSite[n].kind = "fpm"))
<1>1. phpReq \in [PhpReqs -> PhpRequest] /\ \A q \in PhpReqs : phpReq[q].op \notin {"create", "delete"}
  BY DEF PhpInv, PhpTypeOK, PhpRequest, RuntimeSure, RuntimeGoing
<1>2. CopyKept(phpReq[r]) /\ phpReq[r] \in PhpRequest
  BY <1>1 DEF PhpInv
<1>3. phpReq[r].step \notin {"write", "insert", "up", "unrow", "erase"}
  BY <1>1, <1>2 DEF CopyKept, PhpRequest, PhpOps, PhpEnded
<1>4. ~CreateRuntime(r) /\ ~WriteRuntime(r) /\ ~InsertRuntime(r) /\ ~AutoStartRuntime(r) /\ ~DropRuntimeRow(r) /\ ~EraseRuntimeDir(r)
  BY <1>3 DEF CreateRuntime, WriteRuntime, InsertRuntime, AutoStartRuntime, DropRuntimeRow, EraseRuntimeDir, PhpAt, RuntimeSure
<1>5. ASSUME NEW op, PhpBegin(r, op, "done", {}, NoPhp) PROVE ~RuntimeGoing'
  <2>1. \A q \in PhpReqs : phpReq'[q].op = IF q = r THEN "none" ELSE phpReq[q].op
    BY <1>1, <1>5 DEF PhpBegin, PhpRest, PhpRequest
  <2> QED BY <2>1, <1>1 DEF RuntimeGoing
<1>6. CASE PhpLifecycle(r)
  BY <1>5, <1>6 DEF PhpLifecycle, RuntimeSure
<1>7. CASE DeleteRuntime(r)
  <2>1. phpRow' = phpRow /\ phpRow.there /\ \A n \in PhpNames : ~(phpSite[n].there /\ phpSite[n].kind = "fpm")
    BY <1>7 DEF DeleteRuntime
  <2>2. CASE phpCont' = "none" /\ PhpBegin(r, "delete", "erase", {}, NoPhp)
    <3>1. phpReq'[r].op = "delete"
      BY <2>2 DEF PhpBegin
    <3>2. phpReq' # phpReq
      BY <3>1, <1>1
    <3> QED BY <2>1, <2>2, <3>2 DEF DeletesRuntime
  <2>3. CASE PhpBegin(r, "delete", "done", {}, NoPhp)
    BY <2>1, <2>3, <1>5 DEF RuntimeSure
  <2> QED BY <2>2, <2>3, <1>7 DEF DeleteRuntime
<1> QED BY <1>4, <1>6, <1>7 DEF RuntimeRequest, StartRuntime, StopRuntime, RestartRuntime

\* No request about the runtime touches a site.
LEMMA RuntimeLeavesSites == ASSUME NEW r \in PhpReqs, RuntimeRequest(r) PROVE phpSite' = phpSite
BY DEF RuntimeRequest, CreateRuntime, WriteRuntime, InsertRuntime, AutoStartRuntime, DropRuntimeRow, EraseRuntimeDir,
       DeleteRuntime, StartRuntime, StopRuntime, RestartRuntime, PhpLifecycle

LEMMA RuntimeMovesKeep == SiteInv /\ PhpInv /\ RuntimeMoves => SiteInv'
<1> SUFFICES ASSUME SiteInv, PhpInv, NEW r \in PhpReqs, RuntimeRequest(r), RuntimeMoves PROVE SiteInv'
  BY DEF RuntimeMoves
<1>1. /\ phpSite' = phpSite /\ siteHost' = siteHost /\ siteBox' = siteBox /\ siteReq' = siteReq
      /\ siteUnsure' = siteUnsure \cup
           {n \in PhpNames : \E q \in SiteReqs : siteReq[q].name = n /\ siteReq[q].kind = "fpm" /\ DeletesRuntime}
  BY RuntimeLeavesSites DEF RuntimeMoves
<1>2. SiteTypeOK' /\ \A n \in PhpNames, h \in SiteReqs : SiteRefers(n, h)' <=> SiteRefers(n, h)
  BY <1>1 DEF SiteInv, SiteTypeOK, SiteRefers
<1>3. ASSUME NEW n \in PhpNames \ siteUnsure' PROVE SiteSound(n)'
  <2>1. SiteSound(n) /\ SameSlug(n)' = SameSlug(n)
    BY <1>1 DEF SiteInv, SameSlug
  <2>2. RuntimeSure => RuntimeSure' \/ (DeletesRuntime /\ ~(phpSite[n].there /\ phpSite[n].kind = "fpm"))
    BY RuntimeStays
  <2>3. (\A q \in SiteReqs : siteReq[q].name # n) => SiteAtRest(n, phpSite[n], siteBox[PhpSlugOf[n]], siteHost, RuntimeSure')
    BY <2>1, <2>2 DEF SiteSound, SiteAtRest
  <2>4. ASSUME NEW q \in SiteReqs, siteReq[q].name = n
        PROVE  SiteAtStep(siteReq[q], q, n, phpSite[n], siteBox[PhpSlugOf[n]], siteHost, RuntimeSure')
    <3>1. SiteAtStep(siteReq[q], q, n, phpSite[n], siteBox[PhpSlugOf[n]], siteHost, RuntimeSure)
      BY <2>1, <2>4 DEF SiteSound
    <3>2. siteReq[q].kind = "fpm" => ~DeletesRuntime
      BY <1>1, <2>4
    <3>3. (phpSite[n].there /\ phpSite[n].kind = "fpm") \/ (siteReq[q].kind = "fpm" /\ siteReq[q].step \in {"host", "row"}) => RuntimeSure'
      BY <3>1, <3>2, <2>2 DEF SiteAtStep
    <3> QED BY <3>1, <3>3 DEF SiteAtStep
  <2> QED BY <1>1, <2>1, <2>3, <2>4 DEF SiteSound
<1> QED BY <1>1, <1>2, <1>3 DEF SiteInv

LEMMA SiteInvStep == SiteInv /\ PhpInv /\ SiteNext => SiteInv'
BY RuntimeMovesKeep, SiteDeathKeeps, CreateSiteKeeps, StartFrankenKeeps, CreateSiteHostKeeps, InsertSiteKeeps,
   UndoSiteKeeps, DeleteSiteKeeps, UnserveSiteKeeps, ForgetSiteKeeps, UpdateSiteKeeps, SyncSiteKeeps DEF SiteNext

\* Sites leave the runtime's invariant as it is.
LEMMA PhpInvSites == PhpInv /\ SiteNext => PhpInv'
<1> SUFFICES ASSUME PhpInv, SiteNext PROVE PhpInv'
  OBVIOUS
<1>1. CASE RuntimeMoves
  BY <1>1, RuntimeKeeps DEF RuntimeMoves
<1>2. CASE ~RuntimeMoves
  <2>1. UNCHANGED <<phpRow, phpDir, phpCont, phpReq, phpUnsure>>
    BY <1>2 DEF SiteNext, SitePanelDies, CreateSite, StartFranken, CreateSiteHost, InsertSite, UndoSite, DeleteSite,
             UnserveSite, ForgetSite, UpdateSite, SyncSite, phpVars
  <2> QED BY <2>1, PhpInvSame
<1> QED BY <1>1, <1>2
=============================================================================
