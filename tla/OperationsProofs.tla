----------------------------- MODULE OperationsProofs -----------------------------
(***************************************************************************)
(* Safety of the plugins that act on their own time, for any number of     *)
(* executions, backups, requests, channels, connections and pages: one     *)
(* execution of a task and one backup at a time, schedulers that agree     *)
(* with the rows, each event handled once, saves of the crontab that       *)
(* overwrite nothing unseen, snapshots and units that are whose they are   *)
(* said to be; and of two services of the panel's own.  An upgrade of the  *)
(* Caddy binary is all or nothing, for any number of upgrades, starts,     *)
(* stops and deaths of the panel: the invariant says at each step where    *)
(* the old binary is.  Who has a shell, or is about to, has a place among  *)
(* the terminals.  An archive gives back the tree that was packed, as long *)
(* as nobody else is about: an open walk owes exactly what is ahead of it. *)
(* Each component has an invariant of its own, which says at each step of  *)
(* a request or a run what it has still to do; the last section puts them  *)
(* together for the specification that moves one component at a time.      *)
(***************************************************************************)
EXTENDS MCOperations, FiniteSetTheorems, SequenceTheorems, TLAPS

-----------------------------------------------------------------------------
(* Upgrades of the Caddy binary.                                           *)

\* Before the backup CaddyBin is the file of before the upgrade, and nothing is saved.
OldInPlace == bin = before /\ bin # "none" /\ saved = "none" /\ last = "none"

\* From the backup on the old file is the saved one.
OldSaved == saved = before /\ saved # "none" /\ last = "none"

\* Between two upgrades there is a binary and no saved one.
AtRest ==
  /\ bin # "none" /\ saved = "none"
  /\ last = "failed" => bin = before
  /\ last = "ok" => bin = "new" /\ (was => proc = [ver |-> "new", home |-> "panel"])

WhereTheOldBinaryIs ==
  ~torn =>
    /\ upgrade = "idle" => AtRest
    /\ upgrade \in {"download", "stop", "backup"} => OldInPlace
    /\ upgrade = "install" => OldSaved /\ bin = "none"
    /\ upgrade = "restart" => OldSaved /\ bin = "new"
    /\ upgrade = "cleanup" =>
         /\ OldSaved /\ bin = "new"
         /\ was => proc = [ver |-> "new", home |-> "panel"]

UpgInv == UpgTypeOK /\ WhereTheOldBinaryIs

-----------------------------------------------------------------------------

\* There is a binary and no upgrade when the panel starts.
LEMMA UpgInvInit == UpgInit => UpgInv
<1> SUFFICES ASSUME UpgInit PROVE UpgTypeOK /\ WhereTheOldBinaryIs
  BY DEF UpgInv
<1>1. proc \in [ver : Versions \cup {"none"}, home : {"panel", "user"}]
  BY DEF UpgInit, Down
<1>2. upgrades \in 0..MaxUpgrades
  BY UpgradeAssumption DEF UpgInit, UpgradeAssumption
<1>3. was \in BOOLEAN /\ torn \in BOOLEAN
  BY DEF UpgInit
<1>4. UpgTypeOK
  BY <1>1, <1>2, <1>3 DEF UpgInit, UpgTypeOK, Versions, UpgSteps
<1>5. WhereTheOldBinaryIs
  BY DEF UpgInit, WhereTheOldBinaryIs, AtRest
<1> QED
  BY <1>4, <1>5

\* Each step keeps the types.
LEMMA UpgTypeStep == UpgTypeOK /\ [UpgNext]_upgVars => UpgTypeOK'
<1> SUFFICES ASSUME UpgTypeOK, [UpgNext]_upgVars
             PROVE  UpgTypeOK'
  OBVIOUS
<1> USE DEF UpgTypeOK, Versions, UpgSteps
<1>1. CASE BeginUpgrade
  BY <1>1, UpgradeAssumption DEF BeginUpgrade
<1>2. CASE Download
  BY <1>2 DEF Download, FailUpgrade
<1>3. CASE StopForUpgrade
  BY <1>3 DEF StopForUpgrade, Down
<1>4. CASE BackupBinary
  BY <1>4 DEF BackupBinary
<1>5. CASE InstallBinary
  BY <1>5 DEF InstallBinary, PutBack, FailUpgrade
<1>6. CASE RestartCaddy
  BY <1>6 DEF RestartCaddy, PutBack, FailUpgrade, Down
<1>7. CASE FinishUpgrade
  BY <1>7 DEF FinishUpgrade
<1>8. CASE StartCaddyProcess
  BY <1>8 DEF StartCaddyProcess
<1>9. CASE StopCaddyProcess
  BY <1>9 DEF StopCaddyProcess, Down
<1>10. CASE PanelDies
  BY <1>10 DEF PanelDies
<1>11. CASE UNCHANGED upgVars
  BY <1>11 DEF upgVars
<1> QED
  BY <1>1, <1>2, <1>3, <1>4, <1>5, <1>6, <1>7, <1>8, <1>9, <1>10, <1>11 DEF UpgNext

\* Each step of an upgrade moves the old binary where the next step looks for it.
LEMMA OldBinaryStep == UpgInv /\ [UpgNext]_upgVars => WhereTheOldBinaryIs'
<1> SUFFICES ASSUME UpgTypeOK, WhereTheOldBinaryIs, [UpgNext]_upgVars, ~torn'
             PROVE  WhereTheOldBinaryIs'
  BY DEF UpgInv, WhereTheOldBinaryIs
<1> USE DEF WhereTheOldBinaryIs, OldInPlace, OldSaved, AtRest
<1>1. CASE BeginUpgrade
  BY <1>1 DEF BeginUpgrade
<1>2. CASE Download
  BY <1>2 DEF Download, FailUpgrade
<1>3. CASE StopForUpgrade
  BY <1>3 DEF StopForUpgrade
<1>4. CASE BackupBinary
  BY <1>4 DEF BackupBinary
<1>5. CASE InstallBinary
  BY <1>5 DEF InstallBinary, PutBack, FailUpgrade
<1>6. CASE RestartCaddy
  BY <1>6 DEF RestartCaddy, PutBack, FailUpgrade
<1>7. CASE FinishUpgrade
  BY <1>7 DEF FinishUpgrade
<1>8. CASE StartCaddyProcess
  BY <1>8 DEF StartCaddyProcess
<1>9. CASE StopCaddyProcess
  BY <1>9 DEF StopCaddyProcess
\* A panel that dies during an upgrade is excused; one that dies between two forgets
\* how the last one ended.
<1>10. CASE PanelDies
  BY <1>10 DEF PanelDies, UpgTypeOK
<1>11. CASE UNCHANGED upgVars
  BY <1>11 DEF upgVars
<1> QED
  BY <1>1, <1>2, <1>3, <1>4, <1>5, <1>6, <1>7, <1>8, <1>9, <1>10, <1>11 DEF UpgNext

\* The invariant holds throughout.
LEMMA UpgInvHolds == UpgSpec => []UpgInv
<1>1. UpgInv /\ [UpgNext]_upgVars => UpgInv'
  BY UpgTypeStep, OldBinaryStep DEF UpgInv
<1> QED
  BY UpgInvInit, <1>1, PTL DEF UpgSpec

-----------------------------------------------------------------------------

\* Every variable of the upgrade keeps its type: CaddyBin and its backup hold one of the
\* two versions or nothing, at every step of Manager.Upgrade.
THEOREM UpgradeTypes == UpgSpec => []UpgTypeOK
<1>1. UpgInv => UpgTypeOK
  BY DEF UpgInv
<1> QED
  BY UpgInvHolds, <1>1, PTL

\* Manager.Upgrade leaves the old binary after a failure, and after a success the new
\* one, served from the panel's own data directory if Caddy ran before.
THEOREM UpgradesAreAtomic == UpgSpec => []UpgradeAtomic
<1>1. UpgInv => UpgradeAtomic
  <2> SUFFICES ASSUME UpgInv, ~torn, last # "none"
               PROVE  /\ last = "failed" => bin = before /\ saved = "none"
                      /\ last = "ok" => /\ bin = "new" /\ saved = "none"
                                        /\ was => proc = [ver |-> "new", home |-> "panel"]
    BY DEF UpgradeAtomic
  <2>1. upgrade = "idle"
    BY DEF UpgInv, UpgTypeOK, UpgSteps, WhereTheOldBinaryIs, OldInPlace, OldSaved
  <2> QED
    BY <2>1 DEF UpgInv, WhereTheOldBinaryIs, AtRest
<1> QED
  BY UpgInvHolds, <1>1, PTL

-----------------------------------------------------------------------------
(* Terminals.                                                              *)

Creating(c) == term[c].step \in {"starting", "registering"}

\* A shell that runs is in the map, or about to be.
ShellsInMap == \A c \in Conns : term[c].shell = "runs" => term[c].place = "taken" \/ term[c].step = "registering"

\* While the plugin was not stopped over them, connections keep the place they reserved.
PlacesKept == ~termCut => \A c \in Conns : Creating(c) => term[c].place = "reserved"

PlacesBounded == ~termCut => Cardinality(Places) <= MaxSessions

TermInv == TermTypeOK /\ ShellsInMap /\ PlacesKept /\ PlacesBounded

-----------------------------------------------------------------------------
\* Sets of connections are finite, and a part of one is no larger.
LEMMA ConnsFinite ==
  ASSUME NEW S, NEW T, S \subseteq T, T \subseteq Conns
  PROVE  /\ IsFiniteSet(S) /\ IsFiniteSet(T)
         /\ Cardinality(S) \in Nat /\ Cardinality(T) \in Nat
         /\ Cardinality(S) <= Cardinality(T)
<1>1. IsFiniteSet(Conns)
  BY TermAssumption DEF TermAssumption
<1>2. IsFiniteSet(T)
  BY <1>1, FS_Subset
<1>3. IsFiniteSet(S) /\ Cardinality(S) <= Cardinality(T)
  BY <1>2, FS_Subset
<1> QED
  BY <1>2, <1>3, FS_CardinalityType

\* No session is there when the panel starts.
LEMMA TermInvInit == TermInit => TermInv
<1> SUFFICES ASSUME TermInit PROVE TermInv
  OBVIOUS
<1>1. TermTypeOK
  BY DEF TermInit, TermTypeOK, NoTerm, Sessions, TermSteps
<1>2. ShellsInMap /\ PlacesKept
  BY DEF TermInit, NoTerm, ShellsInMap, PlacesKept, Creating
<1>3. Places = {}
  BY DEF TermInit, NoTerm, Places
<1>4. PlacesBounded
  BY <1>3, FS_EmptySet, TermAssumption DEF PlacesBounded, TermAssumption
<1> QED
  BY <1>1, <1>2, <1>4 DEF TermInv

\* A session that is closed keeps its type, has no place and no shell that runs.
LEMMA EmptiedSession ==
  ASSUME NEW t \in Sessions
  PROVE  /\ Emptied(t) \in Sessions
         /\ Emptied(t).place = "free" /\ Emptied(t).shell # "runs" /\ Emptied(t).step = t.step
BY DEF Emptied, Sessions

\* What the steps make of a session is one.
LEMMA SessionUpdates ==
  ASSUME NEW t \in Sessions
  PROVE  /\ [t EXCEPT !.step = "ended"] \in Sessions /\ [t EXCEPT !.step = "waiting"] \in Sessions
         /\ [t EXCEPT !.step = "starting", !.place = "reserved", !.client = "on"] \in Sessions
         /\ [t EXCEPT !.step = "registering", !.shell = "runs"] \in Sessions
         /\ [t EXCEPT !.step = "ended", !.place = "free"] \in Sessions
         /\ [t EXCEPT !.step = "serving", !.place = "taken", !.copier = "copies"] \in Sessions
         /\ [t EXCEPT !.shell = "dead"] \in Sessions /\ [t EXCEPT !.client = "gone"] \in Sessions
         /\ [t EXCEPT !.copier = "ended"] \in Sessions /\ [t EXCEPT !.old = TRUE] \in Sessions
         /\ [t EXCEPT !.place = "free"] \in Sessions
BY DEF Sessions, TermSteps

\* Each step keeps the types.
LEMMA TermTypeStep == TermTypeOK /\ [TermNext]_termVars => TermTypeOK'
<1> SUFFICES ASSUME TermTypeOK, [TermNext]_termVars PROVE TermTypeOK'
  OBVIOUS
<1> USE DEF TermTypeOK
<1>1. ASSUME NEW c \in Conns, Reserve(c) PROVE TermTypeOK'
  <2>1. \/ term' = [term EXCEPT ![c] = [term[c] EXCEPT !.step = "ended"]]
        \/ term' = [term EXCEPT ![c] = [term[c] EXCEPT !.step = "starting", !.place = "reserved", !.client = "on"]]
    BY <1>1 DEF Reserve
  <2>2. termOn' = termOn /\ termCut' = termCut
    BY <1>1 DEF Reserve
  <2>3. PICK t \in Sessions : term' = [term EXCEPT ![c] = t]
    BY <2>1, SessionUpdates
  <2> QED
    BY <2>2, <2>3
<1>2. ASSUME NEW c \in Conns, StartShell(c) PROVE TermTypeOK'
  <2>1. \/ term' = [term EXCEPT ![c] = [term[c] EXCEPT !.step = "registering", !.shell = "runs"]]
        \/ term' = [term EXCEPT ![c] = [term[c] EXCEPT !.step = "ended", !.place = "free"]]
    BY <1>2 DEF StartShell
  <2>2. termOn' = termOn /\ termCut' = termCut
    BY <1>2 DEF StartShell
  <2>3. PICK t \in Sessions : term' = [term EXCEPT ![c] = t]
    BY <2>1, SessionUpdates
  <2> QED
    BY <2>2, <2>3
<1>3. ASSUME NEW c \in Conns, Register(c) PROVE TermTypeOK'
  BY <1>3, SessionUpdates DEF Register
<1>4. ASSUME NEW c \in Conns, ShellExits(c) PROVE TermTypeOK'
  BY <1>4, SessionUpdates DEF ShellExits
<1>5. ASSUME NEW c \in Conns, ClientGoes(c) PROVE TermTypeOK'
  BY <1>5, SessionUpdates DEF ClientGoes
<1>6. ASSUME NEW c \in Conns, CopierEnds(c) PROVE TermTypeOK'
  BY <1>6, SessionUpdates DEF CopierEnds
<1>7. ASSUME NEW c \in Conns, LoopEnds(c) PROVE TermTypeOK'
  BY <1>7, SessionUpdates DEF LoopEnds
<1>8. ASSUME NEW c \in Conns, CloseSession(c) PROVE TermTypeOK'
  <2>1. [Emptied(term[c]) EXCEPT !.step = "ended"] \in Sessions
    BY EmptiedSession, SessionUpdates
  <2> QED
    BY <1>8, <2>1 DEF CloseSession
<1>9. ASSUME NEW c \in Conns, Ages(c) PROVE TermTypeOK'
  BY <1>9, SessionUpdates DEF Ages
<1>10. CASE CleanupStale
  BY <1>10, EmptiedSession DEF CleanupStale
<1>11. CASE StopTerminals
  BY <1>11, EmptiedSession, SessionUpdates DEF StopTerminals
<1>12. CASE StartTerminals \/ UNCHANGED termVars
  BY <1>12 DEF StartTerminals, termVars
<1> QED
  BY <1>1, <1>2, <1>3, <1>4, <1>5, <1>6, <1>7, <1>8, <1>9, <1>10, <1>11, <1>12 DEF TermNext

\* Each step leaves a running shell where it can be closed, and a place with whom it was given to.
LEMMA PlaceStep ==
  TermTypeOK /\ ShellsInMap /\ PlacesKept /\ [TermNext]_termVars => ShellsInMap' /\ PlacesKept'
<1> SUFFICES ASSUME TermTypeOK, ShellsInMap, PlacesKept, [TermNext]_termVars
             PROVE  ShellsInMap' /\ PlacesKept'
  OBVIOUS
<1> USE DEF TermTypeOK, Sessions, TermSteps, ShellsInMap, PlacesKept, Creating
<1>1. ASSUME NEW c \in Conns, Reserve(c) PROVE ShellsInMap' /\ PlacesKept'
  BY <1>1 DEF Reserve
<1>2. ASSUME NEW c \in Conns, StartShell(c) PROVE ShellsInMap' /\ PlacesKept'
  BY <1>2 DEF StartShell
<1>3. ASSUME NEW c \in Conns, Register(c) PROVE ShellsInMap' /\ PlacesKept'
  BY <1>3 DEF Register
<1>4. ASSUME NEW c \in Conns, ShellExits(c) \/ ClientGoes(c) \/ CopierEnds(c)
      PROVE  ShellsInMap' /\ PlacesKept'
  BY <1>4 DEF ShellExits, ClientGoes, CopierEnds
<1>5. ASSUME NEW c \in Conns, LoopEnds(c) \/ CloseSession(c) \/ Ages(c)
      PROVE  ShellsInMap' /\ PlacesKept'
  BY <1>5, EmptiedSession DEF LoopEnds, CloseSession, Ages
<1>6. CASE CleanupStale
  BY <1>6, EmptiedSession DEF CleanupStale
<1>7. CASE StopTerminals
  <2>1. ASSUME NEW c \in Conns
        PROVE  term'[c].shell = "runs" => term[c].step = "registering" /\ term'[c].step = term[c].step
    <3>1. CASE term[c].place = "taken"
      BY <1>7, <3>1, EmptiedSession DEF StopTerminals
    <3>2. CASE term[c].place # "taken"
      BY <1>7, <3>2 DEF StopTerminals
    <3> QED
      BY <3>1, <3>2
  <2>2. ASSUME ~termCut', NEW c \in Conns PROVE ~Creating(c)'
    <3>1. term[c].step \notin {"starting", "registering"}
      BY <1>7, <2>2 DEF StopTerminals
    <3>2. term'[c] = IF term[c].place = "taken" THEN Emptied(term[c]) ELSE [term[c] EXCEPT !.place = "free"]
      BY <1>7 DEF StopTerminals
    <3>3. term'[c].step = term[c].step
      BY <3>2, EmptiedSession
    <3> QED
      BY <3>1, <3>3
  <2> QED
    BY <2>1, <2>2
<1>8. CASE StartTerminals \/ UNCHANGED termVars
  BY <1>8 DEF StartTerminals, termVars
<1> QED
  BY <1>1, <1>2, <1>3, <1>4, <1>5, <1>6, <1>7, <1>8 DEF TermNext

\* Only Reserve takes a place that was free before, and only below the limit.
LEMMA LimitStep == TermInv /\ [TermNext]_termVars => PlacesBounded'
<1> SUFFICES ASSUME TermInv, [TermNext]_termVars, ~termCut'
             PROVE  Cardinality(Places') <= MaxSessions
  BY DEF PlacesBounded
<1>0. ~termCut
  BY DEF TermNext, Reserve, StartShell, Register, ShellExits, ClientGoes, CopierEnds, LoopEnds,
     CloseSession, Ages, CleanupStale, StopTerminals, StartTerminals, termVars
<1>1. Cardinality(Places) <= MaxSessions /\ Cardinality(Places) \in Nat /\ IsFiniteSet(Places)
  BY <1>0, ConnsFinite DEF TermInv, PlacesBounded, Places
<1>2. MaxSessions \in Nat
  BY TermAssumption DEF TermAssumption
<1>3. ASSUME Places' \subseteq Places PROVE Cardinality(Places') <= MaxSessions
  <2>1. Cardinality(Places') <= Cardinality(Places) /\ Cardinality(Places') \in Nat
    BY <1>3, ConnsFinite DEF Places
  <2> QED
    BY <1>1, <1>2, <2>1
<1>4. ASSUME NEW c \in Conns, Reserve(c) PROVE Cardinality(Places') <= MaxSessions
  <2>1. CASE Cardinality(Places) >= MaxSessions
    <3>1. Places' \subseteq Places
      BY <1>4, <2>1 DEF Reserve, TermInv, TermTypeOK, Places, Sessions
    <3> QED
      BY <3>1, <1>3
  <2>2. CASE ~(Cardinality(Places) >= MaxSessions)
    <3>1. Places' = Places \cup {c}
      BY <1>4, <2>2 DEF Reserve, TermInv, TermTypeOK, Places, Sessions
    <3>2. Cardinality(Places \cup {c}) <= Cardinality(Places) + 1
      BY <1>1, FS_AddElement
    <3>3. Cardinality(Places \cup {c}) \in Nat
      BY <1>1, FS_AddElement, FS_CardinalityType
    <3> QED
      BY <1>1, <1>2, <2>2, <3>1, <3>2, <3>3
  <2> QED
    BY <2>1, <2>2
<1>5. ASSUME NEW c \in Conns, Register(c) PROVE Places' \subseteq Places
  BY <1>5, <1>0 DEF Register, TermInv, TermTypeOK, PlacesKept, Creating, Places, Sessions
<1>6. ASSUME NEW c \in Conns,
             StartShell(c) \/ ShellExits(c) \/ ClientGoes(c) \/ CopierEnds(c) \/ LoopEnds(c)
      PROVE  Places' \subseteq Places
  BY <1>6 DEF StartShell, ShellExits, ClientGoes, CopierEnds, LoopEnds, TermInv, TermTypeOK, Places, Sessions
<1>7. ASSUME NEW c \in Conns, CloseSession(c) \/ Ages(c) PROVE Places' \subseteq Places
  BY <1>7, EmptiedSession DEF CloseSession, Ages, TermInv, TermTypeOK, Places, Sessions
<1>8. CASE CleanupStale
  BY <1>8, <1>3, EmptiedSession DEF CleanupStale, TermInv, TermTypeOK, Places, Sessions
<1>9. CASE StopTerminals
  BY <1>9, <1>3, EmptiedSession DEF StopTerminals, TermInv, TermTypeOK, Places, Sessions
<1>10. CASE StartTerminals \/ UNCHANGED termVars
  BY <1>10, <1>3 DEF StartTerminals, termVars, Places
<1> QED
  BY <1>3, <1>4, <1>5, <1>6, <1>7, <1>8, <1>9, <1>10 DEF TermNext

\* The invariant holds throughout.
LEMMA TermInvHolds == TermSpec => []TermInv
<1>1. TermInv /\ [TermNext]_termVars => TermInv'
  BY TermTypeStep, PlaceStep, LimitStep DEF TermInv
<1> QED
  BY TermInvInit, <1>1, PTL DEF TermSpec

\* Whoever has a shell has a place, or the shell is about to be registered for the place reserved.
LEMMA ShellsWithinLimit == TermInv => ShellsBounded
<1> SUFFICES ASSUME TermInv PROVE ShellsBounded
  OBVIOUS
<1> DEFINE running == {c \in Conns : term[c].shell = "runs"}
<1>1. ASSUME ~termCut
      PROVE  Cardinality(Places) <= MaxSessions /\ Cardinality(running) <= MaxSessions
  <2>1. running \subseteq Places
    BY <1>1 DEF TermInv, ShellsInMap, PlacesKept, Creating, Places
  <2>2. Cardinality(running) <= Cardinality(Places) /\ Cardinality(running) \in Nat
        /\ Cardinality(Places) \in Nat
    BY <2>1, ConnsFinite DEF Places
  <2>3. Cardinality(Places) <= MaxSessions
    BY <1>1 DEF TermInv, PlacesBounded
  <2> HIDE DEF running
  <2> QED
    BY <2>2, <2>3, TermAssumption DEF TermAssumption
<1> QED
  BY <1>1 DEF TermInv, ShellsInMap, ShellsBounded

-----------------------------------------------------------------------------

\* Every variable of the terminals keeps its type, for any number of connections.
THEOREM TerminalTypes == TermSpec => []TermTypeOK
<1>1. TermInv => TermTypeOK
  BY DEF TermInv
<1> QED
  BY TermInvHolds, <1>1, PTL

\* However many connections ask TerminalWS for a shell at once, there are never more places
\* taken, or shells running, than maxSessions, unless the plugin was stopped over one that
\* was being created; and no shell runs that the map does not know or is about to.
THEOREM ShellsAreBounded == TermSpec => []ShellsBounded
BY TermInvHolds, ShellsWithinLimit, PTL

-----------------------------------------------------------------------------
(* Scheduled tasks (Cronjobs).                                             *)

NoEntry == [live |-> 0, known |-> FALSE]
OneEntry == [live |-> 1, known |-> TRUE]
EntryFor(t) == IF t = "on" THEN OneEntry ELSE NoEntry

\* The scheduler's map points at an entry that lives, and an execution that is to run its
\* command has an attempt left.
CronSound ==
  /\ entries.known => entries.live > 0
  /\ \A e \in Executions : exec[e].pc = "run" => exec[e].left > 0

\* The guard of a task is not set without an execution that will release it.
GuardHeld == guard => \E e \in Executions : exec[e].pc \in Holding

\* What one request alone leaves to be done, at each of its steps.
RequestOn(r) ==
  /\ cronReq[r] \in {"saveOn", "saveOff"} => Row(task) /\ entries = EntryFor(task)
  /\ cronReq[r] = "removeOn" => task = "on" /\ entries \in {NoEntry, OneEntry}
  /\ cronReq[r] = "removeOff" => task = "off" /\ entries \in {NoEntry, OneEntry}
  /\ cronReq[r] = "add" => task = "on" /\ entries = NoEntry
  /\ cronReq[r] = "reload" => entries \in {NoEntry, OneEntry}
  /\ cronReq[r] \in {"drop", "reread"} => entries = NoEntry

\* Without a crowd requests come one at a time, and none while Start runs.
CronCalm ==
  /\ boot = "up" => subscribed
  /\ ~crowd =>
       /\ boot \in Booting => NoRequest /\ entries = NoEntry
       /\ boot = "loading" => (listed <=> task = "on")
       /\ boot = "up" => /\ \A r, q \in CronReqs : Busy(r) /\ Busy(q) => r = q
                         /\ \A r \in CronReqs : RequestOn(r)
                         /\ NoRequest => entries = EntryFor(task)

CronInv == CronTypeOK /\ CronSound /\ GuardHeld /\ CronOneRun /\ CronCalm

EntryState == [live : Nat, known : BOOLEAN]
Added == [live |-> entries.live + 1, known |-> TRUE]
Removed == [live |-> IF entries.known THEN entries.live - 1 ELSE entries.live, known |-> FALSE]

\* What the scheduler's operations make of the entries.
LEMMA EntriesSound ==
  ASSUME entries \in EntryState, entries.known => entries.live > 0, entries' \in {entries, NoEntry, Added, Removed}
  PROVE  entries' \in EntryState /\ (entries'.known => entries'.live > 0)
<1>1. CASE entries' = entries
  BY <1>1
<1>2. CASE entries' = NoEntry
  BY <1>2 DEF NoEntry, EntryState
<1>3. CASE entries' = Added
  <2>1. entries.live + 1 \in Nat /\ entries.live + 1 > 0
    BY DEF EntryState
  <2> QED
    BY <1>3, <2>1 DEF Added, EntryState
<1>4. CASE entries' = Removed
  <2>1. (IF entries.known THEN entries.live - 1 ELSE entries.live) \in Nat
    BY DEF EntryState
  <2> QED
    BY <1>4, <2>1 DEF Removed, EntryState
<1> QED
  BY <1>1, <1>2, <1>3, <1>4

\* Nothing runs, nothing is scheduled and nothing is asked before the first start.
LEMMA CronInvInit == CronInit => CronInv
<1> SUFFICES ASSUME CronInit PROVE CronInv
  OBVIOUS
<1>1. CronTypeOK
  <2>1. Idle \in [pc : ExecSteps, left : 0..Attempts]
    BY CronAssumption DEF Idle, ExecSteps, Attempts
  <2>2. entries \in EntryState
    BY DEF CronInit, EntryState
  <2>3. starts \in 0..MaxStarts
    BY CronAssumption DEF CronInit
  <2> QED
    BY <2>1, <2>2, <2>3 DEF CronInit, CronTypeOK, ReqSteps, EntryState
<1>2. CronSound /\ GuardHeld /\ CronOneRun /\ CronCalm
  BY DEF CronInit, CronSound, GuardHeld, CronOneRun, CronCalm, Idle, Holding, Booting, NoRequest, Busy
<1> QED
  BY <1>1, <1>2 DEF CronInv

\* The steps, sorted by what they may change.
CronLife == CronOpen \/ CronStartReset \/ CronStartClear \/ CronStartFind \/ CronStartLoad \/ CronStop
CronRequest(r) ==
  \/ CreateTask(r) \/ UpdateTask(r) \/ UpdateSave(r) \/ UpdateRemove(r) \/ Schedule(r)
  \/ DeleteTask(r) \/ DeleteRow(r)
  \/ CronJobCreate(r) \/ CronJobUpdate(r) \/ Reload(r) \/ Reread(r) \/ CronJobDelete(r)
CronRun(e) ==
  \/ CronTick(e) \/ TriggerTask(e) \/ CronJobTrigger(e)
  \/ ReadTask(e) \/ ClaimRun(e) \/ RunAttempt(e) \/ AttemptEnds(e) \/ ReleaseRun(e)

\* The steps by who takes them: the life of the plugin, a request, an execution.
LEMMA CronSteps ==
  ASSUME NEW R, NEW E, CronNextOf(R, E)
  PROVE  CronLife \/ CronCrash \/ (\E r \in R : CronRequest(r)) \/ (\E e \in E : CronRun(e))
BY DEF CronNextOf, ExecStep, RunPanics, CronLife, CronRequest, CronRun

\* A command is run at least once.
LEMMA AttemptsPositive == Attempts \in Nat \ {0}
BY CronAssumption DEF Attempts

\* A crash leaves only the row.
LEMMA CronAfterCrash == CronTypeOK /\ CronCrash => CronInv'
<1> SUFFICES ASSUME CronTypeOK, CronCrash PROVE CronInv'
  OBVIOUS
<1>1. Idle \in [pc : ExecSteps, left : 0..Attempts]
  BY AttemptsPositive DEF Idle, ExecSteps
<1>2. CronTypeOK'
  BY <1>1 DEF CronTypeOK, CronCrash, ReqSteps, Booting
<1>3. CronSound' /\ GuardHeld' /\ CronOneRun' /\ CronCalm'
  BY DEF CronCrash, CronSound, GuardHeld, CronOneRun, CronCalm, Idle, Holding, Booting, NoRequest, Busy
<1> QED
  BY <1>2, <1>3 DEF CronInv

\* The steps of Start, and Stop.
LEMMA CronLifeStep == CronInv /\ CronLife => CronInv'
<1> SUFFICES ASSUME CronInv, CronLife PROVE CronInv'
  OBVIOUS
<1> USE DEF CronInv
<1>0. entries' \in EntryState /\ (entries'.known => entries'.live > 0)
  <2>1. CASE CronOpen \/ CronStartFind \/ CronStartLoad
    BY <2>1, EntriesSound
    DEF CronOpen, CronStartFind, CronStartLoad, addToScheduler, Added, EntryState, CronTypeOK, CronSound
  <2>2. CASE CronStartReset
    BY <2>2, EntriesSound DEF CronStartReset, NoEntry, EntryState, CronTypeOK, CronSound
  <2>3. CASE CronStartClear \/ CronStop
    <3>1. entries' = entries
      BY <2>3 DEF CronStartClear, CronStop
    <3> QED
      BY <3>1 DEF EntryState, CronTypeOK, CronSound
  <2> QED
    BY <2>1, <2>2, <2>3 DEF CronLife
<1>1. CronTypeOK'
  <2>1. CASE CronOpen
    <3>1. starts' \in 0..MaxStarts
      BY <2>1, CronAssumption DEF CronOpen, CronTypeOK
    <3> QED
      BY <2>1, <3>1 DEF CronOpen, CronTypeOK
  <2>2. CASE CronStartReset
    <3>1. crossed' \in BOOLEAN /\ crowd' \in BOOLEAN
      BY <2>2 DEF CronStartReset, NoRequest, Busy
    <3> QED
      BY <1>0, <2>2, <3>1 DEF CronStartReset, CronTypeOK, Booting, EntryState
  <2>3. CASE CronStartClear \/ CronStartFind \/ CronStartLoad
    <3>1. crossed' \in BOOLEAN
      BY <2>3 DEF CronStartClear, CronStartFind, CronStartLoad, CronTypeOK
    <3> QED
      BY <1>0, <2>3, <3>1 DEF CronStartClear, CronStartFind, CronStartLoad, CronTypeOK, Booting, EntryState
  <2>4. CASE CronStop
    <3>1. \A e \in Executions : [exec[e] EXCEPT !.pc = "killed"] \in [pc : ExecSteps, left : 0..Attempts]
      BY DEF CronTypeOK, ExecSteps
    <3> QED
      BY <2>4, <3>1 DEF CronStop, CronTypeOK
  <2> QED
    BY <2>1, <2>2, <2>3, <2>4 DEF CronLife
<1>2. CronSound'
  <2>1. \A e \in Executions : exec'[e].pc = "run" => exec'[e] = exec[e]
    <3>1. CASE CronStop
      BY <3>1 DEF CronStop, CronTypeOK
    <3>2. CASE ~CronStop
      <4>1. exec' = exec
        BY <3>2 DEF CronLife, CronOpen, CronStartReset, CronStartClear, CronStartFind, CronStartLoad
      <4> QED
        BY <4>1
    <3> QED
      BY <3>1, <3>2
  <2> QED
    BY <1>0, <2>1 DEF CronSound
<1>3. GuardHeld' /\ CronOneRun'
  <2>1. CASE CronStartReset \/ CronStartClear
    <3>1. exec' = exec /\ (~guard' \/ guard' = guard)
      BY <2>1 DEF CronStartReset, CronStartClear
    <3>2. ~crossed' => \A e \in Executions : exec[e].pc = "idle"
      BY <2>1 DEF CronStartReset, CronStartClear
    <3> QED
      BY <3>1, <3>2 DEF GuardHeld, CronOneRun, Holding
  <2>2. CASE CronOpen \/ CronStartFind \/ CronStartLoad \/ CronStop
    <3>1. guard' = guard /\ crossed' = crossed
      BY <2>2 DEF CronOpen, CronStartFind, CronStartLoad, CronStop
    <3>2. \A e \in Executions : exec'[e].pc \in Holding <=> exec[e].pc \in Holding
      BY <2>2 DEF CronOpen, CronStartFind, CronStartLoad, CronStop, CronTypeOK, Holding
    <3> QED
      BY <3>1, <3>2 DEF GuardHeld, CronOneRun
  <2> QED
    BY <2>1, <2>2 DEF CronLife
<1>4. CronCalm'
  <2>1. CASE CronOpen \/ CronStop
    BY <2>1 DEF CronOpen, CronStop, CronCalm, Booting
  <2>2. CASE CronStartReset
    BY <2>2 DEF CronStartReset, CronCalm, Booting, NoRequest, Busy, NoEntry
  <2>3. CASE CronStartClear \/ CronStartFind
    BY <2>3 DEF CronStartClear, CronStartFind, CronCalm, Booting, NoRequest, Busy
  <2>4. CASE CronStartLoad
    <3>1. /\ boot = "loading" /\ boot' = "up" /\ subscribed' /\ cronReq' = cronReq /\ task' = task
          /\ crowd' = crowd
          /\ entries' = IF listed THEN [live |-> entries.live + 1, known |-> TRUE] ELSE entries
      BY <2>4 DEF CronStartLoad, addToScheduler
    <3>2. ~crowd => NoRequest /\ entries = NoEntry /\ (listed <=> task = "on")
      BY <3>1 DEF CronCalm, Booting, CronTypeOK
    <3>3. ~crowd => entries' = EntryFor(task)
      <4>1. ~crowd => entries.live + 1 = 1
        BY <3>2 DEF NoEntry
      <4> QED
        BY <3>1, <3>2, <4>1 DEF EntryFor, OneEntry
    <3> QED
      BY <3>1, <3>2, <3>3 DEF CronCalm, Booting, NoRequest, Busy, RequestOn
  <2> QED
    BY <2>1, <2>2, <2>3, <2>4 DEF CronLife
<1> QED
  BY <1>1, <1>2, <1>3, <1>4

\* An execution: what it does to itself and to the guard.
LEMMA CronRunStep ==
  ASSUME CronInv, NEW e \in Executions, CronRun(e)
  PROVE  CronInv'
<1> USE DEF CronInv
<1>1. ExecOnly
  BY DEF CronRun, CronTick, TriggerTask, CronJobTrigger, ReadTask, ClaimRun, RunAttempt, AttemptEnds, ReleaseRun
<1>2. PICK x \in [pc : ExecSteps, left : 0..Attempts] :
        /\ exec' = [exec EXCEPT ![e] = x]
        /\ x.pc = "run" => x.left > 0
        /\ \/ x.pc \in Holding /\ exec[e].pc \in Holding /\ guard' = guard
           \/ x.pc \notin Holding /\ exec[e].pc \notin Holding /\ guard' = guard
           \/ x.pc \in Holding /\ ~guard /\ guard' = TRUE
           \/ x.pc \notin Holding /\ exec[e].pc \in Holding /\ guard' = FALSE
  <2> DEFINE Fits(x) ==
        /\ x \in [pc : ExecSteps, left : 0..Attempts]
        /\ exec' = [exec EXCEPT ![e] = x]
        /\ x.pc = "run" => x.left > 0
        /\ \/ x.pc \in Holding /\ exec[e].pc \in Holding /\ guard' = guard
           \/ x.pc \notin Holding /\ exec[e].pc \notin Holding /\ guard' = guard
           \/ x.pc \in Holding /\ ~guard /\ guard' = TRUE
           \/ x.pc \notin Holding /\ exec[e].pc \in Holding /\ guard' = FALSE
  <2>1. CASE CronTick(e) \/ TriggerTask(e) \/ CronJobTrigger(e) \/ ReadTask(e)
    <3>1. PICK p \in {"timed", "manual", "claim", "idle"} :
            exec' = [exec EXCEPT ![e] = [exec[e] EXCEPT !.pc = p]]
      BY <2>1 DEF CronTick, TriggerTask, CronJobTrigger, ReadTask, At
    <3>2. guard' = guard /\ exec[e].pc \in {"idle", "timed", "manual"}
      BY <2>1 DEF CronTick, TriggerTask, CronJobTrigger, ReadTask
    <3>3. Fits([exec[e] EXCEPT !.pc = p])
      BY <3>1, <3>2 DEF CronTypeOK, ExecSteps, Holding
    <3> QED
      BY <3>3
  <2>2. CASE ClaimRun(e)
    <3>1. CASE guard
      <4>1. Idle \in [pc : ExecSteps, left : 0..Attempts]
        BY AttemptsPositive DEF Idle, ExecSteps
      <4>2. Fits(Idle)
        BY <2>2, <3>1, <4>1 DEF ClaimRun, Idle, Holding, CronTypeOK
      <4> QED
        BY <4>2
    <3>2. CASE ~guard
      <4>1. [pc |-> "run", left |-> Attempts] \in [pc : ExecSteps, left : 0..Attempts]
        BY AttemptsPositive DEF ExecSteps
      <4>2. Fits([pc |-> "run", left |-> Attempts])
        BY <2>2, <3>2, <4>1, AttemptsPositive DEF ClaimRun, Holding, CronTypeOK
      <4> QED
        BY <4>2
    <3> QED
      BY <3>1, <3>2
  <2>3. CASE RunAttempt(e)
    <3>1. exec[e].left - 1 \in 0..Attempts
      BY <2>3, AttemptsPositive DEF RunAttempt, CronSound, CronTypeOK
    <3>2. Fits([pc |-> IF ctx = "live" THEN "cmd" ELSE "killed", left |-> exec[e].left - 1])
      BY <2>3, <3>1 DEF RunAttempt, ExecSteps, Holding
    <3> QED
      BY <3>2
  <2>4. CASE AttemptEnds(e)
    <3>1. PICK p \in {"run", "end"} :
            /\ exec' = [exec EXCEPT ![e] = [exec[e] EXCEPT !.pc = p]]
            /\ p = "run" => exec[e].left > 0
      BY <2>4 DEF AttemptEnds, At
    <3>2. guard' = guard /\ exec[e].pc \in {"cmd", "killed"}
      BY <2>4 DEF AttemptEnds
    <3>3. Fits([exec[e] EXCEPT !.pc = p])
      BY <3>1, <3>2 DEF CronTypeOK, ExecSteps, Holding
    <3> QED
      BY <3>3
  <2>5. CASE ReleaseRun(e)
    <3>1. Fits(Idle)
      BY <2>5, AttemptsPositive DEF ReleaseRun, Idle, ExecSteps, Holding
    <3> QED
      BY <3>1
  <2> QED
    BY <2>1, <2>2, <2>3, <2>4, <2>5 DEF CronRun
<1>3. \A d \in Executions : exec'[d] = IF d = e THEN x ELSE exec[d]
  BY <1>2 DEF CronTypeOK
<1>4. CronTypeOK'
  <2>1. exec' \in [Executions -> [pc : ExecSteps, left : 0..Attempts]]
    BY <1>2 DEF CronTypeOK
  <2>2. guard' \in BOOLEAN
    BY <1>2 DEF CronTypeOK
  <2> QED
    BY <1>1, <2>1, <2>2 DEF CronTypeOK, ExecOnly
<1>5. CronSound'
  BY <1>1, <1>2, <1>3 DEF CronSound, ExecOnly
<1>6. GuardHeld'
  BY <1>2, <1>3 DEF GuardHeld
<1>7. CronOneRun'
  <2>1. crossed' = crossed
    BY <1>1 DEF ExecOnly
  <2> QED
    BY <1>2, <1>3, <2>1 DEF CronOneRun
<1>8. CronCalm'
  BY <1>1 DEF CronCalm, ExecOnly, NoRequest, Busy, RequestOn
<1> QED
  BY <1>4, <1>5, <1>6, <1>7, <1>8

\* What a request does to itself, and that it leaves executions alone.
LEMMA CronRequestMoves ==
  ASSUME CronInv, NEW r \in CronReqs, CronRequest(r)
  PROVE  /\ \E p \in ReqSteps : cronReq' = [cronReq EXCEPT ![r] = p]
         /\ entries' \in {entries, Added, Removed}
         /\ task' \in {"unborn", "on", "off", "gone"} /\ crowd' \in BOOLEAN
         /\ UNCHANGED <<boot, subscribed, listed, guard, ctx, exec, starts, crossed>>
<1> USE DEF CronInv, CronTypeOK, ReqSteps, Goto, Enter, addToScheduler, removeFromScheduler, Added, Removed
<1>1. CASE CreateTask(r) \/ CronJobCreate(r) \/ CronJobUpdate(r)
  BY <1>1 DEF CreateTask, CronJobCreate, CronJobUpdate
<1>2. CASE UpdateTask(r)
  <2>1. PICK on \in BOOLEAN : Enter(r, IF on THEN "saveOn" ELSE "saveOff")
    BY <1>2 DEF UpdateTask
  <2>2. cronReq' = [cronReq EXCEPT ![r] = IF on THEN "saveOn" ELSE "saveOff"]
    BY <2>1
  <2>3. crowd' \in BOOLEAN
    BY <2>1 DEF NoRequest, Busy
  <2> QED
    BY <1>2, <2>2, <2>3 DEF UpdateTask
<1>3. CASE UpdateSave(r) \/ UpdateRemove(r) \/ Schedule(r) \/ DeleteRow(r) \/ Reread(r) \/ Reload(r)
  BY <1>3 DEF UpdateSave, UpdateRemove, Schedule, DeleteRow, Reread, Reload
<1>4. CASE DeleteTask(r) \/ CronJobDelete(r)
  BY <1>4 DEF DeleteTask, CronJobDelete
<1> QED
  BY <1>1, <1>2, <1>3, <1>4 DEF CronRequest

\* A request that begins makes a crowd unless it is alone and Start has ended.
LEMMA CronEnters ==
  ASSUME NEW r \in CronReqs, NEW p, Enter(r, p), ~crowd'
  PROVE  ~crowd /\ NoRequest /\ boot \notin Booting
BY DEF Enter

\* Requests that are alone leave entry and row in agreement.
LEMMA CronRequestCalm ==
  ASSUME CronInv, NEW r \in CronReqs, CronRequest(r)
  PROVE  CronCalm'
<1> SUFFICES ASSUME ~crowd'
             PROVE  /\ boot \notin Booting
                    /\ boot = "up" => /\ \A s, q \in CronReqs : Busy(s)' /\ Busy(q)' => s = q
                                      /\ \A s \in CronReqs : RequestOn(s)'
                                      /\ NoRequest' => entries' = EntryFor(task)'
  <2>1. boot' = boot /\ subscribed' = subscribed
    BY CronRequestMoves
  <2> QED
    BY <2>1 DEF CronCalm, CronInv, Booting
<1>1. PICK p \in ReqSteps : cronReq' = [cronReq EXCEPT ![r] = p]
  BY CronRequestMoves
<1>2. \A q \in CronReqs : cronReq'[q] = IF q = r THEN p ELSE cronReq[q]
  BY <1>1 DEF CronInv, CronTypeOK
<1> DEFINE Alone == \A q \in CronReqs \ {r} : cronReq[q] = "idle"
           After == /\ p \in {"saveOn", "saveOff"} => Row(task') /\ entries' = EntryFor(task')
                    /\ p = "removeOn" => task' = "on" /\ entries' \in {NoEntry, OneEntry}
                    /\ p = "removeOff" => task' = "off" /\ entries' \in {NoEntry, OneEntry}
                    /\ p = "add" => task' = "on" /\ entries' = NoEntry
                    /\ p = "reload" => entries' \in {NoEntry, OneEntry}
                    /\ p \in {"drop", "reread"} => entries' = NoEntry
                    /\ p = "idle" => entries' = EntryFor(task')
<1>3. SUFFICES boot \notin Booting /\ (boot = "up" => Alone /\ After)
  BY <1>2 DEF Busy, NoRequest, RequestOn, Row
<1>4. \A x : EntryFor(x) \in {NoEntry, OneEntry}
  BY DEF EntryFor
<1>7. entries \in {NoEntry, OneEntry} => Removed = NoEntry
  <2>1. CASE entries = NoEntry
    <3>1. ~entries.known /\ entries.live = 0
      BY <2>1 DEF NoEntry
    <3> QED
      BY <3>1 DEF NoEntry, Removed
  <2>2. CASE entries = OneEntry
    <3>1. entries.known /\ entries.live - 1 = 0
      BY <2>2 DEF OneEntry
    <3> QED
      BY <3>1 DEF NoEntry, Removed
  <2> QED
    BY <2>1, <2>2
<1>8. entries = NoEntry => Added = OneEntry
  BY DEF NoEntry, OneEntry, Added
<1>5. CASE \/ CreateTask(r) \/ UpdateTask(r) \/ DeleteTask(r)
           \/ CronJobCreate(r) \/ CronJobUpdate(r) \/ CronJobDelete(r)
  <2>1. ~crowd /\ NoRequest /\ boot \notin Booting
    BY <1>5, CronEnters DEF CreateTask, UpdateTask, DeleteTask, CronJobCreate, CronJobUpdate, CronJobDelete
  <2>2. Alone
    BY <2>1 DEF NoRequest, Busy
  <2>3. ASSUME boot = "up" PROVE entries = EntryFor(task) /\ Heard
    BY <2>1, <2>3 DEF CronInv, CronCalm, Heard
  <2>4. ASSUME boot = "up" PROVE After
    <3>1. CASE CreateTask(r) \/ CronJobCreate(r) \/ CronJobUpdate(r)
      BY <1>1, <1>4, <2>3, <2>4, <3>1 DEF CreateTask, CronJobCreate, CronJobUpdate, Enter, EntryFor, CronInv, CronTypeOK
    <3>2. CASE UpdateTask(r)
      <4>1. PICK on \in BOOLEAN : Enter(r, IF on THEN "saveOn" ELSE "saveOff")
        BY <3>2 DEF UpdateTask
      <4>2. p \in {"saveOn", "saveOff"}
        BY <1>1, <4>1 DEF Enter, CronInv, CronTypeOK
      <4> QED
        BY <2>3, <2>4, <3>2, <4>2 DEF UpdateTask
    <3>3. CASE DeleteTask(r) \/ CronJobDelete(r)
      <4>1. p = "drop"
        BY <1>1, <3>3 DEF DeleteTask, CronJobDelete, Enter, CronInv, CronTypeOK
      <4>2. entries' = Removed
        BY <2>3, <2>4, <3>3 DEF DeleteTask, CronJobDelete, removeFromScheduler, Removed
      <4> QED
        BY <1>4, <1>7, <2>3, <2>4, <4>1, <4>2
    <3> QED
      BY <1>5, <3>1, <3>2, <3>3
  <2> QED
    BY <2>1, <2>2, <2>4
<1>6. CASE \/ UpdateSave(r) \/ UpdateRemove(r) \/ Schedule(r) \/ DeleteRow(r) \/ Reload(r) \/ Reread(r)
  <2>1. ~crowd /\ cronReq[r] # "idle" /\ boot' = boot
    BY <1>6 DEF UpdateSave, UpdateRemove, Schedule, DeleteRow, Reload, Reread
  <2>2. boot \notin Booting
    BY <2>1 DEF CronInv, CronCalm, NoRequest, Busy
  <2>3. ASSUME boot = "up" PROVE Alone /\ RequestOn(r) /\ Heard
    BY <2>1, <2>3 DEF CronInv, CronCalm, Busy, Heard
  <2>4. ASSUME boot = "up" PROVE After
    <3>1. cronReq'[r] = p
      BY <1>2
    <3>2. CASE UpdateSave(r)
      <4>1. Row(task) /\ entries' = EntryFor(task)
        BY <2>3, <2>4, <3>2 DEF UpdateSave, RequestOn
      <4>2. (p = "removeOn" /\ task' = "on") \/ (p = "removeOff" /\ task' = "off")
        BY <3>1, <3>2, <4>1 DEF UpdateSave, Goto, Row, CronInv, CronTypeOK
      <4> QED
        BY <1>4, <4>1, <4>2
    <3>3. CASE UpdateRemove(r)
      <4>1. entries' = NoEntry /\ task' = task
        BY <1>7, <2>3, <2>4, <3>3 DEF UpdateRemove, removeFromScheduler, Removed, RequestOn
      <4>2. (p = "add" /\ task = "on") \/ (p = "idle" /\ task = "off")
        BY <2>3, <2>4, <3>1, <3>3 DEF UpdateRemove, Goto, RequestOn, CronInv, CronTypeOK
      <4> QED
        BY <4>1, <4>2 DEF EntryFor
    <3>4. CASE Schedule(r)
      <4>1. entries' = OneEntry /\ task' = "on" /\ task = "on"
        BY <1>8, <2>3, <2>4, <3>4 DEF Schedule, addToScheduler, Added, RequestOn
      <4>2. p = "idle"
        BY <3>1, <3>4 DEF Schedule, Goto, CronInv, CronTypeOK
      <4> QED
        BY <4>1, <4>2 DEF EntryFor
    <3>5. CASE DeleteRow(r)
      BY <2>3, <2>4, <3>1, <3>5 DEF DeleteRow, Goto, RequestOn, EntryFor, CronInv, CronTypeOK
    <3>6. CASE Reload(r)
      <4>1. entries' = NoEntry
        BY <1>7, <2>3, <2>4, <3>6 DEF Reload, removeFromScheduler, Removed, RequestOn
      <4>2. p = "reread"
        BY <2>3, <2>4, <3>1, <3>6 DEF Reload, Goto, CronInv, CronTypeOK
      <4> QED
        BY <4>1, <4>2
    <3>7. CASE Reread(r)
      BY <2>3, <2>4, <3>1, <3>7 DEF Reread, Goto, RequestOn, EntryFor, CronInv, CronTypeOK
    <3> QED
      BY <1>6, <3>2, <3>3, <3>4, <3>5, <3>6, <3>7
  <2> QED
    BY <2>2, <2>3, <2>4
<1> QED
  BY <1>5, <1>6 DEF CronRequest

\* A step of a request keeps the invariant, whether it is alone or in a crowd.
LEMMA CronRequestStep ==
  ASSUME CronInv, NEW r \in CronReqs, CronRequest(r)
  PROVE  CronInv'
<1>1. PICK p \in ReqSteps : cronReq' = [cronReq EXCEPT ![r] = p]
  BY CronRequestMoves
<1>2. entries' \in EntryState /\ (entries'.known => entries'.live > 0)
  BY EntriesSound, CronRequestMoves DEF CronInv, CronTypeOK, CronSound, EntryState
<1>3. /\ task' \in {"unborn", "on", "off", "gone"} /\ crowd' \in BOOLEAN
      /\ UNCHANGED <<boot, subscribed, listed, guard, ctx, exec, starts, crossed>>
  BY CronRequestMoves
<1>4. CronTypeOK'
  BY <1>1, <1>2, <1>3 DEF CronTypeOK, CronInv, EntryState
<1>5. CronSound' /\ GuardHeld' /\ CronOneRun'
  BY <1>2, <1>3 DEF CronInv, CronSound, GuardHeld, CronOneRun
<1> QED
  BY <1>4, <1>5, CronRequestCalm DEF CronInv

\* Every step does, for whatever part of the requests and executions moves.
LEMMA CronInvStep ==
  ASSUME NEW R \in SUBSET CronReqs, NEW E \in SUBSET Executions, CronInv, CronNextOf(R, E)
  PROVE  CronInv'
BY CronSteps, CronAfterCrash, CronLifeStep, CronRunStep, CronRequestStep DEF CronInv

-----------------------------------------------------------------------------
(* The deploy plugin's jobs (DeployCron).                                  *)

\* Entries that RemoveJob cannot find any more: at most one for each start but the first.
Orphans == IF jobEntry.known THEN jobEntry.live - 1 ELSE jobEntry.live

JobsCounted ==
  /\ jobEntry.known => jobEntry.live > 0
  /\ jobStarts = 0 => /\ job = "unborn" /\ ~jobUp /\ ~jobLoad /\ Orphans = 0
                      /\ \A r \in JobReqs : jobReq[r] = "idle"
  /\ jobStarts > 0 => Orphans + (IF jobLoad THEN 1 ELSE 0) < jobStarts

JobCalm ==
  ~jobCrowd =>
    /\ jobLoad => job = "on"
    /\ JobQuiet => (jobEntry.known <=> job = "on")
    /\ \A r \in JobReqs : jobReq[r] # "idle" => ~jobLoad
    /\ \A r, q \in JobReqs : jobReq[r] # "idle" /\ jobReq[q] # "idle" => r = q
    /\ \A r \in JobReqs :
         /\ jobReq[r] = "addOn" => job = "on"
         /\ jobReq[r] = "addOff" => job = "off"
         /\ jobReq[r] = "read" => JobRow
         /\ jobReq[r] = "remove" => job = "gone"
         /\ jobReq[r] = "forget" => ~jobEntry.known

JobInv == JobTypeOK /\ JobsCounted /\ JobCalm

EntryCount == [live : Nat, known : BOOLEAN]
OrphansOf(e) == IF e.known THEN e.live - 1 ELSE e.live

\* Adding and removing leaves the orphans as they are; adding without removing makes one of the
\* entry that the map knew.
LEMMA JobEntries ==
  ASSUME NEW e \in EntryCount, e.known => e.live > 0, NEW on \in BOOLEAN
  PROVE  /\ RemoveJob(e) \in EntryCount /\ ~RemoveJob(e).known /\ RemoveJob(e).live = OrphansOf(e)
         /\ AddJob(e, on) \in EntryCount /\ (AddJob(e, on).known <=> on)
         /\ on => AddJob(e, on).live = OrphansOf(e) + 1
         /\ ~on => AddJob(e, on).live = OrphansOf(e)
         /\ addJob(e) \in EntryCount /\ addJob(e).known /\ addJob(e).live = e.live + 1
<1>1. OrphansOf(e) \in Nat
  BY DEF EntryCount, OrphansOf
<1>2. RemoveJob(e) = [live |-> OrphansOf(e), known |-> FALSE]
  BY DEF RemoveJob, OrphansOf
<1>3. addJob(e) = [live |-> e.live + 1, known |-> TRUE] /\ e.live + 1 \in Nat
  BY DEF addJob, EntryCount
<1>4. on => AddJob(e, on) = [live |-> OrphansOf(e) + 1, known |-> TRUE]
  BY <1>2 DEF AddJob, addJob
<1>5. ~on => AddJob(e, on) = RemoveJob(e)
  BY DEF AddJob
<1>6. [live |-> OrphansOf(e), known |-> FALSE] \in EntryCount
  BY <1>1 DEF EntryCount
<1>7. [live |-> OrphansOf(e) + 1, known |-> TRUE] \in EntryCount
  BY <1>1 DEF EntryCount
<1>8. addJob(e) \in EntryCount
  BY <1>3 DEF EntryCount
<1>9. /\ RemoveJob(e) \in EntryCount /\ ~RemoveJob(e).known /\ RemoveJob(e).live = OrphansOf(e)
      /\ addJob(e).known /\ addJob(e).live = e.live + 1
  <2>1. RemoveJob(e) \in EntryCount
    BY <1>2, <1>6
  <2>2. ~RemoveJob(e).known /\ RemoveJob(e).live = OrphansOf(e)
    BY <1>2
  <2>3. addJob(e).known /\ addJob(e).live = e.live + 1
    BY <1>3
  <2> QED
    BY <2>1, <2>2, <2>3
<1>10. CASE on
  <2>1. AddJob(e, on) \in EntryCount
    BY <1>4, <1>7, <1>10
  <2>2. \A a : a = [live |-> OrphansOf(e) + 1, known |-> TRUE] => a.known /\ a.live = OrphansOf(e) + 1
    BY <1>1
  <2>3. AddJob(e, on).known /\ AddJob(e, on).live = OrphansOf(e) + 1
    BY <1>4, <1>10, <2>2, Zenon
  <2> QED
    BY <1>8, <1>9, <1>10, <2>1, <2>3
<1>11. CASE ~on
  BY <1>5, <1>8, <1>9, <1>11
<1> QED
  BY <1>10, <1>11

\* No job, no entry and no request before the first start.
LEMMA JobInvInit == JobInit => JobInv
<1> SUFFICES ASSUME JobInit PROVE JobInv
  OBVIOUS
<1>1. jobEntry \in [live : 0..MaxJobStarts + 2, known : BOOLEAN] /\ jobStarts \in 0..MaxJobStarts
  <2>1. 0 \in 0..MaxJobStarts + 2 /\ 0 \in 0..MaxJobStarts
    BY JobAssumption
  <2> QED
    BY <2>1 DEF JobInit
<1>2. JobTypeOK
  BY <1>1 DEF JobInit, JobTypeOK
<1>3. JobsCounted /\ JobCalm
  BY DEF JobInit, JobsCounted, JobCalm, Orphans, JobRow
<1> QED
  BY <1>2, <1>3 DEF JobInv

\* The entries stay as few as the counts say they are, so that they keep their type.
LEMMA JobEntryType ==
  ASSUME JobsCounted, jobEntry \in EntryCount, jobStarts \in 0..MaxJobStarts
  PROVE  jobEntry \in [live : 0..MaxJobStarts + 2, known : BOOLEAN]
<1>1. Orphans \in Nat /\ Orphans <= jobStarts /\ jobEntry.live <= Orphans + 1
  BY JobAssumption DEF JobsCounted, Orphans, EntryCount
<1>2. jobEntry.live \in 0..MaxJobStarts + 2
  BY <1>1, JobAssumption DEF EntryCount
<1> QED
  BY <1>2 DEF EntryCount

\* A step that starts nothing and makes no orphan.
LEMMA JobCountsKept ==
  ASSUME JobInv, jobEntry' \in EntryCount, jobEntry'.known => jobEntry'.live > 0,
         OrphansOf(jobEntry') = OrphansOf(jobEntry), UNCHANGED <<jobStarts, jobLoad>>,
         jobStarts = 0 => UNCHANGED <<job, jobUp, jobReq>>
  PROVE  JobsCounted' /\ jobEntry' \in [live : 0..MaxJobStarts + 2, known : BOOLEAN]
<1>1. JobsCounted'
  <2>1. Orphans' = Orphans
    BY DEF Orphans, OrphansOf
  <2> QED
    BY <2>1 DEF JobInv, JobsCounted
<1>2. jobStarts' \in 0..MaxJobStarts
  BY DEF JobInv, JobTypeOK
<1>3. jobEntry' \in [live : 0..MaxJobStarts + 2, known : BOOLEAN]
  <2>1. (JobsCounted /\ jobEntry \in EntryCount /\ jobStarts \in 0..MaxJobStarts
          => jobEntry \in [live : 0..MaxJobStarts + 2, known : BOOLEAN])'
    BY JobEntryType, PTL
  <2> QED
    BY <1>1, <1>2, <2>1
<1> QED
  BY <1>1, <1>3

\* Start counts, and may find an entry that nobody can remove any more.
LEMMA JobStartStep == JobInv /\ JobStart => JobInv'
<1> SUFFICES ASSUME JobInv, JobStart PROVE JobInv'
  OBVIOUS
<1> USE DEF JobInv
<1>1. JobTypeOK'
  <2>1. jobStarts' \in 0..MaxJobStarts
    BY JobAssumption DEF JobStart, JobTypeOK
  <2>2. jobLoad' \in BOOLEAN /\ jobUp' \in BOOLEAN /\ jobCrowd' \in BOOLEAN
    BY DEF JobStart, JobTypeOK, JobQuiet
  <2> QED
    BY <2>1, <2>2 DEF JobStart, JobTypeOK
<1>2. JobsCounted'
  <2>1. jobStarts \in Nat /\ Orphans \in Nat /\ Orphans' = Orphans /\ jobStarts' = jobStarts + 1
    BY JobAssumption DEF JobStart, JobTypeOK, JobsCounted, Orphans
  <2>2. jobLoad' => job = "on"
    BY DEF JobStart
  <2> QED
    BY <2>1, <2>2 DEF JobStart, JobsCounted
<1>3. JobCalm'
  BY DEF JobStart, JobCalm, JobQuiet, JobRow, JobTypeOK
<1> QED
  BY <1>1, <1>2, <1>3

\* The jobs that Start read are given to the scheduler.
LEMMA JobLoadStep == JobInv /\ JobLoad => JobInv'
<1> SUFFICES ASSUME JobInv, JobLoad PROVE JobInv'
  OBVIOUS
<1> USE DEF JobInv
<1>1. jobEntry \in EntryCount
  BY JobAssumption DEF JobTypeOK, EntryCount
<1>2. jobEntry' \in EntryCount /\ jobEntry'.known /\ jobEntry'.live = jobEntry.live + 1
  BY <1>1, JobEntries DEF JobLoad, JobsCounted
<1>3. JobsCounted'
  <2>1. jobStarts' = jobStarts /\ jobLoad /\ ~jobLoad'
    BY DEF JobLoad
  <2>2. jobStarts > 0 /\ Orphans + 1 < jobStarts /\ Orphans \in Nat /\ jobStarts \in Nat
    BY <1>1, <2>1, JobAssumption DEF JobsCounted, JobTypeOK, Orphans, EntryCount
  <2>3. Orphans' = jobEntry.live /\ jobEntry.live <= Orphans + 1
    BY <1>1, <1>2 DEF Orphans, EntryCount
  <2> QED
    BY <1>1, <1>2, <2>1, <2>2, <2>3 DEF JobsCounted, EntryCount
<1>4. JobTypeOK'
  <2>1. jobStarts' \in 0..MaxJobStarts
    BY DEF JobLoad, JobTypeOK
  <2>2. (JobsCounted /\ jobEntry \in EntryCount /\ jobStarts \in 0..MaxJobStarts
          => jobEntry \in [live : 0..MaxJobStarts + 2, known : BOOLEAN])'
    BY JobEntryType, PTL
  <2> QED
    BY <1>2, <1>3, <2>1, <2>2 DEF JobLoad, JobTypeOK
<1>5. JobCalm'
  BY <1>2 DEF JobLoad, JobCalm, JobQuiet, JobRow
<1> QED
  BY <1>3, <1>4, <1>5

\* What a request does to the job and the entries.
JobRequest(r) ==
  \/ CreateCronJob(r) \/ UpdateCronJob(r) \/ ReadJobBack(r) \/ RegisterJob(r)
  \/ DeleteCronJob(r) \/ DeleteProjectJobs(r) \/ FinishJobRequest(r)

\* A request on a job writes the row and tells the scheduler.
LEMMA JobRequestStep ==
  ASSUME JobInv, NEW r \in JobReqs, JobRequest(r)
  PROVE  JobInv'
<1> USE DEF JobInv
<1>0. jobEntry \in EntryCount /\ (jobEntry.known => jobEntry.live > 0)
  BY JobAssumption DEF JobTypeOK, EntryCount, JobsCounted
<1>1. UNCHANGED <<jobUp, jobLoad, jobRun, jobStarts>>
  BY DEF JobRequest, CreateCronJob, UpdateCronJob, ReadJobBack, RegisterJob, DeleteCronJob,
         DeleteProjectJobs, FinishJobRequest
<1>2. PICK p \in {"idle", "addOn", "addOff", "read", "remove", "forget"} : jobReq' = [jobReq EXCEPT ![r] = p]
  BY DEF JobRequest, CreateCronJob, UpdateCronJob, ReadJobBack, RegisterJob, DeleteCronJob,
         DeleteProjectJobs, FinishJobRequest, EnterJob
<1>3. \A q \in JobReqs : jobReq'[q] = IF q = r THEN p ELSE jobReq[q]
  BY <1>2 DEF JobTypeOK
<1>4. jobEntry' = jobEntry \/ jobEntry' = RemoveJob(jobEntry) \/ \E on \in BOOLEAN : jobEntry' = AddJob(jobEntry, on)
  BY DEF JobRequest, CreateCronJob, UpdateCronJob, ReadJobBack, RegisterJob, DeleteCronJob,
         DeleteProjectJobs, FinishJobRequest
<1>5. /\ jobEntry' \in EntryCount /\ (jobEntry'.known => jobEntry'.live > 0)
      /\ OrphansOf(jobEntry') = OrphansOf(jobEntry)
  <2>1. CASE jobEntry' = jobEntry
    BY <1>0, <2>1
  <2>2. CASE jobEntry' = RemoveJob(jobEntry)
    BY <1>0, <2>2, JobEntries DEF OrphansOf
  <2>3. ASSUME NEW on \in BOOLEAN, jobEntry' = AddJob(jobEntry, on)
        PROVE  /\ jobEntry' \in EntryCount /\ (jobEntry'.known => jobEntry'.live > 0)
               /\ OrphansOf(jobEntry') = OrphansOf(jobEntry)
    <3>1. OrphansOf(jobEntry) \in Nat
      BY <1>0 DEF EntryCount, OrphansOf
    <3> QED
      BY <1>0, <2>3, <3>1, JobEntries DEF OrphansOf
  <2> QED
    BY <1>4, <2>1, <2>2, <2>3
<1>6. jobStarts # 0
  BY DEF JobsCounted, JobRequest, CreateCronJob, UpdateCronJob, ReadJobBack, RegisterJob, DeleteCronJob,
         DeleteProjectJobs, FinishJobRequest, EnterJob
<1>7. JobsCounted' /\ jobEntry' \in [live : 0..MaxJobStarts + 2, known : BOOLEAN]
  BY <1>1, <1>5, <1>6, JobCountsKept
<1>8. JobTypeOK'
  <2>1. job' \in {"unborn", "on", "off", "gone"} /\ jobCrowd' \in BOOLEAN
    BY DEF JobRequest, CreateCronJob, UpdateCronJob, ReadJobBack, RegisterJob, DeleteCronJob,
           DeleteProjectJobs, FinishJobRequest, EnterJob, JobTypeOK, JobQuiet
  <2> QED
    BY <1>1, <1>2, <1>7, <2>1 DEF JobTypeOK
<1>9. JobCalm'
  <2> DEFINE Done == /\ ~jobLoad
                     /\ \A q \in JobReqs \ {r} : jobReq[q] = "idle"
                     /\ p = "addOn" => job' = "on"
                     /\ p = "addOff" => job' = "off"
                     /\ p = "read" => job' \in {"on", "off"}
                     /\ p = "remove" => job' = "gone"
                     /\ p = "forget" => ~jobEntry'.known
                     /\ p = "idle" => (jobEntry'.known <=> job' = "on")
  <2> SUFFICES ASSUME ~jobCrowd' PROVE Done
    BY <1>1, <1>3 DEF JobCalm, JobQuiet, JobRow
  <2>0. jobReq'[r] = p
    BY <1>3
  <2>1. CASE CreateCronJob(r) \/ UpdateCronJob(r) \/ DeleteCronJob(r) \/ DeleteProjectJobs(r)
    <3>1. ~jobCrowd /\ JobQuiet
      BY <2>1 DEF CreateCronJob, UpdateCronJob, DeleteCronJob, DeleteProjectJobs, EnterJob
    <3>2. ~jobLoad /\ \A q \in JobReqs : jobReq[q] = "idle"
      BY <3>1 DEF JobQuiet
    <3>3. CASE CreateCronJob(r) \/ UpdateCronJob(r) \/ DeleteCronJob(r)
      BY <2>0, <3>2, <3>3 DEF CreateCronJob, UpdateCronJob, DeleteCronJob, EnterJob, JobTypeOK
    <3>4. CASE DeleteProjectJobs(r)
      <4>1. p = "forget" /\ ~jobEntry'.known
        BY <1>0, <2>0, <3>4, JobEntries DEF DeleteProjectJobs, EnterJob, JobTypeOK
      <4> QED
        BY <3>2, <4>1
    <3> QED
      BY <2>1, <3>3, <3>4
  <2>2. CASE ReadJobBack(r) \/ RegisterJob(r) \/ FinishJobRequest(r)
    <3>1. ~jobCrowd /\ jobReq[r] # "idle"
      BY <2>2 DEF ReadJobBack, RegisterJob, FinishJobRequest
    <3>2. ~jobLoad /\ \A q \in JobReqs \ {r} : jobReq[q] = "idle"
      BY <3>1 DEF JobCalm
    <3>3. CASE ReadJobBack(r)
      <4>1. p = IF job = "on" THEN "addOn" ELSE "addOff"
        BY <2>0, <3>1, <3>3 DEF ReadJobBack, JobCalm, JobRow, JobTypeOK
      <4> QED
        BY <3>1, <3>2, <3>3, <4>1 DEF ReadJobBack, JobCalm, JobRow
    <3>4. CASE RegisterJob(r)
      <4>1. p = "idle" /\ job' = job /\ jobReq[r] \in {"addOn", "addOff"}
        BY <2>0, <3>4 DEF RegisterJob, JobTypeOK
      <4>2. jobEntry'.known <=> jobReq[r] = "addOn"
        <5>1. PICK on \in BOOLEAN : jobEntry' = AddJob(jobEntry, on) /\ (on <=> jobReq[r] = "addOn")
          BY <3>4 DEF RegisterJob
        <5> QED
          BY <1>0, <5>1, JobEntries
      <4> QED
        BY <3>1, <3>2, <4>1, <4>2 DEF JobCalm
    <3>5. CASE FinishJobRequest(r)
      <4>1. p = "idle"
        BY <2>0, <3>5 DEF FinishJobRequest, JobTypeOK
      <4>2. ~RemoveJob(jobEntry).known
        BY <1>0, JobEntries
      <4> QED
        BY <3>1, <3>2, <3>5, <4>1, <4>2 DEF FinishJobRequest, JobCalm
    <3> QED
      BY <2>2, <3>3, <3>4, <3>5
  <2> QED
    BY <2>1, <2>2 DEF JobRequest
<1> QED
  BY <1>7, <1>8, <1>9

\* Every step of the jobs keeps the invariant.
LEMMA JobInvStep == JobInv /\ JobNext => JobInv'
<1> SUFFICES ASSUME JobInv, JobNext PROVE JobInv'
  OBVIOUS
<1>1. CASE JobStop
  <2>1. UNCHANGED <<job, jobLoad, jobEntry, jobReq, jobRun, jobStarts, jobCrowd>> /\ jobUp' = FALSE
    BY <1>1 DEF JobStop
  <2>2. JobTypeOK' /\ JobCalm'
    BY <2>1 DEF JobInv, JobTypeOK, JobCalm, JobQuiet, JobRow
  <2>3. JobsCounted'
    BY <2>1 DEF JobInv, JobsCounted, Orphans
  <2> QED
    BY <2>2, <2>3 DEF JobInv
<1>2. ASSUME NEW x \in JobRuns, JobTick(x) \/ executeJob(x) PROVE JobInv'
  <2>1. UNCHANGED <<job, jobUp, jobLoad, jobEntry, jobReq, jobStarts, jobCrowd>>
    BY <1>2 DEF JobTick, executeJob
  <2>2. jobRun' \in [JobRuns -> {"idle", "read", "cmd"}]
    BY <1>2 DEF JobTick, executeJob, JobInv, JobTypeOK
  <2> QED
    BY <2>1, <2>2 DEF JobInv, JobTypeOK, JobsCounted, Orphans, JobCalm, JobQuiet, JobRow
<1>3. ASSUME NEW r \in JobReqs, JobRequest(r) PROVE JobInv'
  BY <1>3, JobRequestStep
<1> QED
  BY <1>1, <1>2, <1>3, JobStartStep, JobLoadStep DEF JobNext, JobRequest

\* The entries are what the job's row asks for.
LEMMA JobsMatch == JobInv => JobEntriesMatch
<1> SUFFICES ASSUME JobInv, jobUp, JobQuiet, ~jobCrowd
             PROVE  IF job = "on" THEN jobEntry.known /\ jobEntry.live \in 1..jobStarts
                                  ELSE ~jobEntry.known /\ jobEntry.live < jobStarts
  BY DEF JobEntriesMatch
<1>1. jobEntry.known <=> job = "on"
  BY DEF JobInv, JobCalm
<1>2. jobStarts > 0 /\ jobStarts \in Nat /\ ~jobLoad /\ Orphans < jobStarts
  <2>1. Orphans \in Nat /\ jobStarts \in Nat
    BY JobAssumption DEF JobInv, JobTypeOK, JobsCounted, Orphans
  <2>2. jobStarts # 0
    BY DEF JobInv, JobsCounted
  <2> QED
    BY <2>1, <2>2 DEF JobInv, JobsCounted, JobQuiet
<1>3. jobEntry.live \in Nat
  BY DEF JobInv, JobTypeOK
<1> QED
  BY <1>1, <1>2, <1>3 DEF JobInv, JobsCounted, Orphans

-----------------------------------------------------------------------------
(* The crontab.                                                            *)

\* One save at a time has the lock, and what it is about to replace is the file its user has seen.
SavesAlone ==
  /\ \A u, v \in CrontabUsers : saver[u] # "idle" /\ saver[v] # "idle" => u = v
  /\ \A u \in CrontabUsers : saver[u] # "idle" => page[u] \in Files
  /\ locked <=> \E u \in CrontabUsers : saver[u] # "idle"

SeenBefore == \A u \in CrontabUsers : saver[u] = "install" => page[u] = crontab \/ slipped

CrontabInv == CrontabTypeOK /\ SavesAlone /\ SeenBefore

\* Nobody saves when the panel starts.
LEMMA CrontabInvInit == CrontabInit => CrontabInv
<1> SUFFICES ASSUME CrontabInit PROVE CrontabInv
  OBVIOUS
<1>1. crontab \in Files
  BY DEF CrontabInit, Files, Lines
<1>2. edits \in 0..MaxEdits
  BY CrontabAssumption DEF CrontabInit
<1>3. CrontabTypeOK
  BY <1>1, <1>2 DEF CrontabInit, CrontabTypeOK
<1> QED
  BY <1>3 DEF CrontabInit, CrontabInv, SavesAlone, SeenBefore

\* A page, once it was loaded, holds a file; a save works under the lock.
LEMMA CrontabInvStep == CrontabInv /\ CrontabNext => CrontabInv'
<1> SUFFICES ASSUME CrontabInv, CrontabNext PROVE CrontabInv'
  OBVIOUS
<1> USE DEF CrontabInv, CrontabTypeOK
<1>1. ASSUME NEW u \in CrontabUsers, GetCrontab(u) PROVE CrontabInv'
  BY <1>1 DEF GetCrontab, SavesAlone, SeenBefore
<1>2. ASSUME NEW u \in CrontabUsers, SaveCrontab(u) PROVE CrontabInv'
  BY <1>2 DEF SaveCrontab, SavesAlone, SeenBefore
<1>3. ASSUME NEW u \in CrontabUsers, CompareHash(u) PROVE CrontabInv'
  <2>1. CASE crontab = page[u]
    BY <1>3, <2>1 DEF CompareHash, SavesAlone, SeenBefore
  <2>2. CASE crontab # page[u]
    BY <1>3, <2>2 DEF CompareHash, SavesAlone, SeenBefore
  <2> QED
    BY <2>1, <2>2
<1>4. ASSUME NEW u \in CrontabUsers, InstallCrontab(u) PROVE CrontabInv'
  <2>1. /\ saver[u] = "install" /\ saver' = [saver EXCEPT ![u] = "idle"] /\ locked' = FALSE
        /\ UNCHANGED <<slipped, edits>>
    BY <1>4 DEF InstallCrontab
  <2>2. crontab' \in Files /\ page' \in [CrontabUsers -> Files \cup {NoPage}]
    <3>1. PICK lines \in SUBSET (parseCrontab(page[u]) \cup {"job", "paused"}) :
            IF buildable(lines) THEN crontab' = lines /\ page' = [page EXCEPT ![u] = lines]
            ELSE UNCHANGED <<crontab, page>>
      BY <1>4 DEF InstallCrontab
    <3>2. page[u] \in Files
      BY <2>1 DEF SavesAlone
    <3>3. lines \in Files
      BY <3>1, <3>2 DEF parseCrontab, Files, Lines
    <3> QED
      BY <3>1, <3>3
  <2>3. \A v \in CrontabUsers : saver'[v] = "idle"
    BY <2>1 DEF SavesAlone
  <2> QED
    BY <2>1, <2>2, <2>3 DEF SavesAlone, SeenBefore
<1>5. CASE EditOutside
  <2>1. edits' \in 0..MaxEdits
    BY <1>5, CrontabAssumption DEF EditOutside
  <2> QED
    BY <1>5, <2>1 DEF EditOutside, SavesAlone, SeenBefore
<1> QED
  BY <1>1, <1>2, <1>3, <1>4, <1>5 DEF CrontabNext

\* A step that ends a save of a file that changes replaces one that its user has seen.
LEMMA SeenStep ==
  ASSUME CrontabInv, NEW u \in CrontabUsers, saver[u] = "install"
  PROVE  page[u] = crontab \/ slipped
BY DEF CrontabInv, SeenBefore

-----------------------------------------------------------------------------
(* Extra processes.                                                        *)

\* What a build has read of the row is what the row still says, without a request meanwhile.
ReadIsCurrent ==
  starting # NoRow /\ ~overlap => extra.exists /\ starting.name = extra.name /\ starting.n = extra.n

ExtraInv == ExtraTypeOK /\ ReadIsCurrent /\ ExtrasBelong

ExtraRow == [exists : BOOLEAN, name : ExtraNames, n : 1..MaxInstances, enabled : BOOLEAN]
ReadRow == [name : ExtraNames, n : 1..MaxInstances]

\* The instances of a row that is one of the states it can be in.
LEMMA InstancesTyped ==
  ASSUME NEW p, p.name \in ExtraNames, p.n \in 1..MaxInstances
  PROVE  InstancesOf(p) \subseteq Instance
BY ExtraAssumption DEF InstancesOf, Instance

\* No row, no instance.
LEMMA ExtraInvInit == ExtraInit => ExtraInv
<1> SUFFICES ASSUME ExtraInit PROVE ExtraInv
  OBVIOUS
<1>1. extra \in ExtraRow
  BY DEF ExtraInit, ExtraRow
<1>2. ExtraTypeOK
  BY <1>1 DEF ExtraInit, ExtraTypeOK, ExtraRow
<1> QED
  BY <1>2 DEF ExtraInit, ExtraInv, ReadIsCurrent, ExtrasBelong

\* The requests of a user: the row changes, or its instances go or run again.
LEMMA ExtraRequestStep ==
  ASSUME ExtraInv, CreateExtraProcess \/ UpdateExtraProcess \/ DeleteExtraProcess \/ RestartExtraProcess
  PROVE  ExtraInv'
<1> USE DEF ExtraInv
<1>0. extra \in ExtraRow /\ InstancesOf(extra) \subseteq Instance
  <2>1. extra \in ExtraRow
    BY DEF ExtraTypeOK, ExtraRow
  <2> QED
    BY <2>1, InstancesTyped DEF ExtraRow
<1>1. overlap' \in BOOLEAN /\ (~overlap' => ~overlap /\ starting = NoRow) /\ starting' = starting
  BY DEF CreateExtraProcess, UpdateExtraProcess, DeleteExtraProcess, RestartExtraProcess, Overlaps, ExtraTypeOK
<1>2. ReadIsCurrent'
  BY <1>1 DEF ReadIsCurrent
<1>3. CASE CreateExtraProcess
  <2>1. PICK name \in ExtraNames, n \in 1..MaxInstances :
          extra' = [exists |-> TRUE, name |-> name, n |-> n, enabled |-> TRUE]
    BY <1>3 DEF CreateExtraProcess
  <2>2. extra' \in ExtraRow
    BY <2>1 DEF ExtraRow
  <2>3. altered' = (units # {}) /\ UNCHANGED <<units, up>>
    BY <1>3 DEF CreateExtraProcess
  <2>4. altered' \in BOOLEAN
    BY <2>3
  <2>5. ExtraTypeOK'
    BY <1>1, <2>2, <2>3, <2>4 DEF ExtraTypeOK, ExtraRow
  <2>6. ExtrasBelong'
    BY <2>3 DEF ExtrasBelong
  <2> QED
    BY <1>2, <2>5, <2>6
<1>4. CASE UpdateExtraProcess
  <2>1. PICK name \in ExtraNames, n \in 1..MaxInstances, on \in BOOLEAN :
          /\ extra' = [extra EXCEPT !.name = name, !.n = n, !.enabled = on]
          /\ altered' = (altered \/ ~(units \subseteq InstancesOf(extra')))
    BY <1>4 DEF UpdateExtraProcess
  <2>2. extra' \in ExtraRow /\ extra'.exists
    BY <1>0, <1>4, <2>1 DEF ExtraRow, UpdateExtraProcess
  <2>3. UNCHANGED <<units, up>>
    BY <1>4 DEF UpdateExtraProcess
  <2>4. altered' \in BOOLEAN /\ (~altered' => units \subseteq InstancesOf(extra'))
    BY <2>1 DEF ExtraTypeOK
  <2>5. ExtraTypeOK'
    BY <1>1, <2>2, <2>3, <2>4 DEF ExtraTypeOK, ExtraRow
  <2>6. ExtrasBelong'
    BY <2>2, <2>3, <2>4 DEF ExtrasBelong
  <2> QED
    BY <1>2, <2>5, <2>6
<1>5. CASE DeleteExtraProcess
  <2>1. /\ units' = units \ InstancesOf(extra) /\ up' = up \ InstancesOf(extra)
        /\ extra' = [extra EXCEPT !.exists = FALSE] /\ altered' = altered /\ extra.exists
    BY <1>5 DEF DeleteExtraProcess
  <2>2. extra' \in ExtraRow /\ ~extra'.exists
    BY <1>0, <2>1 DEF ExtraRow
  <2>3. ExtraTypeOK'
    BY <1>1, <2>1, <2>2 DEF ExtraTypeOK, ExtraRow
  <2>4. ExtrasBelong'
    BY <1>1, <2>1, <2>2 DEF ExtrasBelong
  <2> QED
    BY <1>2, <2>3, <2>4
<1>6. CASE RestartExtraProcess
  <2>1. up' = up \cup {x \in InstancesOf(extra) : \A i \in 1..x[2] : <<extra.name, i>> \in units}
        /\ UNCHANGED <<extra, units, altered>>
    BY <1>6 DEF RestartExtraProcess
  <2>2. ASSUME NEW x \in InstancesOf(extra), \A i \in 1..x[2] : <<extra.name, i>> \in units PROVE x \in units
    <3>1. PICK i \in 1..extra.n : x = <<extra.name, i>>
      BY DEF InstancesOf
    <3>2. x[2] = i /\ i \in 1..i
      BY <1>0, <3>1 DEF ExtraRow
    <3> QED
      BY <2>2, <3>1, <3>2
  <2>3. ExtraTypeOK'
    BY <1>1, <2>1, <2>2 DEF ExtraTypeOK
  <2>4. ExtrasBelong'
    BY <1>1, <2>1 DEF ExtrasBelong
  <2> QED
    BY <1>2, <2>3, <2>4
<1> QED
  BY <1>3, <1>4, <1>5, <1>6

\* A build starts the instances of the row it has read.
LEMMA ExtraBuildStep ==
  ASSUME ExtraInv, StartExtraProcesses \/ RunExtraProcess \/ InstallExtraProcess
  PROVE  ExtraInv'
<1> USE DEF ExtraInv
<1>1. CASE StartExtraProcesses
  <2>1. /\ extra.exists /\ starting = NoRow /\ starting' = [name |-> extra.name, n |-> extra.n]
        /\ UNCHANGED <<extra, units, up, altered, overlap>>
    BY <1>1 DEF StartExtraProcesses
  <2>2. starting' \in ReadRow /\ starting'.name = extra.name /\ starting'.n = extra.n
    BY <2>1 DEF ExtraTypeOK, ReadRow
  <2>3. ExtraTypeOK' /\ ExtrasBelong'
    BY <2>1, <2>2 DEF ExtraTypeOK, ReadRow, ExtrasBelong
  <2>4. ReadIsCurrent'
    BY <2>1, <2>2 DEF ReadIsCurrent
  <2> QED
    BY <2>3, <2>4
<1>2. CASE RunExtraProcess \/ InstallExtraProcess
  <2>1. starting # NoRow /\ starting' = NoRow /\ UNCHANGED <<extra, altered, overlap>>
    BY <1>2 DEF RunExtraProcess, InstallExtraProcess
  <2>2. starting \in ReadRow
    BY <2>1 DEF ExtraTypeOK, ReadRow
  <2>3. InstancesOf(starting) \subseteq Instance
    BY <2>2, InstancesTyped DEF ReadRow
  <2>4. units' \subseteq units \cup InstancesOf(starting) /\ up' \subseteq units'
    <3>1. CASE RunExtraProcess
      BY <3>1 DEF RunExtraProcess, ExtraTypeOK
    <3>2. CASE InstallExtraProcess
      BY <3>2 DEF InstallExtraProcess, ExtraTypeOK
    <3> QED
      BY <1>2, <3>1, <3>2
  <2>5. ExtraTypeOK' /\ ReadIsCurrent'
    BY <2>1, <2>3, <2>4 DEF ExtraTypeOK, ReadIsCurrent
  <2>6. ExtrasBelong'
    <3>1. ~overlap => extra.exists /\ InstancesOf(starting) = InstancesOf(extra)
      BY <2>1 DEF ReadIsCurrent, InstancesOf
    <3> QED
      BY <2>1, <2>4, <3>1 DEF ExtrasBelong
  <2> QED
    BY <2>5, <2>6
<1> QED
  BY <1>1, <1>2

\* Requests and builds.
LEMMA ExtraInvStep == ExtraInv /\ ExtraNext => ExtraInv'
BY ExtraRequestStep, ExtraBuildStep DEF ExtraNext

-----------------------------------------------------------------------------
(* Backups.                                                                *)

\* A request that is alone wrote the flag it is yet to give the scheduler. The entry and the
\* flag agree otherwise, except that a restart of the panel forgets the entry until Start.
ScheduleCalm ==
  ~raced =>
    /\ \A r, q \in ConfigReqs : change[r] # "idle" /\ change[q] # "idle" => r = q
    /\ \A r \in ConfigReqs : (change[r] = "on" => cfg.on) /\ (change[r] = "off" => ~cfg.on)
    /\ (\A r \in ConfigReqs : change[r] \in {"idle", "same"}) =>
         IF sched.up THEN sched.entry <=> cfg.on ELSE sched.entry => cfg.on

\* Where a backup in progress finds its repository and its files.
BackupPlaces ==
  \A b \in Backup :
    /\ bak[b].pc = "open" => bak[b].target \in Targets
    /\ bak[b].pc \in {"mark", "stage", "collect", "snapshot"} => conn = bak[b].target \/ b \in moved
    /\ bak[b].pc \in {"collect", "snapshot"} => staging = b \/ b \in swept
    /\ bak[b].pc = "record" \/ snapRow[b] = "completed" =>
         /\ bak[b].data = b \/ b \in swept
         /\ bak[b].at = bak[b].target \/ b \in moved
    /\ snapRow[b] = "completed" => bak[b].pc \in {"clean", "free", "done"}

BakInv == BakTypeOK /\ BackupOneRun /\ ScheduleCalm /\ BackupPlaces

BakRecord == [pc : BakSteps, target : Targets \cup {None}, init : BOOLEAN,
              at : Targets \cup {None}, data : Backup \cup {Leftover, None}]
OpState == [kind : OpKinds, row : Backup \cup {None}, target : Targets \cup {None}]
CfgState == [target : Targets, init : BOOLEAN, on : BOOLEAN]

\* Nothing was backed up, connected or scheduled before the first start.
LEMMA BakInvInit == BakInit => BakInv
<1> SUFFICES ASSUME BakInit PROVE BakInv
  OBVIOUS
<1>1. BakTypeOK
  <2>1. cfg \in CfgState /\ op \in OpState /\ changes \in 0..MaxChanges
    BY BackupAssumption DEF BakInit, NoOp, CfgState, OpState, OpKinds
  <2>2. [pc |-> "new", target |-> None, init |-> FALSE, at |-> None, data |-> None] \in BakRecord
    BY DEF BakRecord, BakSteps
  <2>3. bak \in [Backup -> BakRecord]
    BY <2>2 DEF BakInit
  <2>4. sched \in [up : BOOLEAN, entry : BOOLEAN]
    BY DEF BakInit
  <2> QED
    BY <2>1, <2>3, <2>4 DEF BakInit, BakTypeOK, BakRecord, OpState, CfgState
<1>2. BackupOneRun
  BY DEF BakInit, BackupOneRun, Claimed
<1>3. ScheduleCalm
  BY DEF BakInit, ScheduleCalm
<1>4. BackupPlaces
  BY DEF BakInit, BackupPlaces
<1> QED
  BY <1>1, <1>2, <1>3, <1>4 DEF BakInv

\* The steps that leave the schedule and the requests alone.
BakSchedSame == UNCHANGED <<sched, change, changes, raced>> /\ cfg'.on = cfg.on

\* They keep what is said of the schedule.
LEMMA SchedSame == ScheduleCalm /\ BakSchedSame => ScheduleCalm'
BY DEF ScheduleCalm, BakSchedSame

\* What the steps make of a backup is one.
LEMMA BakUpdates ==
  ASSUME NEW x \in BakRecord, NEW t \in Targets \cup {None}, NEW i \in BOOLEAN,
         NEW d \in Backup \cup {Leftover, None}
  PROVE  /\ \A p \in BakSteps : [x EXCEPT !.pc = p] \in BakRecord
         /\ [x EXCEPT !.pc = "open", !.target = t, !.init = i] \in BakRecord
         /\ [x EXCEPT !.pc = "record", !.at = t, !.data = d] \in BakRecord
BY DEF BakRecord, BakSteps

\* One backup takes a step.
LEMMA BackupStepTypes ==
  ASSUME BakInv, NEW b \in Backup, BackupStep(b)
  PROVE  /\ \E x \in BakRecord : bak' = [bak EXCEPT ![b] = x]
         /\ BakTypeOK' /\ BakSchedSame /\ op' = op
<1> USE DEF BakInv, BakTypeOK
<1>0. /\ bak \in [Backup -> BakRecord] /\ cfg \in CfgState /\ bak[b] \in BakRecord
  BY DEF BakRecord, CfgState
<1>1. \E x \in BakRecord : bak' = [bak EXCEPT ![b] = x]
  <2>1. CASE ReadConfig(b)
    <3>1. [bak[b] EXCEPT !.pc = "open", !.target = cfg.target, !.init = cfg.init] \in BakRecord
      <4>1. cfg.target \in Targets \cup {None} /\ cfg.init \in BOOLEAN
        BY <1>0 DEF CfgState
      <4> QED
        BY <1>0, <4>1, BakUpdates
    <3> QED
      BY <2>1, <3>1 DEF ReadConfig
  <2>2. CASE CreateSnapshot(b)
    <3>1. [bak[b] EXCEPT !.pc = "record", !.at = conn, !.data = staging] \in BakRecord
      BY <1>0, BakUpdates
    <3>2. CASE bak' = [bak EXCEPT ![b].pc = "record", ![b].at = conn, ![b].data = staging]
      BY <3>1, <3>2
    <3>3. CASE BakGoto(b, "clean")
      BY <1>0, <3>3, BakUpdates DEF BakGoto, BakSteps
    <3> QED
      BY <2>2, <3>2, <3>3 DEF CreateSnapshot
  <2>3. CASE ~ReadConfig(b) /\ ~CreateSnapshot(b)
    <3>1. \E p \in BakSteps : BakGoto(b, p)
      BY <2>3 DEF BackupStep, RunBackup, OpenRepository, MarkInitialized, PrepareStaging, CollectScopes,
                  RecordSnapshot, RemoveStaging, ReleaseGuard, BakSteps
    <3> QED
      BY <1>0, <3>1, BakUpdates DEF BakGoto
  <2> QED
    BY <2>1, <2>2, <2>3
<1>2. bak' \in [Backup -> BakRecord]
  BY <1>0, <1>1
<1>3. snapRow' \in [Backup -> {"none", "running", "completed", "failed", "deleted"}]
  <2>1. \A s \in {"completed", "failed"} : BakSet(b, s) \in [Backup -> {"none", "running", "completed", "failed", "deleted"}]
    BY DEF BakSet
  <2> QED
    BY <2>1 DEF BackupStep, RunBackup, ReadConfig, OpenRepository, MarkInitialized, PrepareStaging, CollectScopes,
                CreateSnapshot, RecordSnapshot, RemoveStaging, ReleaseGuard
<1>4. /\ conn' \in Targets \cup {None} /\ repos' \subseteq Targets /\ moved' \subseteq Backup
  <2>1. CASE OpenRepository(b)
    <3>1. bak[b].target \in Targets
      BY <2>1 DEF OpenRepository, BackupPlaces
    <3> QED
      BY <2>1, <3>1 DEF OpenRepository, Connect, Exposed
  <2>2. CASE ~OpenRepository(b)
    <3>1. UNCHANGED <<conn, repos, moved>>
      BY <2>2 DEF BackupStep, RunBackup, ReadConfig, MarkInitialized, PrepareStaging, CollectScopes,
                  CreateSnapshot, RecordSnapshot, RemoveStaging, ReleaseGuard
    <3> QED
      BY <3>1
  <2> QED
    BY <2>1, <2>2
<1>5. cfg' \in CfgState /\ cfg'.on = cfg.on
  <2>1. CASE MarkInitialized(b)
    <3>1. cfg' = [cfg EXCEPT !.init = TRUE]
      BY <2>1 DEF MarkInitialized
    <3> QED
      BY <1>0, <3>1 DEF CfgState
  <2>2. CASE ~MarkInitialized(b)
    <3>1. cfg' = cfg
      BY <2>2 DEF BackupStep, RunBackup, ReadConfig, OpenRepository, PrepareStaging, CollectScopes,
                  CreateSnapshot, RecordSnapshot, RemoveStaging, ReleaseGuard
    <3> QED
      BY <1>0, <3>1
  <2> QED
    BY <2>1, <2>2
<1>6. staging' \in Backup \cup {Leftover, None} /\ busy' \in BOOLEAN
  BY DEF BackupStep, RunBackup, ReadConfig, OpenRepository, MarkInitialized, PrepareStaging, CollectScopes,
         CreateSnapshot, RecordSnapshot, RemoveStaging, ReleaseGuard
<1>7. UNCHANGED <<op, sched, change, changes, swept, raced>>
  BY DEF BackupStep, RunBackup, ReadConfig, OpenRepository, MarkInitialized, PrepareStaging, CollectScopes,
         CreateSnapshot, RecordSnapshot, RemoveStaging, ReleaseGuard
<1> QED
  BY <1>1, <1>2, <1>3, <1>4, <1>5, <1>6, <1>7 DEF BakRecord, CfgState, BakSchedSame

\* The guard and the backup that has it.
LEMMA BackupStepAlone ==
  ASSUME BakInv, NEW b \in Backup, BackupStep(b)
  PROVE  BackupOneRun'
<1>1. PICK x \in BakRecord : bak' = [bak EXCEPT ![b] = x]
  BY BackupStepTypes
<1>2. \A a \in Backup : bak'[a] = IF a = b THEN x ELSE bak[a]
  BY <1>1 DEF BakInv, BakTypeOK
<1>3. \/ Claimed(b) /\ Claimed(b)' /\ busy' = busy
      \/ Claimed(b) /\ ~Claimed(b)' /\ busy' = FALSE
      \/ ~busy /\ Claimed(b)' /\ busy' = TRUE
  <2>1. CASE RunBackup(b)
    BY <2>1 DEF RunBackup, BakGoto, Claimed, BakInv, BakTypeOK
  <2>2. CASE ReadConfig(b) \/ OpenRepository(b) \/ MarkInitialized(b) \/ PrepareStaging(b) \/ CollectScopes(b)
    BY <2>2 DEF ReadConfig, OpenRepository, MarkInitialized, PrepareStaging, CollectScopes, BakGoto, Claimed,
                BakInv, BakTypeOK
  <2>3. CASE CreateSnapshot(b) \/ RecordSnapshot(b) \/ RemoveStaging(b)
    BY <2>3 DEF CreateSnapshot, RecordSnapshot, RemoveStaging, BakGoto, Claimed, BakInv, BakTypeOK
  <2>4. CASE ReleaseGuard(b)
    BY <2>4 DEF ReleaseGuard, BakGoto, Claimed, BakInv, BakTypeOK
  <2> QED
    BY <2>1, <2>2, <2>3, <2>4 DEF BackupStep
<1>4. \A a \in Backup \ {b} : Claimed(a)' <=> Claimed(a)
  BY <1>2 DEF Claimed
<1> QED
  BY <1>3, <1>4 DEF BakInv, BackupOneRun

\* Where repository and files are, for the backup that moves and for one other.
PlacesOf(b) ==
  /\ bak[b].pc = "open" => bak[b].target \in Targets
  /\ bak[b].pc \in {"mark", "stage", "collect", "snapshot"} => conn = bak[b].target \/ b \in moved
  /\ bak[b].pc \in {"collect", "snapshot"} => staging = b \/ b \in swept
  /\ bak[b].pc = "record" \/ snapRow[b] = "completed" =>
       /\ bak[b].data = b \/ b \in swept
       /\ bak[b].at = bak[b].target \/ b \in moved
  /\ snapRow[b] = "completed" => bak[b].pc \in {"clean", "free", "done"}

\* The backup that moves finds its repository and its files, and leaves the others theirs.
LEMMA BackupStepPlaces ==
  ASSUME BakInv, NEW b \in Backup, BackupStep(b)
  PROVE  BackupPlaces'
<1> USE DEF BakInv
<1>0. bak \in [Backup -> BakRecord]
  BY DEF BakTypeOK, BakRecord
<1>1. PICK x \in BakRecord : bak' = [bak EXCEPT ![b] = x]
  BY BackupStepTypes
<1>2. \A a \in Backup : bak'[a] = IF a = b THEN x ELSE bak[a]
  BY <1>0, <1>1
<1>3. \A a \in Backup : PlacesOf(a)
  BY DEF BackupPlaces, PlacesOf
<1>4. swept' = swept /\ \A a \in Backup \ {b} : snapRow'[a] = snapRow[a]
  BY DEF BackupStep, RunBackup, ReadConfig, OpenRepository, MarkInitialized, PrepareStaging, CollectScopes,
         CreateSnapshot, RecordSnapshot, RemoveStaging, ReleaseGuard, BakSet, BakTypeOK
<1>5. ASSUME NEW a \in Backup \ {b} PROVE PlacesOf(a)'
  <2>1. ~Claimed(a) \/ ~Claimed(b)
    BY DEF BackupOneRun
  <2>2. CASE ~Claimed(a)
    <3>1. moved \subseteq moved' /\ bak'[a] = bak[a] /\ bak[a].pc \in {"new", "done"}
      BY <1>2, <2>2 DEF Claimed, BackupStep, RunBackup, ReadConfig, OpenRepository, MarkInitialized, PrepareStaging,
         CollectScopes, CreateSnapshot, RecordSnapshot, RemoveStaging, ReleaseGuard, Connect
    <3> QED
      BY <1>3, <1>4, <3>1 DEF PlacesOf
  <2>3. CASE ~Claimed(b)
    <3>1. UNCHANGED <<conn, staging, moved>>
      BY <2>3 DEF Claimed, BackupStep, RunBackup, ReadConfig, OpenRepository, MarkInitialized, PrepareStaging,
         CollectScopes, CreateSnapshot, RecordSnapshot, RemoveStaging, ReleaseGuard
    <3> QED
      BY <1>2, <1>3, <1>4, <3>1 DEF PlacesOf
  <2> QED
    BY <2>1, <2>2, <2>3
<1>6. PlacesOf(b)'
  <2>0. PlacesOf(b) /\ x = bak'[b] /\ bak[b] \in BakRecord
    BY <1>0, <1>2, <1>3
  <2>1. CASE RunBackup(b)
    BY <1>0, <2>0, <2>1 DEF RunBackup, BakGoto, PlacesOf
  <2>2. CASE ReadConfig(b)
    <3>1. bak'[b] = [bak[b] EXCEPT !.pc = "open", !.target = cfg.target, !.init = cfg.init]
      BY <1>0, <2>2 DEF ReadConfig
    <3>2. bak'[b].pc = "open" /\ bak'[b].target = cfg.target
      BY <1>0, <3>1 DEF BakRecord
    <3>3. cfg.target \in Targets /\ snapRow'[b] = "running"
      BY <2>2 DEF ReadConfig, BakTypeOK
    <3> QED
      BY <3>2, <3>3 DEF PlacesOf
  <2>3. CASE OpenRepository(b)
    <3>1. PICK p \in {"mark", "stage", "free"} : /\ bak' = [bak EXCEPT ![b] = [bak[b] EXCEPT !.pc = p]]
                                                 /\ p # "free" => conn' = bak[b].target
      BY <2>3 DEF OpenRepository, Connect, BakGoto
    <3>2. bak'[b].pc = p /\ bak'[b].target = bak[b].target
      BY <1>0, <2>0, <3>1 DEF BakRecord
    <3>3. bak[b].pc = "open" /\ snapRow' \in {snapRow, BakSet(b, "failed")}
      BY <2>3 DEF OpenRepository
    <3>4. snapRow[b] # "completed"
      BY <2>0, <3>3 DEF PlacesOf
    <3>5. snapRow'[b] # "completed"
      <4>1. snapRow' \in {snapRow, [snapRow EXCEPT ![b] = "failed"]}
        BY <3>3 DEF BakSet
      <4>2. [snapRow EXCEPT ![b] = "failed"][b] = "failed"
        BY DEF BakTypeOK
      <4> QED
        BY <3>4, <4>1, <4>2
    <3>6. CASE p = "free"
      BY <3>2, <3>5, <3>6 DEF PlacesOf
    <3>7. CASE p # "free"
      BY <3>1, <3>2, <3>5, <3>7 DEF PlacesOf
    <3> QED
      BY <3>6, <3>7
  <2>4. CASE MarkInitialized(b) \/ PrepareStaging(b)
    <3>1. PICK p \in {"stage", "collect"} : /\ bak' = [bak EXCEPT ![b] = [bak[b] EXCEPT !.pc = p]]
                                            /\ p = "collect" => staging' = b
      BY <2>4 DEF MarkInitialized, PrepareStaging, BakGoto
    <3>2. bak'[b].pc = p /\ bak'[b].target = bak[b].target
      BY <1>0, <2>0, <3>1 DEF BakRecord
    <3>3. UNCHANGED <<conn, moved, snapRow>> /\ bak[b].pc \in {"mark", "stage"}
      BY <2>4 DEF MarkInitialized, PrepareStaging
    <3> QED
      BY <2>0, <3>1, <3>2, <3>3 DEF PlacesOf
  <2>5. CASE CollectScopes(b)
    <3>1. bak' = [bak EXCEPT ![b] = [bak[b] EXCEPT !.pc = "snapshot"]]
      BY <2>5 DEF CollectScopes, BakGoto
    <3>2. bak'[b].pc = "snapshot" /\ bak'[b].target = bak[b].target
      BY <1>0, <2>0, <3>1 DEF BakRecord
    <3>3. UNCHANGED <<conn, moved, snapRow>> /\ bak[b].pc = "collect" /\ (staging = b => staging' = b)
      BY <2>5, BackupAssumption DEF CollectScopes
    <3> QED
      BY <1>4, <2>0, <3>2, <3>3 DEF PlacesOf
  <2>6. CASE CreateSnapshot(b)
    <3>1. CASE bak' = [bak EXCEPT ![b].pc = "record", ![b].at = conn, ![b].data = staging] /\ UNCHANGED snapRow
      <4>1. bak'[b] = [bak[b] EXCEPT !.pc = "record", !.at = conn, !.data = staging]
        BY <1>0, <3>1
      <4>2. /\ bak'[b].pc = "record" /\ bak'[b].at = conn /\ bak'[b].data = staging
            /\ bak'[b].target = bak[b].target
        BY <2>0, <4>1 DEF BakRecord
      <4>3. UNCHANGED <<moved, swept, snapRow>> /\ bak[b].pc = "snapshot"
        BY <2>6, <3>1 DEF CreateSnapshot
      <4> QED
        BY <2>0, <4>2, <4>3 DEF PlacesOf
    <3>2. CASE snapRow' = BakSet(b, "failed") /\ BakGoto(b, "clean")
      <4>1. bak'[b].pc = "clean" /\ snapRow'[b] # "completed"
        BY <1>0, <2>0, <3>2 DEF BakSet, BakGoto, BakTypeOK, BakRecord
      <4> QED
        BY <4>1 DEF PlacesOf
    <3> QED
      BY <2>6, <3>1, <3>2 DEF CreateSnapshot
  <2>7. CASE RecordSnapshot(b) \/ RemoveStaging(b) \/ ReleaseGuard(b)
    <3>1. PICK p \in {"clean", "free", "done"} : bak' = [bak EXCEPT ![b] = [bak[b] EXCEPT !.pc = p]]
      BY <2>7 DEF RecordSnapshot, RemoveStaging, ReleaseGuard, BakGoto
    <3>2. bak'[b].pc = p /\ bak'[b].target = bak[b].target /\ bak'[b].at = bak[b].at /\ bak'[b].data = bak[b].data
      BY <1>0, <2>0, <3>1 DEF BakRecord
    <3>3. moved' = moved /\ (snapRow'[b] = "completed" => snapRow[b] = "completed" \/ bak[b].pc = "record")
      BY <2>7 DEF RecordSnapshot, RemoveStaging, ReleaseGuard, BakSet, BakTypeOK
    <3> QED
      BY <1>4, <2>0, <3>2, <3>3 DEF PlacesOf
  <2> QED
    BY <2>1, <2>2, <2>3, <2>4, <2>5, <2>6, <2>7 DEF BackupStep
<1> QED
  BY <1>5, <1>6 DEF BackupPlaces, PlacesOf

\* Restores, deletions and tests move Kopia to another target at most.
LEMMA BakOpStep ==
  ASSUME BakInv,
         (\E b \in Backup : RestoreSnapshot(b) \/ DeleteSnapshot(b)) \/ TestConnection \/ FinishOp
  PROVE  BakInv'
<1> USE DEF BakInv
<1>1. BakSame
  BY DEF RestoreSnapshot, DeleteSnapshot, TestConnection, FinishOp
<1>2. cfg' = cfg \/ cfg' = [cfg EXCEPT !.init = TRUE]
  BY DEF RestoreSnapshot, DeleteSnapshot, TestConnection, FinishOp
<1>3. cfg' \in CfgState /\ cfg'.on = cfg.on
  BY <1>2 DEF BakTypeOK, CfgState
<1>4. /\ repos' \subseteq Targets /\ conn' \in Targets \cup {None}
      /\ moved \subseteq moved' /\ moved' \subseteq Backup
      /\ conn' = conn \/ \A b \in Backup : bak[b].pc \in {"mark", "stage", "collect", "snapshot"}
                                             => bak[b].target = conn' \/ b \in moved'
  <2>1. cfg.target \in Targets
    BY DEF BakTypeOK
  <2>2. UNCHANGED <<repos, conn, moved>>
        \/ (repos' \in {repos, repos \cup {cfg.target}} /\ Connect(cfg.target))
    BY DEF RestoreSnapshot, DeleteSnapshot, TestConnection, FinishOp
  <2> QED
    BY <2>1, <2>2 DEF Connect, Exposed, BakTypeOK
<1>5. \A b \in Backup : snapRow'[b] \in {snapRow[b], "deleted"}
  BY DEF RestoreSnapshot, DeleteSnapshot, TestConnection, FinishOp, BakTypeOK, NoOp
<1>6. op' \in OpState
  <2>1. NoOp \in OpState
    BY DEF NoOp, OpState, OpKinds
  <2>2. \A k \in OpKinds, b \in Backup \cup {None}, t \in Targets : [kind |-> k, row |-> b, target |-> t] \in OpState
    BY DEF OpState
  <2>3. cfg.target \in Targets
    BY DEF BakTypeOK
  <2>4. op' \in {op, NoOp} \/ \E k \in OpKinds, b \in Backup \cup {None} : op' = [kind |-> k, row |-> b, target |-> cfg.target]
    BY DEF RestoreSnapshot, DeleteSnapshot, TestConnection, FinishOp, OpKinds
  <2> QED
    BY <2>1, <2>2, <2>3, <2>4 DEF BakTypeOK, OpState
<1>7. snapRow' \in [Backup -> {"none", "running", "completed", "failed", "deleted"}]
  BY DEF RestoreSnapshot, DeleteSnapshot, TestConnection, FinishOp, BakTypeOK
<1>8. BakTypeOK'
  BY <1>1, <1>3, <1>4, <1>6, <1>7 DEF BakTypeOK, BakSame, CfgState, OpState
<1>9. BackupOneRun'
  BY <1>1 DEF BackupOneRun, Claimed, BakSame
<1>10. ScheduleCalm'
  BY <1>1, <1>3, SchedSame DEF BakSchedSame, BakSame
<1>11. BackupPlaces'
  BY <1>1, <1>4, <1>5 DEF BackupPlaces, BakSame
<1> QED
  BY <1>8, <1>9, <1>10, <1>11

\* A request on the configuration writes the schedule's flag before it tells the scheduler.
LEMMA ConfigStep ==
  ASSUME BakInv, NEW r \in ConfigReqs, NEW W, W \subseteq {"on", "off", "same"},
         UpdateConfig(r, W) \/ UpdateSchedule(r)
  PROVE  BakInv'
<1> USE DEF BakInv
<1>1. UNCHANGED <<repos, conn, bak, busy, snapRow, staging, op, swept, moved>>
  BY DEF UpdateConfig, UpdateSchedule
<1>2. BackupOneRun' /\ BackupPlaces'
  BY <1>1 DEF BackupOneRun, Claimed, BackupPlaces
<1>3. CASE UpdateConfig(r, W)
  <2>1. PICK t \in Targets, w \in {"on", "off", "same"} :
          /\ cfg' = [cfg EXCEPT !.target = t, !.on = CASE w = "on" -> TRUE [] w = "off" -> FALSE [] OTHER -> cfg.on]
          /\ change' = [change EXCEPT ![r] = w]
    BY <1>3 DEF UpdateConfig
  <2>2. cfg' \in CfgState
    <3>1. cfg \in CfgState /\ (CASE w = "on" -> TRUE [] w = "off" -> FALSE [] OTHER -> cfg.on) \in BOOLEAN
      BY DEF BakTypeOK, CfgState
    <3>2. \A v \in BOOLEAN : [cfg EXCEPT !.target = t, !.on = v] \in CfgState
      BY <3>1 DEF CfgState
    <3> QED
      BY <2>1, <3>1, <3>2
  <2>3. cfg'.on <=> w = "on" \/ (w = "same" /\ cfg.on)
    <3>1. \A v \in BOOLEAN : [cfg EXCEPT !.target = t, !.on = v].on <=> v
      BY DEF BakTypeOK
    <3>2. CASE w = "on"
      <4>1. cfg' = [cfg EXCEPT !.target = t, !.on = TRUE]
        BY <2>1, <3>2
      <4> QED
        BY <3>1, <3>2, <4>1
    <3>3. CASE w = "off"
      <4>1. cfg' = [cfg EXCEPT !.target = t, !.on = FALSE]
        BY <2>1, <3>3
      <4> QED
        BY <3>1, <3>3, <4>1
    <3>4. CASE w = "same"
      <4>1. cfg' = [cfg EXCEPT !.target = t, !.on = cfg.on] /\ cfg.on \in BOOLEAN
        BY <2>1, <3>4 DEF BakTypeOK
      <4> QED
        BY <3>1, <3>4, <4>1
    <3>5. w \in {"on", "off", "same"}
      BY <2>1
    <3> QED
      BY <3>2, <3>3, <3>4, <3>5
  <2>4. /\ sched' = sched /\ sched.up /\ change[r] = "idle"
        /\ changes' \in 0..MaxChanges /\ raced' \in BOOLEAN
    <3>1. raced' = (raced \/ \E q \in ConfigReqs : change[q] # "idle")
      BY <1>3 DEF UpdateConfig
    <3>2. raced' \in BOOLEAN
      BY <3>1 DEF BakTypeOK
    <3>3. changes' = changes + 1 /\ changes < MaxChanges
      BY <1>3 DEF UpdateConfig
    <3>4. changes' \in 0..MaxChanges
      <4>1. changes \in 0..MaxChanges
        BY DEF BakTypeOK
      <4> QED
        BY <3>3, <4>1, BackupAssumption
    <3> QED
      BY <1>3, <3>2, <3>4 DEF UpdateConfig
  <2>5. BakTypeOK'
    BY <1>1, <2>1, <2>2, <2>4 DEF BakTypeOK, CfgState
  <2>6. ScheduleCalm'
    <3> SUFFICES ASSUME ~raced' PROVE ScheduleCalm'
      BY DEF ScheduleCalm
    <3>1. ~raced /\ \A q \in ConfigReqs : change[q] = "idle"
      BY <1>3 DEF UpdateConfig
    <3>2. \A q \in ConfigReqs : change'[q] = IF q = r THEN w ELSE "idle"
      BY <2>1, <3>1 DEF BakTypeOK
    <3>3. sched.entry <=> cfg.on
      BY <2>4, <3>1 DEF ScheduleCalm
    <3> QED
      BY <2>3, <2>4, <3>2, <3>3 DEF ScheduleCalm
  <2> QED
    BY <1>2, <2>5, <2>6
<1>4. CASE UpdateSchedule(r)
  <2>1. /\ sched' = [sched EXCEPT !.entry = Wanted(r)] /\ change' = [change EXCEPT ![r] = "idle"]
        /\ UNCHANGED <<cfg, changes, raced>> /\ change[r] # "idle"
    BY <1>4 DEF UpdateSchedule
  <2>2. Wanted(r) \in BOOLEAN
    BY DEF Wanted, BakTypeOK
  <2>3. sched' \in [up : BOOLEAN, entry : BOOLEAN] /\ sched'.up = sched.up /\ sched'.entry = Wanted(r)
    BY <2>1, <2>2 DEF BakTypeOK
  <2>4. BakTypeOK'
    BY <1>1, <2>1, <2>3 DEF BakTypeOK
  <2>5. ScheduleCalm'
    <3> SUFFICES ASSUME ~raced PROVE ScheduleCalm'
      BY <2>1 DEF ScheduleCalm
    <3>1. \A q \in ConfigReqs : change'[q] = "idle"
      BY <2>1 DEF ScheduleCalm, BakTypeOK
    <3>2. Wanted(r) <=> cfg.on
      BY <2>1 DEF ScheduleCalm, Wanted, BakTypeOK
    <3> QED
      BY <2>1, <2>3, <3>1, <3>2 DEF ScheduleCalm
  <2> QED
    BY <1>2, <2>4, <2>5
<1> QED
  BY <1>3, <1>4

\* Start, Stop and the death of the panel.
LEMMA BakLifeStep == BakInv /\ (BakStart \/ BakStop \/ BakCrash) => BakInv'
<1> SUFFICES ASSUME BakInv, BakStart \/ BakStop \/ BakCrash PROVE BakInv'
  OBVIOUS
<1> USE DEF BakInv
<1>1. CASE BakStart
  <2>1. sched' \in [up : BOOLEAN, entry : BOOLEAN] /\ sched'.up /\ (sched'.entry <=> sched.entry \/ cfg.on)
    BY <1>1 DEF BakStart, BakTypeOK
  <2>2. swept' \subseteq Backup /\ swept \subseteq swept' /\ raced' \in BOOLEAN /\ staging' = None
        /\ \A b \in Backup : bak[b].pc \in {"collect", "snapshot"} => b \in swept'
    BY <1>1 DEF BakStart, BakTypeOK
  <2>3. UNCHANGED <<cfg, repos, conn, bak, busy, snapRow, op, change, changes, moved>>
    BY <1>1 DEF BakStart
  <2>4. BakTypeOK'
    BY <2>1, <2>2, <2>3 DEF BakTypeOK
  <2>5. BackupOneRun' /\ BackupPlaces'
    BY <2>2, <2>3 DEF BackupOneRun, Claimed, BackupPlaces
  <2>6. ScheduleCalm'
    <3>1. ~sched.up /\ (~raced' => ~raced /\ \A q \in ConfigReqs : change[q] = "idle")
      BY <1>1 DEF BakStart
    <3> QED
      BY <2>1, <2>3, <3>1 DEF ScheduleCalm
  <2> QED
    BY <2>4, <2>5, <2>6
<1>2. CASE BakStop
  <2>1. sched' \in [up : BOOLEAN, entry : BOOLEAN] /\ ~sched'.up /\ sched'.entry = sched.entry
    BY <1>2 DEF BakStop, BakTypeOK
  <2>2. UNCHANGED <<cfg, repos, conn, bak, busy, snapRow, staging, op, change, changes, swept, moved, raced>>
    BY <1>2 DEF BakStop
  <2>3. BakTypeOK' /\ BackupOneRun' /\ BackupPlaces'
    BY <2>1, <2>2 DEF BakTypeOK, BackupOneRun, Claimed, BackupPlaces
  <2>4. ScheduleCalm'
    BY <2>1, <2>2 DEF ScheduleCalm
  <2> QED
    BY <2>3, <2>4
<1>3. CASE BakCrash
  <2>0. \A b \in Backup : bak[b] \in BakRecord
    BY DEF BakTypeOK, BakRecord
  <2>1. \A b \in Backup : bak'[b].pc \in {"new", "done"} /\ bak'[b] \in BakRecord
    <3>1. \A x \in BakRecord : [x EXCEPT !.pc = "done"] \in BakRecord /\ [x EXCEPT !.pc = "done"].pc = "done"
      BY DEF BakRecord, BakSteps
    <3>2. \A b \in Backup : bak'[b] = IF bak[b].pc = "new" THEN bak[b] ELSE [bak[b] EXCEPT !.pc = "done"]
      BY <1>3 DEF BakCrash
    <3> QED
      BY <2>0, <3>1, <3>2
  <2>2. \A b \in Backup : bak'[b] = bak[b] \/ (bak'[b].pc = "done" /\ bak'[b] = [bak[b] EXCEPT !.pc = "done"])
    BY <1>3, <2>1 DEF BakCrash
  <2>3. bak' \in [Backup -> BakRecord]
    BY <1>3, <2>1 DEF BakCrash
  <2>4. NoOp \in OpState
    BY DEF NoOp, OpState, OpKinds
  <2>5. /\ busy' = FALSE /\ op' = NoOp /\ sched' = [up |-> FALSE, entry |-> FALSE] /\ raced' = FALSE
        /\ change' = [r \in ConfigReqs |-> "idle"]
        /\ UNCHANGED <<cfg, repos, conn, snapRow, staging, changes, swept, moved>>
    BY <1>3 DEF BakCrash
  <2>6. sched' \in [up : BOOLEAN, entry : BOOLEAN] /\ ~sched'.up /\ ~sched'.entry
    BY <2>5
  <2>7. BakTypeOK'
    BY <2>3, <2>4, <2>5, <2>6 DEF BakTypeOK, BakRecord, OpState
  <2>8. BackupOneRun'
    BY <2>1, <2>5 DEF BackupOneRun, Claimed
  <2>9. ScheduleCalm'
    BY <2>5, <2>6 DEF ScheduleCalm
  <2>10. BackupPlaces'
    <3>1. \A b \in Backup : /\ bak'[b].data = bak[b].data /\ bak'[b].at = bak[b].at
                            /\ bak'[b].target = bak[b].target
                            /\ bak[b].pc \in {"clean", "free", "done"} => bak'[b].pc = "done"
      BY <1>3 DEF BakCrash, BakTypeOK
    <3> QED
      BY <2>1, <2>5, <3>1 DEF BackupPlaces
  <2> QED
    BY <2>7, <2>8, <2>9, <2>10
<1> QED
  BY <1>1, <1>2, <1>3

\* Every step keeps the invariant, for whatever part of backups and requests moves.
LEMMA BakInvStep ==
  ASSUME NEW B \in SUBSET Backup, NEW R \in SUBSET ConfigReqs, NEW W \in SUBSET {"on", "off", "same"},
         BakInv, BakNextOf(B, R, W)
  PROVE  BakInv'
<1>1. ASSUME NEW b \in B, BackupStep(b) PROVE BakInv'
  <2>1. BakTypeOK' /\ ScheduleCalm'
    BY <1>1, BackupStepTypes, SchedSame DEF BakInv
  <2> QED
    BY <1>1, <2>1, BackupStepAlone, BackupStepPlaces DEF BakInv
<1>2. ASSUME NEW r \in R, UpdateConfig(r, W) \/ UpdateSchedule(r) PROVE BakInv'
  BY <1>2, ConfigStep
<1> QED
  BY <1>1, <1>2, BakOpStep, BakLifeStep DEF BakNextOf

\* What the invariant is for.
LEMMA BackupsSound == BakInv => BackupOneRun /\ BackupSchedule /\ BackupContent
BY DEF BakInv, BackupSchedule, ScheduleCalm, BackupContent, BackupPlaces

-----------------------------------------------------------------------------
(* Events.                                                                 *)

\* Each type has one handler at most: the cronjob plugin's and the notifier's are subscribed once.
Calls == {<<>>} \cup {<<w>> : w \in Whos}
Results == {"run", "build", "backup", "heal", "notify", "panic"}
ChanRecord == [there : BOOLEAN, enabled : BOOLEAN, events : Filters \cup {{}}]
PubRecord == [type : EvTypes, up : BOOLEAN, left : Calls, ran : Calls,
              calm : [Channels -> {"on", "off", "touched"}], did : SUBSET Results]
SendSteps == {"sending", "sent", "failed"}
SendRecord == [pub : 1..Len(evPub), ch : Channels, step : SendSteps]

EvSets ==
  /\ evBoot \in {"off", "plugins", "started", "up"} /\ evCron \in BOOLEAN
  /\ evSubs \in [EvTypes -> Calls]
  /\ evChan \in [Channels -> ChanRecord]
  /\ evPub \in Seq(PubRecord) /\ Len(evPub) <= MaxPubs
  /\ evSends \subseteq SendRecord

\* Who is subscribed, and from when.
Subscribed ==
  /\ evBoot = "off" => \A t \in EvTypes : evSubs[t] = <<>>
  /\ evBoot # "up" => \A t \in NotifierTypes : evSubs[t] = <<>>
  /\ evBoot = "up" => evSubs[TaskFailed] = <<"notifier">>

Unsent(n) ==
  /\ \A s \in evSends : s.pub # n
  /\ \A c \in Channels : /\ evPub[n].calm[c] = "on" => Listening(c, TaskFailed)
                         /\ evPub[n].calm[c] = "off" => ~Listening(c, TaskFailed)

Delivered(n) ==
  "panic" \notin evPub[n].did =>
    \A c \in Channels : /\ evPub[n].calm[c] = "on" => \E s \in evSends : s.pub = n /\ s.ch = c
                        /\ evPub[n].calm[c] = "off" => \A s \in evSends : s.pub = n => s.ch # c

\* A publication whose handler has still to be called has been handled by none. That of a failed
\* task is the notifier's: it is not sent yet, or it is sent to whom it should be.
Pending(n) ==
  /\ evPub[n].left # <<>> => evPub[n].ran = <<>>
  /\ evPub[n].type = TaskFailed /\ evPub[n].up =>
       \/ evPub[n].left = <<"notifier">> /\ Unsent(n)
       \/ evPub[n].left = <<>> /\ Delivered(n)

EvInv == EvSets /\ Subscribed /\ \A n \in 1..Len(evPub) : Pending(n)

\* The types with a handler of their own.
Own == {AlertFired, BuildFailed, BackupTrigger, TriggerBuild, CronTrigger}

\* The types with a handler of their own are five.
LEMMA TypesDiffer ==
  /\ TriggerBuild # BuildFailed /\ TriggerBuild # BackupTrigger /\ TriggerBuild # AlertFired
  /\ TriggerBuild # CronTrigger /\ BuildFailed # BackupTrigger /\ BuildFailed # AlertFired
  /\ BuildFailed # CronTrigger /\ BackupTrigger # AlertFired /\ BackupTrigger # CronTrigger
  /\ AlertFired # CronTrigger
BY DEF TriggerBuild, BuildFailed, BackupTrigger, AlertFired, CronTrigger

\* All of them are types of the bus, and none is a pattern of the notifier's.
LEMMA OwnTypes ==
  /\ Own \subseteq EvTypes /\ NotifierTypes \subseteq EvTypes /\ TaskFailed \in NotifierTypes
  /\ Own \cap NotifierTypes = {}
<1>1. \A t \in Own, n \in NotifierTypes : t # n
  BY DEF Own, NotifierTypes, TriggerBuild, BuildFailed, BackupTrigger, AlertFired, CronTrigger, TaskFailed
<1> QED
  BY <1>1 DEF Own, NotifierTypes, EvTypes, CoreCommands, Background

\* A sequence of calls is empty or one call.
LEMMA OneCall ==
  ASSUME NEW c \in Calls
  PROVE  /\ c \in Seq(Whos)
         /\ c # <<>> => Head(c) \in Whos /\ Tail(c) = <<>> /\ c = <<Head(c)>>
         /\ \A w \in Whos : Append(<<>>, w) = <<w>> /\ <<w>> \in Calls
         /\ <<>> \in Calls /\ IsInjective(c)
<1>1. CASE c = <<>>
  BY <1>1 DEF Calls, IsInjective
<1>2. CASE c # <<>>
  <2>1. PICK w \in Whos : c = <<w>>
    BY <1>2 DEF Calls
  <2> QED
    BY <2>1 DEF Calls, IsInjective
<1> QED
  BY <1>1, <1>2

\* Nobody is subscribed and nothing is published before InitAll.
LEMMA EvInvInit == EvInit => EvInv
<1> SUFFICES ASSUME EvInit PROVE EvInv
  OBVIOUS
<1>1. evSubs \in [EvTypes -> Calls]
  BY DEF EvInit, Calls
<1>2. [there : {FALSE}, enabled : {FALSE}, events : {{}}] \subseteq ChanRecord
  BY DEF ChanRecord
<1>3. evChan \in [Channels -> ChanRecord]
  BY <1>2 DEF EvInit
<1>4. evPub \in Seq(PubRecord) /\ Len(evPub) = 0
  BY DEF EvInit
<1>5. EvSets
  BY <1>1, <1>3, <1>4, EventsAssumption DEF EvInit, EvSets
<1>6. Subscribed
  BY OwnTypes DEF EvInit, Subscribed
<1> QED
  BY <1>4, <1>5, <1>6 DEF EvInv

\* Subscribing a handler to a type that has none.
LEMMA SubscribeOne ==
  ASSUME NEW subs \in [EvTypes -> Calls], NEW t \in EvTypes, NEW w \in Whos, subs[t] = <<>>
  PROVE  /\ Subscribe(subs, t, w) \in [EvTypes -> Calls]
         /\ \A u \in EvTypes : u # t => Subscribe(subs, t, w)[u] = subs[u]
<1>1. Append(subs[t], w) = <<w>> /\ <<w>> \in Calls
  BY DEF Calls
<1>2. Subscribe(subs, t, w) = [subs EXCEPT ![t] = <<w>>]
  BY <1>1 DEF Subscribe
<1> QED
  BY <1>1, <1>2

\* Publications, sends and channels that stay keep what is pending.
LEMMA PendingSame ==
  ASSUME UNCHANGED <<evPub, evSends, evChan>>, NEW n, Pending(n)
  PROVE  Pending(n)'
BY DEF Pending, Unsent, Delivered, Listening

\* Subscriptions.
LEMMA SubscribeStep ==
  ASSUME EvInv, InitAll \/ StartAll \/ SubscribeNotifier \/ EnableCron \/ DisableCron
  PROVE  EvInv'
<1> USE DEF EvInv, EvSets
<1>1. UNCHANGED <<evPub, evSends, evChan>> /\ evBoot' \in {"off", "plugins", "started", "up"} /\ evCron' \in BOOLEAN
  BY DEF InitAll, StartAll, SubscribeNotifier, EnableCron, DisableCron
<1>2. \A n \in 1..Len(evPub') : Pending(n)'
  BY <1>1, PendingSame
<1>3. ASSUME evSubs' \in [EvTypes -> Calls], Subscribed' PROVE EvInv'
  BY <1>1, <1>2, <1>3 DEF SendRecord
<1>4. CronTrigger \in EvTypes /\ CronTrigger \notin NotifierTypes /\ "cron" \in Whos
  BY OwnTypes DEF Own, Whos
<1>5. /\ CronSubscribe(evSubs) \in [EvTypes -> Calls]
      /\ \A t \in NotifierTypes : CronSubscribe(evSubs)[t] = evSubs[t]
  <2>1. CASE evSubs[CronTrigger] = <<>>
    <3>1. CronSubscribe(evSubs) = Subscribe(evSubs, CronTrigger, "cron")
      BY <2>1 DEF CronSubscribe
    <3> QED
      <4>1. /\ Subscribe(evSubs, CronTrigger, "cron") \in [EvTypes -> Calls]
            /\ \A u \in EvTypes : u # CronTrigger => Subscribe(evSubs, CronTrigger, "cron")[u] = evSubs[u]
        BY <1>4, <2>1, SubscribeOne, Zenon
      <4> QED
        BY <1>4, <3>1, <4>1, OwnTypes
  <2>2. CASE evSubs[CronTrigger] # <<>>
    BY <2>2 DEF CronSubscribe
  <2> QED
    BY <2>1, <2>2
<1>6. CASE InitAll
  <2>1. AlertFired \in Own /\ BuildFailed \in Own /\ BackupTrigger \in Own /\ TriggerBuild \in Own
        /\ {"selfheal", "diagnose", "backup", "deploy"} \subseteq Whos
    BY DEF Own, Whos
  <2>2. AlertFired \in EvTypes /\ BuildFailed \in EvTypes /\ BackupTrigger \in EvTypes /\ TriggerBuild \in EvTypes
    BY <2>1, OwnTypes
  <2>3. \A t \in EvTypes : evSubs[t] = <<>>
    BY <1>6 DEF InitAll, Subscribed
  <2> DEFINE s1 == Subscribe(evSubs, AlertFired, "selfheal")
             s2 == Subscribe(s1, BuildFailed, "diagnose")
             s3 == Subscribe(s2, BackupTrigger, "backup")
             s4 == Subscribe(s3, TriggerBuild, "deploy")
  <2>4. s1 \in [EvTypes -> Calls] /\ \A u \in EvTypes : u # AlertFired => s1[u] = <<>>
    <3>1. "selfheal" \in Whos /\ evSubs[AlertFired] = <<>>
      BY <2>1, <2>2, <2>3
    <3>2. s1 \in [EvTypes -> Calls] /\ \A u \in EvTypes : u # AlertFired => s1[u] = evSubs[u]
      BY <2>2, <3>1, SubscribeOne, Zenon
    <3> QED
      BY <2>3, <3>2
  <2> HIDE DEF s1
  <2>5. s2 \in [EvTypes -> Calls] /\ \A u \in EvTypes : u \notin {AlertFired, BuildFailed} => s2[u] = <<>>
    <3>1. s1[BuildFailed] = <<>> /\ "diagnose" \in Whos
      BY <2>1, <2>2, <2>4, TypesDiffer
    <3>2. s2 \in [EvTypes -> Calls] /\ \A u \in EvTypes : u # BuildFailed => s2[u] = s1[u]
      <4>1. s1 \in [EvTypes -> Calls] /\ BuildFailed \in EvTypes
        BY <2>2, <2>4
      <4> QED
        BY <3>1, <4>1, SubscribeOne, Zenon
    <3> HIDE DEF s2
    <3> QED
      BY <2>4, <3>2
  <2> HIDE DEF s2
  <2>6. s3 \in [EvTypes -> Calls]
        /\ \A u \in EvTypes : u \notin {AlertFired, BuildFailed, BackupTrigger} => s3[u] = <<>>
    <3>1. s2[BackupTrigger] = <<>> /\ "backup" \in Whos
      BY <2>1, <2>2, <2>5, TypesDiffer
    <3>2. s3 \in [EvTypes -> Calls] /\ \A u \in EvTypes : u # BackupTrigger => s3[u] = s2[u]
      BY <2>2, <2>5, <3>1, SubscribeOne, Zenon
    <3> HIDE DEF s3
    <3> QED
      BY <2>5, <3>2
  <2> HIDE DEF s3
  <2>7. s4 \in [EvTypes -> Calls] /\ \A u \in EvTypes : u \notin Own => s4[u] = <<>>
    <3>1. s3[TriggerBuild] = <<>> /\ "deploy" \in Whos
      BY <2>1, <2>2, <2>6, TypesDiffer
    <3>2. s4 \in [EvTypes -> Calls] /\ \A u \in EvTypes : u # TriggerBuild => s4[u] = s3[u]
      BY <2>2, <2>6, <3>1, SubscribeOne, Zenon
    <3> HIDE DEF s4
    <3> QED
      BY <2>6, <3>2 DEF Own
  <2>8. evSubs' = s4 /\ evBoot' = "plugins"
    BY <1>6 DEF InitAll, s1, s2, s3
  <2> HIDE DEF s4
  <2>9. Subscribed'
    BY <2>7, <2>8, OwnTypes DEF Subscribed
  <2> QED
    BY <1>3, <2>7, <2>8, <2>9
<1>7. CASE StartAll
  <2>1. evSubs' \in {evSubs, CronSubscribe(evSubs)} /\ evBoot' = "started" /\ evBoot # "up"
    BY <1>7 DEF StartAll
  <2>2. evSubs' \in [EvTypes -> Calls]
    BY <1>5, <2>1
  <2>3. Subscribed'
    BY <1>5, <2>1 DEF Subscribed
  <2> QED
    BY <1>3, <2>2, <2>3
<1>8. CASE SubscribeNotifier
  <2>1. \A t \in NotifierTypes : Append(evSubs[t], "notifier") = <<"notifier">>
    <3>1. \A t \in NotifierTypes : evSubs[t] = <<>>
      BY <1>8 DEF SubscribeNotifier, Subscribed
    <3>2. Append(<<>>, "notifier") = <<"notifier">>
      OBVIOUS
    <3> QED
      BY <3>1, <3>2
  <2>2. evSubs' = [t \in EvTypes |-> IF t \in NotifierTypes THEN <<"notifier">> ELSE evSubs[t]] /\ evBoot' = "up"
    BY <1>8, <2>1 DEF SubscribeNotifier
  <2>3. <<"notifier">> \in Calls
    BY DEF Calls, Whos
  <2>4. evSubs' \in [EvTypes -> Calls]
    BY <2>2, <2>3
  <2>5. Subscribed'
    BY <2>2, OwnTypes DEF Subscribed
  <2> QED
    BY <1>3, <2>4, <2>5
<1>9. CASE EnableCron
  <2>1. evSubs' = CronSubscribe(evSubs) /\ evBoot' = "up" /\ evBoot = "up"
    BY <1>9 DEF EnableCron
  <2> QED
    BY <1>3, <1>5, <2>1, OwnTypes DEF Subscribed
<1>10. CASE DisableCron
  BY <1>3, <1>10 DEF DisableCron, Subscribed
<1> QED
  BY <1>6, <1>7, <1>8, <1>9, <1>10

\* A new publication has its handlers before it, and nobody was told of it yet.
LEMMA PublishStep ==
  ASSUME EvInv, NEW t \in EvTypes, Publish(t)
  PROVE  EvInv'
<1> USE DEF EvInv, EvSets
<1>0. PICK N \in Nat : N = Len(evPub)
  BY LenProperties
<1> DEFINE new == [type |-> t, up |-> evBoot = "up", left |-> evSubs[t], ran |-> <<>>,
                   calm |-> [c \in Channels |-> IF Listening(c, t) THEN "on" ELSE "off"], did |-> {}]
<1>1. N < MaxPubs /\ evPub' = Append(evPub, new) /\ UNCHANGED <<evBoot, evCron, evSubs, evChan, evSends>>
  BY <1>0 DEF Publish
<1>2. new \in PubRecord
  <2>1. evSubs[t] \in Calls /\ <<>> \in Calls /\ (evBoot = "up") \in BOOLEAN /\ {} \in SUBSET Results
    BY DEF Calls
  <2>2. [c \in Channels |-> IF Listening(c, t) THEN "on" ELSE "off"] \in [Channels -> {"on", "off", "touched"}]
    OBVIOUS
  <2> QED
    BY <2>1, <2>2 DEF PubRecord
<1>3. /\ evPub' \in Seq(PubRecord) /\ Len(evPub') = N + 1
      /\ \A i \in 1..N : evPub'[i] = evPub[i]
      /\ evPub'[N + 1] = new
  BY <1>0, <1>1, <1>2, AppendProperties
<1>4. EvSets'
  BY <1>0, <1>1, <1>3, EventsAssumption DEF SendRecord
<1>5. Subscribed'
  BY <1>1 DEF Subscribed
<1>6. ASSUME NEW i \in 1..N PROVE Pending(i)'
  BY <1>0, <1>1, <1>3 DEF Pending, Unsent, Delivered, Listening
<1>7. Pending(N + 1)'
  <2>1. /\ new.ran = <<>> /\ new.type = t /\ new.left = evSubs[t] /\ (new.up <=> evBoot = "up")
        /\ \A c \in Channels : new.calm[c] = IF Listening(c, t) THEN "on" ELSE "off"
    OBVIOUS
  <2> HIDE DEF new
  <2>2. \A s \in evSends : s.pub # N + 1
    BY <1>0 DEF SendRecord
  <2>3. t = TaskFailed /\ evBoot = "up" => new.left = <<"notifier">> /\ Unsent(N + 1)'
    <3>1. ASSUME t = TaskFailed PROVE Unsent(N + 1)'
      <4>1. \A c \in Channels : evPub'[N + 1].calm[c] = IF Listening(c, TaskFailed) THEN "on" ELSE "off"
        BY <1>3, <2>1, <3>1
      <4>2. \A c \in Channels : Listening(c, TaskFailed)' <=> Listening(c, TaskFailed)
        BY <1>1 DEF Listening
      <4>3. \A s \in evSends' : s.pub # N + 1
        BY <1>1, <2>2
      <4> QED
        BY <4>1, <4>2, <4>3 DEF Unsent
    <3>2. t = TaskFailed /\ evBoot = "up" => new.left = <<"notifier">>
      BY <2>1 DEF Subscribed
    <3> QED
      BY <3>1, <3>2
  <2>4. evPub'[N + 1] = new
    BY <1>3
  <2> QED
    BY <2>1, <2>3, <2>4 DEF Pending
<1> QED
  BY <1>3, <1>4, <1>5, <1>6, <1>7

\* What a handler does.
LEMMA EffectIs == ASSUME NEW w \in Whos PROVE Effect(w) \subseteq Results
BY DEF Effect, Whos, Results

\* The one handler of a publication is called: the notifier sends to whom listens now, who are those
\* that listened when the event was published, the channels that changed since apart.
LEMMA CallStep ==
  ASSUME EvInv, NEW n \in 1..Len(evPub), CallHandler(n)
  PROVE  EvInv'
<1> USE DEF EvInv, EvSets
<1> DEFINE p == evPub[n]
           who == Head(evPub[n].left)
<1>1. p \in PubRecord
  BY ElementOfSeq
<1>2. p.left \in Calls /\ p.left # <<>> /\ p.did \subseteq Results /\ p.type \in EvTypes /\ p.up \in BOOLEAN
      /\ p.ran \in Calls
  BY <1>1 DEF PubRecord, CallHandler
<1>3. who \in Whos /\ Tail(p.left) = <<>> /\ p.left = <<who>> /\ p.ran = <<>>
  BY <1>2, OneCall DEF Pending
<1>4. PICK r \in Calls, d \in SUBSET Results :
        /\ evPub' = [evPub EXCEPT ![n] = [evPub[n] EXCEPT !.left = <<>>, !.ran = r, !.did = d]]
        /\ \/ "panic" \in d /\ evSends' = evSends
           \/ evSends' = IF who = "notifier" THEN evSends \cup Send(n) ELSE evSends
  <2>1. Append(p.ran, who) = <<who>> /\ <<who>> \in Calls /\ Effect(who) \subseteq Results /\ "panic" \in Results
    BY <1>3, EffectIs DEF Calls, Results
  <2>2. CASE /\ evPub' = [evPub EXCEPT ![n].left = Tail(@), ![n].ran = Append(@, who), ![n].did = @ \cup Effect(who)]
             /\ evSends' = IF who = "notifier" THEN evSends \cup Send(n) ELSE evSends
    <3>1. evPub' = [evPub EXCEPT ![n] = [evPub[n] EXCEPT !.left = <<>>, !.ran = <<who>>, !.did = p.did \cup Effect(who)]]
      BY <1>3, <2>1, <2>2
    <3>2. p.did \cup Effect(who) \in SUBSET Results
      BY <1>2, <2>1
    <3> HIDE DEF p, who
    <3> QED
      BY <2>1, <2>2, <3>1, <3>2
  <2>3. CASE /\ evPub' = [evPub EXCEPT ![n].left = Tail(@), ![n].did = @ \cup {"panic"}]
             /\ UNCHANGED evSends
    <3>1. evPub' = [evPub EXCEPT ![n] = [evPub[n] EXCEPT !.left = <<>>, !.ran = <<>>, !.did = p.did \cup {"panic"}]]
      BY <1>1, <1>3, <2>3 DEF PubRecord
    <3>2. p.did \cup {"panic"} \in SUBSET Results /\ <<>> \in Calls
      BY <1>2, <2>1 DEF Calls
    <3> HIDE DEF p, who
    <3> QED
      BY <2>3, <3>1, <3>2
  <2> QED
    BY <2>2, <2>3 DEF CallHandler
<1>5. UNCHANGED <<evBoot, evCron, evSubs, evChan>>
  BY DEF CallHandler
<1> DEFINE new == [evPub[n] EXCEPT !.left = <<>>, !.ran = r, !.did = d]
<1>6. /\ new \in PubRecord /\ new.left = <<>> /\ new.type = p.type /\ new.up = p.up /\ new.calm = p.calm
      /\ new.did = d
  BY <1>1 DEF PubRecord, Calls
<1>7. /\ evPub' \in Seq(PubRecord) /\ Len(evPub') = Len(evPub)
      /\ \A i \in 1..Len(evPub) : evPub'[i] = IF i = n THEN new ELSE evPub[i]
  BY <1>4, <1>6, ExceptSeq
<1> HIDE DEF new
<1>8. Send(n) \subseteq SendRecord /\ \A s \in Send(n) : s.pub = n
  BY DEF Send, SendRecord, SendSteps
<1>9. evSends \subseteq evSends' /\ evSends' \subseteq SendRecord /\ \A s \in evSends' \ evSends : s \in Send(n)
  BY <1>4, <1>8
<1>10. EvSets'
  BY <1>5, <1>7, <1>9 DEF SendRecord
<1>11. Subscribed'
  BY <1>5 DEF Subscribed
<1>12. ASSUME NEW i \in 1..Len(evPub), i # n PROVE Pending(i)'
  <2>1. evPub'[i] = evPub[i] /\ Pending(i)
    BY <1>7, <1>12
  <2>2. \A s \in evSends' : s.pub = i => s \in evSends
    BY <1>8, <1>9, <1>12
  <2> QED
    BY <1>5, <1>9, <2>1, <2>2 DEF Pending, Unsent, Delivered, Listening
<1>13. Pending(n)'
  <2>1. evPub'[n] = new
    BY <1>7
  <2>2. ASSUME p.type = TaskFailed, p.up, "panic" \notin d PROVE Delivered(n)'
    <3>1. who = "notifier" /\ Unsent(n)
      BY <1>2, <1>3, <2>2 DEF Pending
    <3>2. evSends' = evSends \cup Send(n)
      BY <1>4, <2>2, <3>1
    <3>3. \A c \in Channels : Listening(c, TaskFailed) <=> \E s \in Send(n) : s.ch = c
      <4>1. Send(n) = {[pub |-> n, ch |-> c, step |-> "sending"] : c \in {c \in Channels : Listening(c, TaskFailed)}}
        BY <2>2 DEF Send
      <4>2. \A c \in Channels : Listening(c, TaskFailed) =>
              /\ [pub |-> n, ch |-> c, step |-> "sending"] \in Send(n)
              /\ [pub |-> n, ch |-> c, step |-> "sending"].ch = c
        BY <4>1
      <4>3. \A s \in Send(n) : Listening(s.ch, TaskFailed)
        BY <4>1
      <4> QED
        BY <4>2, <4>3
    <3> QED
      BY <1>6, <1>8, <2>1, <3>1, <3>2, <3>3 DEF Delivered, Unsent
  <2>3. p.type = TaskFailed /\ p.up => Delivered(n)'
    BY <1>6, <2>1, <2>2 DEF Delivered
  <2> QED
    BY <1>6, <2>1, <2>3 DEF Pending
<1> QED
  BY <1>7, <1>10, <1>11, <1>12, <1>13

\* A send ends: it is of the same publication and channel.
LEMMA DeliverStep ==
  ASSUME EvInv, NEW s \in evSends, Deliver(s)
  PROVE  EvInv'
<1> USE DEF EvInv, EvSets
<1>1. PICK result \in {"sent", "failed"} : evSends' = (evSends \ {s}) \cup {[s EXCEPT !.step = result]}
  BY DEF Deliver
<1> DEFINE u == [s EXCEPT !.step = result]
<1>2. s \in SendRecord /\ u \in SendRecord /\ u.pub = s.pub /\ u.ch = s.ch
  BY DEF SendRecord, SendSteps
<1> HIDE DEF u
<1>3. UNCHANGED <<evBoot, evCron, evSubs, evChan, evPub>>
  BY DEF Deliver
<1>4. evSends' = (evSends \ {s}) \cup {u}
  BY <1>1 DEF u
<1>5. EvSets' /\ Subscribed'
  BY <1>2, <1>3, <1>4 DEF Subscribed, SendRecord
<1>6. ASSUME NEW n \in 1..Len(evPub) PROVE Pending(n)'
  <2>1. Pending(n)
    OBVIOUS
  <2>2. \A c : (\E x \in evSends : x.pub = n /\ x.ch = c) <=> (\E x \in evSends' : x.pub = n /\ x.ch = c)
    BY <1>2, <1>4
  <2>3. (\A x \in evSends : x.pub # n) => (\A x \in evSends' : x.pub # n)
    BY <1>2, <1>4
  <2>4. Unsent(n) => Unsent(n)'
    <3>1. \A c : Listening(c, TaskFailed)' <=> Listening(c, TaskFailed)
      BY <1>3 DEF Listening
    <3> QED
      BY <1>3, <2>3, <3>1 DEF Unsent
  <2>5. Delivered(n) => Delivered(n)'
    <3>1. \A c : (\A x \in evSends : x.pub = n => x.ch # c) => (\A x \in evSends' : x.pub = n => x.ch # c)
      BY <2>2
    <3> QED
      BY <1>3, <2>2, <3>1 DEF Delivered
  <2> QED
    BY <1>3, <2>1, <2>4, <2>5 DEF Pending
<1> QED
  BY <1>3, <1>5, <1>6

\* A channel that changes is touched in every publication that is not handled yet.
LEMMA ChannelStep ==
  ASSUME EvInv, NEW c \in Channels, CreateChannel(c) \/ UpdateChannel(c) \/ DeleteChannel(c)
  PROVE  EvInv'
<1> USE DEF EvInv, EvSets
<1>1. /\ Touch(c) /\ UNCHANGED <<evBoot, evCron, evSubs, evSends>>
      /\ evChan' \in [Channels -> ChanRecord]
      /\ \A a \in Channels \ {c} : evChan'[a] = evChan[a]
  <2>1. evChan[c] \in ChanRecord
    OBVIOUS
  <2>2. \E x \in ChanRecord : evChan' = [evChan EXCEPT ![c] = x]
    <3>1. CASE CreateChannel(c)
      <4>1. PICK f \in Filters : evChan' = [evChan EXCEPT ![c] = [there |-> TRUE, enabled |-> TRUE, events |-> f]]
        BY <3>1 DEF CreateChannel
      <4>2. [there |-> TRUE, enabled |-> TRUE, events |-> f] \in ChanRecord
        BY DEF ChanRecord
      <4> QED
        BY <4>1, <4>2
    <3>2. CASE UpdateChannel(c) /\ \E b \in BOOLEAN : evChan' = [evChan EXCEPT ![c].enabled = b]
      <4>1. PICK b \in BOOLEAN : evChan' = [evChan EXCEPT ![c].enabled = b]
        BY <3>2
      <4>2. [evChan[c] EXCEPT !.enabled = b] \in ChanRecord
        BY <2>1 DEF ChanRecord
      <4> QED
        BY <4>1, <4>2
    <3>3. CASE UpdateChannel(c) /\ \E f \in Filters : evChan' = [evChan EXCEPT ![c].events = f]
      <4>1. PICK f \in Filters : evChan' = [evChan EXCEPT ![c].events = f]
        BY <3>3
      <4>2. [evChan[c] EXCEPT !.events = f] \in ChanRecord
        BY <2>1 DEF ChanRecord
      <4> QED
        BY <4>1, <4>2
    <3>4. CASE DeleteChannel(c)
      <4>1. [there |-> FALSE, enabled |-> FALSE, events |-> {}] \in ChanRecord
        BY DEF ChanRecord
      <4> QED
        BY <3>4, <4>1 DEF DeleteChannel
    <3> QED
      BY <3>1, <3>2, <3>3, <3>4 DEF UpdateChannel
  <2> QED
    BY <2>2 DEF CreateChannel, UpdateChannel, DeleteChannel
<1>2. evPub \in [1..Len(evPub) -> PubRecord] /\ Len(evPub) \in Nat
  BY LenProperties
<1> DEFINE P(n) == IF evPub[n].left # <<>> THEN [evPub[n] EXCEPT !.calm[c] = "touched"] ELSE evPub[n]
<1>3. evPub' = [n \in 1..Len(evPub) |-> P(n)]
  BY <1>1, <1>2 DEF Touch
<1>4. ASSUME NEW n \in 1..Len(evPub)
      PROVE  /\ P(n) \in PubRecord /\ P(n).left = evPub[n].left /\ P(n).ran = evPub[n].ran
             /\ P(n).type = evPub[n].type /\ P(n).up = evPub[n].up /\ P(n).did = evPub[n].did
             /\ evPub[n].left = <<>> => P(n) = evPub[n]
             /\ evPub[n].left # <<>> => /\ P(n).calm[c] = "touched"
                                        /\ \A a \in Channels \ {c} : P(n).calm[a] = evPub[n].calm[a]
  <2>1. evPub[n] \in PubRecord
    BY <1>2
  <2>2. evPub[n].calm \in [Channels -> {"on", "off", "touched"}]
    BY <2>1 DEF PubRecord
  <2>3. [evPub[n] EXCEPT !.calm[c] = "touched"] = [evPub[n] EXCEPT !.calm = [evPub[n].calm EXCEPT ![c] = "touched"]]
    OBVIOUS
  <2> DEFINE k == [evPub[n].calm EXCEPT ![c] = "touched"]
  <2>4. k \in [Channels -> {"on", "off", "touched"}] /\ k[c] = "touched" /\ \A a \in Channels \ {c} : k[a] = evPub[n].calm[a]
    BY <2>2
  <2> HIDE DEF k
  <2>5. /\ [evPub[n] EXCEPT !.calm = k] \in PubRecord
        /\ [evPub[n] EXCEPT !.calm = k].left = evPub[n].left /\ [evPub[n] EXCEPT !.calm = k].ran = evPub[n].ran
        /\ [evPub[n] EXCEPT !.calm = k].type = evPub[n].type /\ [evPub[n] EXCEPT !.calm = k].up = evPub[n].up
        /\ [evPub[n] EXCEPT !.calm = k].did = evPub[n].did /\ [evPub[n] EXCEPT !.calm = k].calm = k
    BY <2>1, <2>4 DEF PubRecord
  <2>6. CASE evPub[n].left # <<>>
    <3>1. P(n) = [evPub[n] EXCEPT !.calm = k]
      BY <2>3, <2>6, SMTT(30) DEF k
    <3> QED
      BY <2>4, <2>5, <2>6, <3>1
  <2>7. CASE evPub[n].left = <<>>
    <3>1. P(n) = evPub[n]
      BY <2>7
    <3> QED
      BY <2>1, <2>7, <3>1
  <2> QED
    BY <2>6, <2>7
<1> HIDE DEF P
<1>5. evPub' \in Seq(PubRecord) /\ Len(evPub') = Len(evPub) /\ \A n \in 1..Len(evPub) : evPub'[n] = P(n)
  BY <1>2, <1>3, <1>4
<1>6. EvSets' /\ Subscribed'
  BY <1>1, <1>5 DEF Subscribed, SendRecord
<1>7. ASSUME NEW n \in 1..Len(evPub) PROVE Pending(n)'
  <2>1. Pending(n) /\ evPub'[n] = P(n)
    BY <1>5
  <2>2. CASE evPub[n].left = <<>>
    BY <1>1, <1>4, <2>1, <2>2 DEF Pending, Delivered
  <2>3. CASE evPub[n].left # <<>>
    <3>1. Unsent(n) => Unsent(n)'
      BY <1>1, <1>4, <2>1, <2>3 DEF Unsent, Listening
    <3> QED
      BY <1>4, <2>1, <2>3, <3>1 DEF Pending
  <2> QED
    BY <2>2, <2>3
<1> QED
  BY <1>5, <1>6, <1>7

\* Every step of the bus and of the channels keeps the invariant.
LEMMA EvInvStep == EvInv /\ EvNext => EvInv'
<1> SUFFICES ASSUME EvInv, EvNext PROVE EvInv'
  OBVIOUS
<1>1. CoreCommands \subseteq EvTypes /\ Background \subseteq EvTypes /\ BuildFailed \in EvTypes
  BY DEF EvTypes
<1>2. ASSUME NEW t \in Background, PublishBackground(t) PROVE EvInv'
  BY <1>1, <1>2, PublishStep DEF PublishBackground
<1>3. ASSUME NEW t \in CoreCommands, PublishCommand(t) PROVE EvInv'
  BY <1>1, <1>3, PublishStep DEF PublishCommand
<1>4. CASE PublishBuildFailed
  BY <1>1, <1>4, PublishStep DEF PublishBuildFailed
<1>5. DOMAIN evPub = 1..Len(evPub)
  BY LenProperties DEF EvInv, EvSets
<1> QED
  BY <1>2, <1>3, <1>4, <1>5, SubscribeStep, CallStep, DeliverStep, ChannelStep DEF EvNext

\* What the invariant is for.
LEMMA EventsAreSound == EvInv => EventsSound /\ EvTypeOK
<1> SUFFICES ASSUME EvInv PROVE EventsSound /\ EvTypeOK
  OBVIOUS
<1>1. DOMAIN evPub = 1..Len(evPub) /\ \A n \in 1..Len(evPub) : evPub[n] \in PubRecord
  BY LenProperties, ElementOfSeq DEF EvInv, EvSets
<1>2. HandledOnce
  BY <1>1, OneCall DEF HandledOnce, PubRecord
<1>3. ASSUME NEW n \in 1..Len(evPub), evPub[n].type = TaskFailed, evPub[n].up, evPub[n].left = <<>>,
             "panic" \notin evPub[n].did, NEW c \in Channels
      PROVE  /\ evPub[n].calm[c] = "on" => c \in SentTo(n)
             /\ evPub[n].calm[c] = "off" => c \notin SentTo(n)
  <2>1. Delivered(n)
    BY <1>3 DEF EvInv, Pending
  <2> QED
    BY <1>3, <2>1 DEF Delivered, SentTo
<1>4. FailuresNotified
  BY <1>1, <1>3 DEF FailuresNotified
<1>5. EvTypeOK
  <2>1. \A t \in EvTypes : evSubs[t] \in Seq(Whos)
    BY OneCall DEF EvInv, EvSets
  <2>2. \A c \in Channels : evChan[c].there \in BOOLEAN /\ evChan[c].enabled \in BOOLEAN
    BY DEF EvInv, EvSets, ChanRecord
  <2>3. \A n \in DOMAIN evPub : evPub[n].type \in EvTypes /\ evPub[n].left \in Seq(Whos)
    BY <1>1, OneCall DEF PubRecord
  <2>4. \A s \in evSends : s.pub \in DOMAIN evPub /\ s.ch \in Channels /\ s.step \in {"sending", "sent", "failed"}
    BY <1>1 DEF EvInv, EvSets, SendRecord, SendSteps
  <2> QED
    BY <2>1, <2>2, <2>3, <2>4 DEF EvInv, EvSets, EvTypeOK
<1> QED
  BY <1>2, <1>4, <1>5 DEF EventsSound

-----------------------------------------------------------------------------
(* Files and archives.                                                     *)

\* Paths below the root.
BelowRoot == Seq(PathNames) \ {<<>>}
FileData == Contents \cup {"none", "torn", "open", "archive", "packed"}
\* The entries of archives.
FileEntry == [path : BelowRoot, kind : {"dir", "file"}, data : FileData]

\* Two nodes are alike.
Same(n, m) == n.kind = m.kind /\ n.data = m.data

\* What a tree that was packed is: closed upwards, with files only at its ends.
Grown(of) ==
  /\ DOMAIN of \subseteq BelowRoot
  /\ \A x \in DOMAIN of : /\ of[x] = [kind |-> of[x].kind, data |-> of[x].data]
                          /\ of[x].kind = "dir" => of[x].data = "none"
                          /\ \A y \in Above(x) \ {x} : y \in DOMAIN of /\ of[y].kind = "dir"
\* A list of entries makes a tree: it has all of its paths, each as it is there, and no others.
Makes(list, of) ==
  of # NoTree =>
    /\ Grown(of)
    /\ \A i \in DOMAIN list : list[i].path \in DOMAIN of /\ Same(list[i], of[list[i].path])
    /\ \A x \in DOMAIN of : \E i \in DOMAIN list : list[i].path = x

\* A node; an archive whose making nobody has disturbed lists the tree it was made of.
NodeSound(n) ==
  /\ n.kind \in {"dir", "file"} /\ n.data \in FileData /\ n.list \in Seq(FileEntry)
  /\ n.kind = "dir" => n.data = "none"
  /\ Makes(n.list, n.of)

\* A tree is closed upwards: above a path are directories.
SoundTree(t) ==
  /\ IsFiniteSet(DOMAIN t) /\ DOMAIN t \subseteq BelowRoot
  /\ t = [p \in DOMAIN t |-> t[p]]
  /\ \A p \in DOMAIN t : NodeSound(t[p])
  /\ \A p \in DOMAIN t, q \in BelowRoot : IsPrefix(q, p) /\ q # p => q \in DOMAIN t /\ t[q].kind = "dir"

\* What a request is.
HasFields(q) ==
  q = [op |-> q.op, step |-> q.step, todo |-> q.todo, dest |-> q.dest, data |-> q.data, list |-> q.list,
       open |-> q.open, sources |-> q.sources, kept |-> q.kept, calm |-> q.calm, of |-> q.of]

\* The shapes of requests.
ReqShape(q) ==
  /\ HasFields(q) /\ q.calm \in BOOLEAN
  /\ q.dest \in Seq(PathNames) /\ \A p \in q.open : There(p) /\ tree[p].kind = "file" /\ q.open = {p}
  /\ \/ q = FileRest
     \/ q.op = "write" /\ q.step \in {"create", "fill"} /\ q.dest # <<>> /\ q.data \in Contents
     \/ q.op = "delete" /\ q.step = "delete" /\ q.open = {} /\ q.todo # <<>> /\ q.todo \in Seq(Seq(PathNames))
     \/ /\ q.op = "pack" /\ q.step \in {"create", "walk", "ended"} /\ q.dest # <<>>
        /\ q.step = "create" => q.list = <<>>
        /\ q.sources \in Seq(BelowRoot) /\ q.sources # <<>>
     \/ q.op = "extract" /\ q.step \in {"extract", "ended"} /\ q.todo \in Seq(FileEntry)

\* The paths that an open walk owes: those of its sources, as long as nobody has altered them.
Owed(q) == q.kept \cup IF q.step = "walk" /\ q.calm /\ q.of # NoTree THEN Under(q.sources) ELSE {}

\* A path is listed, or ahead of the walk below something it has still to look at.
Listed(q, s, p) ==
  \/ Contains(q.list, Entry(s, p, Stored(p)))
  \/ q.step = "walk" /\ \E j \in DOMAIN q.todo : q.todo[j].src = s /\ IsPrefix(q.todo[j].path, p)

\* A walk: what it owes is there and is listed or ahead; undisturbed, it has listed nothing else.
Packing(q) ==
  /\ q.list \in Seq(FileEntry)
  /\ q.step = "walk" => /\ q.todo # <<>> /\ q.todo \in Seq([src : ToSet(q.sources), path : BelowRoot])
                        /\ \A j \in DOMAIN q.todo : IsPrefix(q.todo[j].src, q.todo[j].path)
  /\ \A p \in Owed(q) : /\ There(p) /\ p \notin q.open /\ \E s \in ToSet(q.sources) : IsPrefix(s, p)
                        /\ \A s \in ToSet(q.sources) : IsPrefix(s, p) => Listed(q, s, p)
  /\ q.step = "walk" /\ q.calm /\ q.of # NoTree =>
       /\ q.of = TreeOf(q.sources, q.dest)
       /\ \A i \in DOMAIN q.list : \E s \in ToSet(q.sources), p \in DOMAIN tree :
            IsPrefix(s, p) /\ q.list[i] = Entry(s, p, Stored(p))

\* An undisturbed extraction has placed the entries it has passed, and nothing else.
Extracting(q) ==
  q.calm /\ q.of # NoTree =>
    /\ Grown(q.of) /\ CanMkdirAll(q.dest)
    /\ \A p \in Within(q.dest) \ {q.dest} : \E x \in DOMAIN q.of : p = q.dest \o x /\ Same(tree[p], q.of[x])
    /\ \A x \in DOMAIN q.of : There(q.dest \o x) \/ \E j \in DOMAIN q.todo : q.todo[j].path = x
    /\ \A j \in DOMAIN q.todo : q.todo[j].path \in DOMAIN q.of /\ Same(q.todo[j], q.of[q.todo[j].path])
    /\ q.step = "ended" => q.todo = <<>>

\* A request.
ReqSound(q) ==
  /\ ReqShape(q)
  /\ q.op = "pack" /\ q.step \in {"walk", "ended"} => Packing(q)
  /\ q.op = "extract" => Extracting(q)

\* The tree and its requests.
FileInv == SoundTree(tree) /\ DOMAIN fileReq = FileReqs /\ \A r \in FileReqs : ReqSound(fileReq[r])

-----------------------------------------------------------------------------
(* Paths.                                                                  *)

Paths == Seq(PathNames)

\* A path is a prefix of another when it is as far as it goes.
LEMMA PrefixIs ==
  ASSUME NEW p \in Paths, NEW q \in Paths
  PROVE  IsPrefix(p, q) <=> Len(p) <= Len(q) /\ \A i \in 1 .. Len(p) : p[i] = q[i]
BY DEF IsPrefix, Paths

\* A path is a prefix of itself.
LEMMA PrefixRefl == ASSUME NEW p \in Paths PROVE IsPrefix(p, p)
BY PrefixIs DEF Paths

\* And of what has a prefix that it is a prefix of.
LEMMA PrefixTrans ==
  ASSUME NEW p \in Paths, NEW q \in Paths, NEW s \in Paths, IsPrefix(p, q), IsPrefix(q, s)
  PROVE  IsPrefix(p, s)
<1>1. Len(p) \in Nat /\ Len(q) \in Nat /\ Len(s) \in Nat
  BY DEF Paths
<1>2. Len(p) <= Len(q) /\ Len(q) <= Len(s)
  BY PrefixIs
<1>3. \A i \in 1 .. Len(p) : p[i] = q[i] /\ i \in 1 .. Len(q)
  BY <1>1, <1>2, PrefixIs
<1>4. \A i \in 1 .. Len(q) : q[i] = s[i]
  BY PrefixIs
<1> QED
  BY <1>1, <1>2, <1>3, <1>4, PrefixIs

\* A prefix that is not shorter is the path.
LEMMA PrefixSame ==
  ASSUME NEW p \in Paths, NEW q \in Paths, IsPrefix(p, q), Len(p) >= Len(q)
  PROVE  p = q
BY PrefixIs DEF Paths

\* Two prefixes of a path: the shorter one is a prefix of the other.
LEMMA PrefixesNest ==
  ASSUME NEW p \in Paths, NEW q \in Paths, NEW s \in Paths, IsPrefix(p, s), IsPrefix(q, s), Len(p) <= Len(q)
  PROVE  IsPrefix(p, q)
<1>1. Len(p) \in Nat /\ Len(q) \in Nat
  BY DEF Paths
<1>2. (\A i \in 1 .. Len(p) : p[i] = s[i]) /\ (\A i \in 1 .. Len(q) : q[i] = s[i])
  BY PrefixIs
<1>3. \A i \in 1 .. Len(p) : p[i] = q[i]
  BY <1>1, <1>2
<1> QED
  BY <1>3, PrefixIs

\* A part of a path up to a place.
LEMMA CutIs ==
  ASSUME NEW p \in Paths, NEW n \in 0 .. Len(p)
  PROVE  /\ SubSeq(p, 1, n) \in Paths /\ Len(SubSeq(p, 1, n)) = n /\ IsPrefix(SubSeq(p, 1, n), p)
         /\ \A i \in 1 .. n : SubSeq(p, 1, n)[i] = p[i]
<1>1. /\ SubSeq(p, 1, n) \in Paths /\ Len(SubSeq(p, 1, n)) = n
      /\ \A i \in 1 .. n : SubSeq(p, 1, n)[i] = p[i]
  BY DEF Paths
<1>2. Len(p) \in Nat
  BY DEF Paths
<1>3. \A q \in Paths : Len(q) = n /\ (\A i \in 1 .. n : q[i] = p[i]) => IsPrefix(q, p)
  BY <1>2, PrefixIs
<1> QED
  BY <1>1, <1>3

\* The paths above a path, itself among them.
LEMMA AboveIs ==
  ASSUME NEW p \in Paths
  PROVE  /\ Above(p) \subseteq BelowRoot /\ IsFiniteSet(Above(p))
         /\ \A q \in BelowRoot : q \in Above(p) <=> IsPrefix(q, p)
<1>1. ASSUME NEW q \in Above(p) PROVE q \in BelowRoot /\ IsPrefix(q, p)
  <2>1. PICK n \in 1 .. Len(p) : q = SubSeq(p, 1, n)
    BY DEF Above
  <2>2. n \in 0 .. Len(p) /\ n # 0
    BY DEF Paths
  <2>3. q \in Paths /\ Len(q) # 0 /\ IsPrefix(q, p)
    BY <2>1, <2>2, CutIs
  <2> QED
    BY <2>3 DEF BelowRoot, Paths
<1>2. ASSUME NEW q \in BelowRoot, IsPrefix(q, p) PROVE q \in Above(p)
  <2>0. q \in Paths /\ Len(q) \in Nat /\ Len(q) # 0 /\ Len(p) \in Nat
    BY DEF BelowRoot, Paths
  <2>1. q \in Paths /\ Len(q) \in 1 .. Len(p)
    BY <1>2, <2>0, PrefixIs
  <2>2. q = SubSeq(p, 1, Len(q))
    BY <1>2, <2>1 DEF IsPrefix, Paths
  <2> QED
    BY <2>1, <2>2 DEF Above
<1>3. IsFiniteSet(Above(p))
  <2>0. 1 \in Int /\ Len(p) \in Int
    BY DEF Paths
  <2>1. IsFiniteSet(1 .. Len(p))
    BY <2>0, FS_Interval
  <2> DEFINE f == [n \in 1 .. Len(p) |-> SubSeq(p, 1, n)]
  <2>2. f \in Surjection(1 .. Len(p), Above(p))
    BY DEF Above, Surjection
  <2> QED
    BY <2>1, <2>2, FS_Surjection
<1> QED
  BY <1>1, <1>2, <1>3

\* The directory of a path.
LEMMA FrontIs ==
  ASSUME NEW p \in BelowRoot
  PROVE  /\ Front(p) \in Paths /\ Len(Front(p)) = Len(p) - 1 /\ IsPrefix(Front(p), p) /\ Front(p) # p
         /\ \A q \in Paths : IsPrefix(q, p) /\ q # p => IsPrefix(q, Front(p))
<1>1. p \in Paths /\ Len(p) \in Nat /\ Len(p) >= 1
  BY DEF BelowRoot, Paths
<1>2. Front(p) \in Paths /\ Len(Front(p)) = Len(p) - 1 /\ IsPrefix(Front(p), p)
  <2>1. Len(p) - 1 \in 0 .. Len(p)
    BY <1>1
  <2> QED
    BY <1>1, <2>1, CutIs DEF Front
<1>3. ASSUME NEW q \in Paths, IsPrefix(q, p), q # p PROVE IsPrefix(q, Front(p))
  <2>1. Len(q) \in Nat /\ Len(q) <= Len(p) - 1
    BY <1>1, <1>3, PrefixSame DEF Paths
  <2> QED
    BY <1>1, <1>2, <1>3, <2>1, PrefixesNest
<1> QED
  BY <1>1, <1>2, <1>3

-----------------------------------------------------------------------------
(* Trees.                                                                  *)

\* Directories and files that are no archives are sound nodes.
LEMMA PlainNodes ==
  /\ NodeSound(Directory) /\ Directory.kind = "dir" /\ Directory.data = "none"
  /\ \A d \in FileData : NodeSound(Node("file", d)) /\ Node("file", d).kind = "file" /\ Node("file", d).data = d
BY DEF NodeSound, Directory, Node, Makes, FileData

\* Directories are added to a sound tree.
LEMMA MkdirAllKeeps ==
  ASSUME NEW p \in Paths, SoundTree(tree)
  PROVE  /\ SoundTree(MkdirAll(p)) /\ DOMAIN tree \subseteq DOMAIN MkdirAll(p)
         /\ \A q \in DOMAIN tree : MkdirAll(p)[q] = tree[q]
         /\ \A q \in DOMAIN MkdirAll(p) : q \in DOMAIN tree \/ (q \in Above(p) /\ MkdirAll(p)[q] = Directory)
         /\ CanMkdirAll(p) => \A q \in Above(p) : q \in DOMAIN MkdirAll(p) /\ MkdirAll(p)[q].kind = "dir"
<1> DEFINE made == MkdirAll(p)
           D == [q \in Above(p) |-> Directory]
<1>1. CASE ~CanMkdirAll(p)
  <2>1. made = tree
    BY <1>1 DEF MkdirAll
  <2> QED
    BY <1>1, <2>1
<1>2. CASE CanMkdirAll(p)
  <2>1. made = [q \in DOMAIN tree \cup Above(p) |-> IF q \in DOMAIN tree THEN tree[q] ELSE Directory]
    BY <1>2 DEF MkdirAll, There
  <2>2. /\ DOMAIN made = DOMAIN tree \cup Above(p)
        /\ \A q \in DOMAIN tree : made[q] = tree[q]
        /\ \A q \in Above(p) : q \notin DOMAIN tree => made[q] = Directory
    BY <2>1
  <2>3. \A q \in Above(p) : made[q].kind = "dir"
    <3> SUFFICES ASSUME NEW q \in Above(p) PROVE made[q].kind = "dir"
      OBVIOUS
    <3>1. CASE q \in DOMAIN tree
      <4>1. q # <<>>
        BY AboveIs DEF BelowRoot
      <4> QED
        BY <1>2, <2>2, <3>1, <4>1 DEF CanMkdirAll, There, IsDir
    <3>2. CASE q \notin DOMAIN tree
      BY <2>2, <3>2, PlainNodes
    <3> QED
      BY <3>1, <3>2
  <2>4. SoundTree(made)
    <3>1. IsFiniteSet(DOMAIN made) /\ DOMAIN made \subseteq BelowRoot
      <4>1. IsFiniteSet(DOMAIN tree) /\ DOMAIN tree \subseteq BelowRoot /\ IsFiniteSet(Above(p)) /\ Above(p) \subseteq BelowRoot
        BY AboveIs DEF SoundTree
      <4> QED
        BY <2>2, <4>1, FS_Union
    <3>2. made = [q \in DOMAIN made |-> made[q]]
      BY <2>1
    <3>3. \A q \in DOMAIN made : NodeSound(made[q])
      BY <2>2, PlainNodes DEF SoundTree
    <3>4. ASSUME NEW q \in DOMAIN made, NEW s \in BelowRoot, IsPrefix(s, q), s # q
          PROVE  s \in DOMAIN made /\ made[s].kind = "dir"
      <4>1. CASE q \in DOMAIN tree
        BY <2>2, <3>4, <4>1 DEF SoundTree
      <4>2. CASE q \in Above(p)
        <5>1. q \in Paths /\ s \in Paths /\ IsPrefix(q, p)
          BY <4>2, AboveIs DEF BelowRoot, Paths
        <5>2. s \in Above(p)
          BY <3>4, <5>1, PrefixTrans, AboveIs
        <5> QED
          BY <2>2, <2>3, <5>2
      <4> QED
        BY <2>2, <4>1, <4>2
    <3> QED
      BY <3>1, <3>2, <3>3, <3>4 DEF SoundTree
  <2> QED
    BY <2>2, <2>3, <2>4
<1> QED
  BY <1>1, <1>2

\* A file is created in a directory, or takes the place of a file.
FitsIn(t, p, n) ==
  /\ SoundTree(t) /\ p \in BelowRoot /\ NodeSound(n) /\ n.kind = "file"
  /\ p \in DOMAIN t => t[p].kind # "dir"
  /\ Front(p) = <<>> \/ (Front(p) \in DOMAIN t /\ t[Front(p)].kind = "dir")

AddedTo(t, p, n, new) ==
  /\ SoundTree(new) /\ DOMAIN new = DOMAIN t \cup {p} /\ new[p] = n
  /\ \A q \in DOMAIN t : q # p => new[q] = t[q]

\* A file is put where its directory is.
LEMMA FileAdded ==
  ASSUME NEW t, NEW p, NEW n, FitsIn(t, p, n)
  PROVE  AddedTo(t, p, n, Put(t, p, n))
<1> DEFINE new == Put(t, p, n)
<1>0. /\ SoundTree(t) /\ p \in BelowRoot /\ NodeSound(n) /\ n.kind = "file"
      /\ p \in DOMAIN t => t[p].kind # "dir"
      /\ Front(p) = <<>> \/ (Front(p) \in DOMAIN t /\ t[Front(p)].kind = "dir")
  BY DEF FitsIn
<1>1. new = [q \in {p} \cup DOMAIN t |-> IF q = p THEN n ELSE t[q]]
  BY DEF Put
<1>2. DOMAIN new = DOMAIN t \cup {p} /\ new[p] = n /\ \A q \in DOMAIN t : q # p => new[q] = t[q]
  BY <1>1
<1>3. IsFiniteSet(DOMAIN new) /\ DOMAIN new \subseteq BelowRoot
  BY <1>0, <1>2, FS_AddElement DEF SoundTree
<1>4. new = [q \in DOMAIN new |-> new[q]]
  BY <1>1
<1>5. \A q \in DOMAIN new : NodeSound(new[q])
  BY <1>0, <1>2 DEF SoundTree
<1>6. ASSUME NEW q \in DOMAIN new, NEW s \in BelowRoot, IsPrefix(s, q), s # q
      PROVE  s \in DOMAIN new /\ new[s].kind = "dir"
  <2>0. p \in Paths /\ s \in Paths /\ s # <<>>
    BY <1>0 DEF BelowRoot, Paths
  <2>1. CASE q = p
    <3>1. IsPrefix(s, Front(p)) /\ Front(p) \in Paths
      BY <1>0, <1>6, <2>0, <2>1, FrontIs
    <3>2. Front(p) # <<>>
      <4>1. Len(s) # 0 /\ Len(s) \in Nat /\ Len(<<>>) = 0
        BY <2>0 DEF Paths
      <4> QED
        BY <3>1, <4>1 DEF IsPrefix
    <3>3. Front(p) \in DOMAIN t /\ t[Front(p)].kind = "dir"
      BY <1>0, <3>2
    <3>4. s \in DOMAIN t /\ t[s].kind = "dir"
      BY <1>0, <3>1, <3>3 DEF SoundTree
    <3> QED
      BY <1>2, <1>6, <2>1, <3>4
  <2>2. CASE q # p
    <3>1. s \in DOMAIN t /\ t[s].kind = "dir"
      BY <1>0, <1>2, <1>6, <2>2 DEF SoundTree
    <3>2. s # p
      BY <1>0, <3>1
    <3> QED
      BY <1>2, <3>1, <3>2
  <2> QED
    BY <2>1, <2>2
<1>7. SoundTree(new)
  BY <1>3, <1>4, <1>5, <1>6 DEF SoundTree
<1> HIDE DEF new
<1>8. AddedTo(t, p, n, new)
  BY <1>2, <1>7 DEF AddedTo
<1> QED
  BY <1>8 DEF new

\* What is in files changes.
LEMMA FilesFilled ==
  ASSUME NEW t, SoundTree(t), NEW new, new = [p \in DOMAIN t |-> new[p]],
         \A p \in DOMAIN t : new[p] = t[p] \/ (NodeSound(new[p]) /\ new[p].kind = t[p].kind)
  PROVE  SoundTree(new) /\ DOMAIN new = DOMAIN t
<1>1. DOMAIN new = DOMAIN t
  OBVIOUS
<1>2. \A p \in DOMAIN t : NodeSound(new[p]) /\ new[p].kind = t[p].kind
  BY DEF SoundTree
<1> QED
  BY <1>1, <1>2 DEF SoundTree

\* A path is removed with all below it.
LEMMA PathRemoved ==
  ASSUME SoundTree(tree), NEW p \in Paths
  PROVE  SoundTree([q \in DOMAIN tree \ Within(p) |-> tree[q]])
<1> DEFINE D == DOMAIN tree \ Within(p)
           new == [q \in D |-> tree[q]]
<1>1. IsFiniteSet(D) /\ D \subseteq BelowRoot
  BY FS_Subset DEF SoundTree
<1>2. \A q \in D : NodeSound(new[q])
  BY DEF SoundTree
<1>3. ASSUME NEW q \in D, NEW s \in BelowRoot, IsPrefix(s, q), s # q PROVE s \in D /\ new[s].kind = "dir"
  <2>1. s \in DOMAIN tree /\ tree[s].kind = "dir"
    BY <1>3 DEF SoundTree
  <2>2. q \in Paths /\ s \in Paths
    BY <1>1 DEF BelowRoot, Paths
  <2>3. ~IsPrefix(p, s)
    BY <1>3, <2>2, PrefixTrans DEF Within
  <2> QED
    BY <2>1, <2>3 DEF Within
<1> QED
  BY <1>1, <1>2, <1>3 DEF SoundTree

-----------------------------------------------------------------------------
(* Renaming.                                                               *)

\* A path under the new name of a path above it.
LEMMA MovedIs ==
  ASSUME NEW old \in Paths, NEW new \in Paths, NEW q \in Paths, IsPrefix(old, q)
  PROVE  /\ Moved(old, new, q) \in Paths /\ Len(Moved(old, new, q)) = Len(new) + Len(q) - Len(old)
         /\ IsPrefix(new, Moved(old, new, q))
         /\ \A i \in 1 .. Len(new) : Moved(old, new, q)[i] = new[i]
         /\ \A i \in Len(new) + 1 .. Len(new) + Len(q) - Len(old) : Moved(old, new, q)[i] = q[i - Len(new) + Len(old)]
<1> DEFINE rest == SubSeq(q, Len(old) + 1, Len(q))
<1>1. Len(old) \in Nat /\ Len(q) \in Nat /\ Len(new) \in Nat /\ Len(old) <= Len(q)
  BY PrefixIs DEF Paths
<1>2. rest \in Paths /\ Len(rest) = Len(q) - Len(old) /\ \A i \in 1 .. Len(rest) : rest[i] = q[i + Len(old)]
  BY <1>1 DEF Paths
<1>3. ASSUME NEW z \in Paths, Len(z) = Len(q) - Len(old), \A i \in 1 .. Len(z) : z[i] = q[i + Len(old)]
      PROVE  /\ new \o z \in Paths /\ Len(new \o z) = Len(new) + Len(q) - Len(old)
             /\ \A i \in 1 .. Len(new) : (new \o z)[i] = new[i]
             /\ \A i \in Len(new) + 1 .. Len(new) + Len(q) - Len(old) : (new \o z)[i] = q[i - Len(new) + Len(old)]
  <2>1. new \o z \in Paths /\ Len(new \o z) = Len(new) + Len(z)
    BY DEF Paths
  <2>2. \A i \in 1 .. Len(new) : (new \o z)[i] = new[i]
    BY <1>1 DEF Paths
  <2>3. \A i \in Len(new) + 1 .. Len(new) + Len(z) : (new \o z)[i] = z[i - Len(new)]
    BY <1>1, <1>3 DEF Paths
  <2>4. \A i \in Len(new) + 1 .. Len(new) + Len(z) : i - Len(new) \in 1 .. Len(z) /\ i - Len(new) + Len(old) = (i - Len(new)) + Len(old)
    BY <1>1, <1>3
  <2> QED
    BY <1>1, <1>3, <2>1, <2>2, <2>3, <2>4
<1>4. \A m \in Paths : Len(m) >= Len(new) /\ (\A i \in 1 .. Len(new) : m[i] = new[i]) => IsPrefix(new, m)
  BY PrefixIs
<1>5. Moved(old, new, q) = new \o rest
  BY DEF Moved
<1>6. Len(rest) = Len(q) - Len(old) /\ \A i \in 1 .. Len(rest) : rest[i] = q[i + Len(old)]
  BY <1>2
<1> HIDE DEF rest
<1>7. /\ new \o rest \in Paths /\ Len(new \o rest) = Len(new) + Len(q) - Len(old)
      /\ \A i \in 1 .. Len(new) : (new \o rest)[i] = new[i]
      /\ \A i \in Len(new) + 1 .. Len(new) + Len(q) - Len(old) : (new \o rest)[i] = q[i - Len(new) + Len(old)]
  BY <1>2, <1>3, <1>6
<1>8. IsPrefix(new, new \o rest)
  <2>1. Len(new \o rest) >= Len(new)
    BY <1>1, <1>7
  <2> QED
    BY <1>4, <1>7, <2>1
<1> QED
  BY <1>5, <1>7, <1>8

\* Moving back.
LEMMA MovedBack ==
  ASSUME NEW old \in Paths, NEW new \in Paths, NEW q \in Paths, IsPrefix(old, q)
  PROVE  Moved(new, old, Moved(old, new, q)) = q
<1>0. Len(old) \in Nat /\ Len(q) \in Nat /\ Len(new) \in Nat /\ Len(old) <= Len(q) /\ \A i \in 1 .. Len(old) : old[i] = q[i]
  BY PrefixIs DEF Paths
<1>1. /\ Moved(old, new, q) \in Paths /\ IsPrefix(new, Moved(old, new, q))
      /\ Len(Moved(old, new, q)) = Len(new) + Len(q) - Len(old)
      /\ \A i \in Len(new) + 1 .. Len(new) + Len(q) - Len(old) : Moved(old, new, q)[i] = q[i - Len(new) + Len(old)]
  BY MovedIs
<1> DEFINE m == Moved(old, new, q)
<1>2. /\ m \in Paths /\ IsPrefix(new, m) /\ Len(m) = Len(new) + Len(q) - Len(old)
      /\ \A i \in Len(new) + 1 .. Len(new) + Len(q) - Len(old) : m[i] = q[i - Len(new) + Len(old)]
  BY <1>1
<1> HIDE DEF m
<1>3. /\ Moved(new, old, m) \in Paths
      /\ Len(Moved(new, old, m)) = Len(old) + Len(m) - Len(new) /\ \A i \in 1 .. Len(old) : Moved(new, old, m)[i] = old[i]
      /\ \A i \in Len(old) + 1 .. Len(old) + Len(m) - Len(new) : Moved(new, old, m)[i] = m[i - Len(old) + Len(new)]
  BY <1>2, MovedIs
<1> DEFINE b == Moved(new, old, m)
<1>4. /\ b \in Paths /\ Len(b) = Len(old) + Len(m) - Len(new) /\ \A i \in 1 .. Len(old) : b[i] = old[i]
      /\ \A i \in Len(old) + 1 .. Len(old) + Len(m) - Len(new) : b[i] = m[i - Len(old) + Len(new)]
  BY <1>3
<1> HIDE DEF b
<1>5. Len(b) = Len(q)
  BY <1>0, <1>2, <1>4
<1>6. \A i \in 1 .. Len(q) : b[i] = q[i]
  <2> SUFFICES ASSUME NEW i \in 1 .. Len(q) PROVE b[i] = q[i]
    OBVIOUS
  <2>1. CASE i <= Len(old)
    BY <1>0, <1>4, <2>1
  <2>2. CASE i > Len(old)
    <3>1. i \in Len(old) + 1 .. Len(old) + Len(m) - Len(new)
      BY <1>0, <1>2, <2>2
    <3>2. i - Len(old) + Len(new) \in Len(new) + 1 .. Len(new) + Len(q) - Len(old)
      BY <1>0, <2>2
    <3>3. (i - Len(old) + Len(new)) - Len(new) + Len(old) = i
      BY <1>0
    <3> QED
      BY <1>2, <1>4, <3>1, <3>2, <3>3
  <2> QED
    BY <1>0, <2>1, <2>2
<1>7. b = q
  BY <1>4, <1>5, <1>6 DEF Paths
<1> QED
  BY <1>7 DEF b, m

\* What is above a moved path and not above the place it has moved to has moved, too.
LEMMA MovedAbove ==
  ASSUME NEW old \in Paths, NEW new \in Paths, NEW q \in Paths, IsPrefix(old, q),
         NEW s \in Paths, IsPrefix(s, Moved(old, new, q)), Len(s) >= Len(new)
  PROVE  \E u \in Paths : IsPrefix(old, u) /\ IsPrefix(u, q) /\ s = Moved(old, new, u)
<1>a. Len(old) <= Len(q) /\ \A i \in 1 .. Len(old) : old[i] = q[i]
  BY PrefixIs
<1>0. Len(old) \in Nat /\ Len(q) \in Nat /\ Len(new) \in Nat /\ Len(s) \in Nat /\ Len(old) <= Len(q)
      /\ \A i \in 1 .. Len(old) : old[i] = q[i]
  BY <1>a DEF Paths
<1>1. /\ Moved(old, new, q) \in Paths /\ Len(Moved(old, new, q)) = Len(new) + Len(q) - Len(old)
      /\ \A i \in 1 .. Len(new) : Moved(old, new, q)[i] = new[i]
      /\ \A i \in Len(new) + 1 .. Len(new) + Len(q) - Len(old) : Moved(old, new, q)[i] = q[i - Len(new) + Len(old)]
  BY MovedIs
<1> DEFINE m == Moved(old, new, q)
<1>2. /\ m \in Paths /\ Len(m) = Len(new) + Len(q) - Len(old)
      /\ \A i \in 1 .. Len(new) : m[i] = new[i]
      /\ \A i \in Len(new) + 1 .. Len(new) + Len(q) - Len(old) : m[i] = q[i - Len(new) + Len(old)]
  BY <1>1
<1>3. Len(s) <= Len(m) /\ \A i \in 1 .. Len(s) : s[i] = m[i]
  BY <1>1, PrefixIs
<1> HIDE DEF m
<1>4. PICK n \in 0 .. Len(q) : n = Len(s) - Len(new) + Len(old)
  BY <1>0, <1>2, <1>3
<1>5. PICK u \in Paths : Len(u) = n /\ IsPrefix(u, q) /\ \A i \in 1 .. n : u[i] = q[i]
  BY CutIs
<1>6. IsPrefix(old, u)
  BY <1>0, <1>4, <1>5, PrefixesNest
<1>7. /\ Moved(old, new, u) \in Paths /\ Len(Moved(old, new, u)) = Len(new) + Len(u) - Len(old)
      /\ \A i \in 1 .. Len(new) : Moved(old, new, u)[i] = new[i]
      /\ \A i \in Len(new) + 1 .. Len(new) + Len(u) - Len(old) : Moved(old, new, u)[i] = u[i - Len(new) + Len(old)]
  BY ZenonT(60), <1>6, MovedIs
<1> DEFINE v == Moved(old, new, u)
<1>8. /\ v \in Paths /\ Len(v) = Len(new) + Len(u) - Len(old)
      /\ \A i \in 1 .. Len(new) : v[i] = new[i]
      /\ \A i \in Len(new) + 1 .. Len(new) + Len(u) - Len(old) : v[i] = u[i - Len(new) + Len(old)]
  BY <1>7
<1> HIDE DEF v
<1>9. Len(v) = Len(s)
  BY <1>0, <1>4, <1>5, <1>8
<1>10. \A i \in 1 .. Len(s) : v[i] = s[i]
  <2> SUFFICES ASSUME NEW i \in 1 .. Len(s) PROVE v[i] = s[i]
    OBVIOUS
  <2>1. CASE i <= Len(new)
    BY <1>0, <1>2, <1>3, <1>8, <2>1
  <2>2. CASE i > Len(new)
    <3>1. i \in Len(new) + 1 .. Len(new) + Len(u) - Len(old) /\ i \in Len(new) + 1 .. Len(new) + Len(q) - Len(old)
      BY <1>0, <1>2, <1>3, <1>8, <1>9, <2>2
    <3>2. i - Len(new) + Len(old) \in 1 .. n
      BY <1>0, <1>4, <2>2
    <3> QED
      BY <1>2, <1>3, <1>5, <1>8, <3>1, <3>2
  <2> QED
    BY <1>0, <2>1, <2>2
<1>11. v = s
  <2>1. v \in Seq(PathNames) /\ s \in Seq(PathNames) /\ \A i \in 1 .. Len(v) : v[i] = s[i]
    BY <1>8, <1>9, <1>10 DEF Paths
  <2> QED
    BY <1>9, <2>1
<1> QED
  BY <1>5, <1>6, <1>11 DEF v

Possible(from, old, new) ==
  /\ There(old) /\ ~IsStrictPrefix(old, new)
  /\ new \in DOMAIN from => tree[old].kind = "file" /\ from[new].kind = "file"
  /\ Front(new) = <<>> \/ (Front(new) \in DOMAIN from /\ from[Front(new)].kind = "dir")

Renamed(from, old, new) ==
  LET stays == {q \in DOMAIN from : ~IsPrefix(old, q) /\ q # new}
      goes == {Moved(old, new, q) : q \in Within(old)} IN
  [q \in stays \cup goes |-> IF q \in goes THEN tree[Moved(new, old, q)] ELSE from[q]]

\* A sound tree with directories added above new.
Prepared(from, new) ==
  /\ SoundTree(from) /\ DOMAIN tree \subseteq DOMAIN from
  /\ \A q \in DOMAIN tree : from[q] = tree[q]
  /\ \A q \in DOMAIN from : q \in DOMAIN tree \/ IsPrefix(q, Front(new))

\* A rename leaves a sound tree, in which everything below the old path is below the new one, and all else where it was.
LEMMA RenamedIs ==
  ASSUME SoundTree(tree), NEW old \in BelowRoot, NEW new \in BelowRoot, old # new,
         NEW from, Prepared(from, new), Possible(from, old, new)
  PROVE  /\ SoundTree(Renamed(from, old, new)) /\ old \notin DOMAIN Renamed(from, old, new)
         /\ \A q \in Within(old) : /\ Moved(old, new, q) \in DOMAIN Renamed(from, old, new)
                                   /\ Renamed(from, old, new)[Moved(old, new, q)] = tree[q]
         /\ \A q \in DOMAIN tree : ~IsPrefix(old, q) /\ q # new =>
              q \in DOMAIN Renamed(from, old, new) /\ Renamed(from, old, new)[q] = tree[q]
<1> DEFINE stays == {q \in DOMAIN from : ~IsPrefix(old, q) /\ q # new}
           goes == {Moved(old, new, q) : q \in Within(old)}
           res == Renamed(from, old, new)
<1>0. /\ old \in Paths /\ new \in Paths /\ BelowRoot \subseteq Paths /\ DOMAIN tree \subseteq BelowRoot
      /\ DOMAIN from \subseteq BelowRoot /\ Len(old) \in Nat /\ Len(new) \in Nat /\ Len(new) # 0
      /\ \A q \in Paths : Len(q) \in Nat /\ (Len(q) # 0 => q \in BelowRoot)
      /\ \A q \in BelowRoot : Len(q) # 0
  BY DEF BelowRoot, Paths, Prepared, SoundTree
<1>1. res = [q \in stays \cup goes |-> IF q \in goes THEN tree[Moved(new, old, q)] ELSE from[q]]
  BY DEF Renamed
<1>2. \A q \in Within(old) : q \in Paths /\ q \in DOMAIN tree /\ IsPrefix(old, q)
  BY <1>0 DEF Within
<1>3. ~IsPrefix(old, new)
  BY DEF Possible, IsStrictPrefix
\* Nothing is below the new path, unless it is moved.
<1>4. \A q \in DOMAIN from : IsPrefix(new, q) => q = new
  <2> SUFFICES ASSUME NEW q \in DOMAIN from, IsPrefix(new, q), q # new PROVE FALSE
    OBVIOUS
  <2>1. new \in DOMAIN from /\ from[new].kind = "dir"
    BY DEF Prepared, SoundTree
  <2> QED
    BY <2>1 DEF Possible
<1>5. ~IsPrefix(new, old)
  <2>1. old \in DOMAIN from
    BY DEF Possible, There, Prepared
  <2> QED
    BY <1>4, <2>1
<1>6. ASSUME NEW q \in Within(old)
      PROVE  /\ Moved(old, new, q) \in BelowRoot /\ IsPrefix(new, Moved(old, new, q))
             /\ Moved(new, old, Moved(old, new, q)) = q
             /\ Moved(old, new, q) \in goes
  <2>1. Moved(old, new, q) \in Paths /\ IsPrefix(new, Moved(old, new, q))
        /\ Len(Moved(old, new, q)) = Len(new) + Len(q) - Len(old)
    BY <1>0, <1>2, MovedIs
  <2>2. Len(old) <= Len(q) /\ Len(q) \in Nat
    BY <1>0, <1>2, PrefixIs
  <2>3. Len(Moved(old, new, q)) # 0
    BY <1>0, <2>1, <2>2
  <2> QED
    BY <1>0, <1>2, <2>1, <2>3, MovedBack
<1>7. \A q \in stays : q \notin goes /\ ~IsPrefix(new, q)
  BY <1>4, <1>6
<1>8. /\ DOMAIN res = stays \cup goes
      /\ \A q \in stays : res[q] = from[q]
      /\ \A q \in Within(old) : res[Moved(old, new, q)] = tree[q]
  BY <1>1, <1>6, <1>7
<1> HIDE DEF res
<1>9. old \notin DOMAIN res
  <2>1. old \notin stays
    BY <1>0, PrefixRefl
  <2>2. old \notin goes
    BY <1>5, <1>6
  <2> QED
    BY <1>8, <2>1, <2>2
<1>10. IsFiniteSet(DOMAIN res) /\ DOMAIN res \subseteq BelowRoot
  <2>1. IsFiniteSet(stays)
    BY FS_Subset DEF Prepared, SoundTree
  <2>2. IsFiniteSet(goes)
    <3>1. IsFiniteSet(Within(old))
      BY FS_Subset DEF Within, SoundTree
    <3> DEFINE f == [q \in Within(old) |-> Moved(old, new, q)]
    <3>2. f \in Surjection(Within(old), goes)
      BY DEF Surjection
    <3> HIDE DEF f
    <3> QED
      BY <3>1, <3>2, FS_Surjection
  <2>3. stays \cup goes \subseteq BelowRoot
    BY <1>0, <1>6
  <2> QED
    BY <1>8, <2>1, <2>2, <2>3, FS_Union
<1>11. res = [q \in DOMAIN res |-> res[q]]
  BY <1>1 DEF res
<1>12. \A q \in DOMAIN res : NodeSound(res[q])
  <2> SUFFICES ASSUME NEW q \in DOMAIN res PROVE NodeSound(res[q])
    OBVIOUS
  <2>1. CASE q \in stays
    BY <1>8, <2>1 DEF Prepared, SoundTree
  <2>2. CASE q \in goes
    BY <1>2, <1>8, <2>2 DEF SoundTree
  <2> QED
    BY <1>8, <2>1, <2>2
\* What is above the new path stays.
<1>13. ASSUME NEW s \in BelowRoot, IsPrefix(s, new), s # new PROVE s \in stays /\ from[s].kind = "dir"
  <2>1. s \in Paths /\ Front(new) \in Paths /\ IsPrefix(s, Front(new))
    BY <1>0, <1>13, FrontIs
  <2>2. Front(new) # <<>>
    <3>1. Len(s) <= Len(Front(new)) /\ Len(s) # 0 /\ Len(s) \in Nat /\ Len(<<>>) = 0
      BY <1>0, <2>1, PrefixIs
    <3> QED
      BY <3>1
  <2>3. Front(new) \in DOMAIN from /\ from[Front(new)].kind = "dir"
    BY <2>2 DEF Possible
  <2>4. s \in DOMAIN from /\ from[s].kind = "dir"
    BY <2>1, <2>3 DEF Prepared, SoundTree
  <2>5. ~IsPrefix(old, s)
    BY <1>0, <1>3, <1>13, <2>1, PrefixTrans
  <2> QED
    BY <1>13, <2>4, <2>5
<1>14. ASSUME NEW q \in DOMAIN res, NEW s \in BelowRoot, IsPrefix(s, q), s # q
       PROVE  s \in DOMAIN res /\ res[s].kind = "dir"
  <2>0. q \in Paths /\ s \in Paths
    BY <1>0, <1>10
  <2>1. CASE q \in stays
    <3>1. s \in DOMAIN from /\ from[s].kind = "dir"
      BY <1>14, <2>1 DEF Prepared, SoundTree
    <3>2. ~IsPrefix(old, s)
      BY <1>0, <1>14, <2>0, <2>1, PrefixTrans
    <3>3. s # new
      BY <1>14, <1>7, <2>1
    <3> QED
      BY <1>8, <3>1, <3>2, <3>3
  <2>2. CASE q \in goes
    <3>1. PICK w \in Within(old) : q = Moved(old, new, w)
      BY <2>2
    <3>2. CASE Len(s) >= Len(new)
      <4>1. PICK u \in Paths : IsPrefix(old, u) /\ IsPrefix(u, w) /\ s = Moved(old, new, u)
        BY <1>0, <1>2, <1>14, <2>0, <3>1, <3>2, MovedAbove
      <4>2. u \in BelowRoot /\ u # w
        <5>1. Len(u) >= Len(old) /\ Len(old) # 0
          BY <1>0, <4>1, PrefixIs
        <5> QED
          BY <1>0, <1>14, <3>1, <4>1, <5>1
      <4>3. u \in Within(old) /\ tree[u].kind = "dir"
        BY <1>2, <4>1, <4>2 DEF Within, SoundTree
      <4> QED
        BY <1>6, <1>8, <4>1, <4>3
    <3>3. CASE ~(Len(s) >= Len(new))
      <4>0. Len(s) \in Nat /\ Len(s) <= Len(new) /\ s # new
        BY <1>0, <2>0, <3>3
      <4>1. IsPrefix(s, new)
        BY <1>0, <1>6, <1>14, <2>0, <3>1, <4>0, PrefixesNest
      <4> QED
        BY <1>8, <1>13, <4>0, <4>1
    <3> QED
      BY <3>2, <3>3
  <2> QED
    BY <1>8, <2>1, <2>2
<1>15. SoundTree(res)
  BY <1>10, <1>11, <1>12, <1>14 DEF SoundTree
<1>16. \A q \in DOMAIN tree : ~IsPrefix(old, q) /\ q # new => q \in DOMAIN res /\ res[q] = tree[q]
  BY <1>8 DEF Prepared
<1> QED
  BY <1>6, <1>8, <1>9, <1>15, <1>16 DEF res

-----------------------------------------------------------------------------
(* The other requests.                                                     *)

\* What request q is after another has altered the paths at or below those of touched.
Outrun(q, touched) ==
  fileReq'[q] = [fileReq[q] EXCEPT !.calm = fileReq[q].calm /\ (tree' = tree \/ fileReq[q].step = "done"),
                                   !.kept = {p \in fileReq[q].kept : \A t \in touched : ~IsPrefix(t, p)},
                                   !.open = fileReq'[q].open]

\* The paths elsewhere stay as they are.
Elsewhere(touched) ==
  \A p \in DOMAIN tree : (\A t \in touched : ~IsPrefix(t, p)) => p \in DOMAIN tree' /\ tree'[p] = tree[p]

\* The file it has open is where it was, or where it was moved to.
Followed(q, touched) ==
  /\ \A p \in fileReq'[q].open :
       /\ p \in DOMAIN tree' /\ tree'[p].kind = "file" /\ fileReq'[q].open = {p}
       /\ p \in fileReq[q].open \/ \E t \in touched : IsPrefix(t, p)
  /\ tree' = tree \/ fileReq[q].open = {} => fileReq'[q].open \subseteq fileReq[q].open

\* Of a request that has been outrun only the open files and what is kept and calm change.
LEMMA OutrunFields ==
  ASSUME NEW q \in FileReqs, NEW touched, HasFields(fileReq[q]), Outrun(q, touched)
  PROVE  /\ HasFields(fileReq[q])'
         /\ fileReq'[q].op = fileReq[q].op /\ fileReq'[q].step = fileReq[q].step /\ fileReq'[q].todo = fileReq[q].todo
         /\ fileReq'[q].dest = fileReq[q].dest /\ fileReq'[q].data = fileReq[q].data /\ fileReq'[q].list = fileReq[q].list
         /\ fileReq'[q].sources = fileReq[q].sources /\ fileReq'[q].of = fileReq[q].of
         /\ fileReq'[q].calm = (fileReq[q].calm /\ (tree' = tree \/ fileReq[q].step = "done"))
         /\ fileReq'[q].kept = {p \in fileReq[q].kept : \A t \in touched : ~IsPrefix(t, p)}
<1> DEFINE k == fileReq[q]
           c == k.calm /\ (tree' = tree \/ k.step = "done")
           d == {p \in k.kept : \A t \in touched : ~IsPrefix(t, p)}
<1>1. fileReq'[q] = [op |-> k.op, step |-> k.step, todo |-> k.todo, dest |-> k.dest, data |-> k.data, list |-> k.list,
                     open |-> fileReq'[q].open, sources |-> k.sources, kept |-> d, calm |-> c, of |-> k.of]
  BY DEF HasFields, Outrun
<1> HIDE DEF d, c
<1>2. /\ HasFields(fileReq[q])'
      /\ fileReq'[q].op = k.op /\ fileReq'[q].step = k.step /\ fileReq'[q].todo = k.todo
      /\ fileReq'[q].dest = k.dest /\ fileReq'[q].data = k.data /\ fileReq'[q].list = k.list
      /\ fileReq'[q].sources = k.sources /\ fileReq'[q].of = k.of
      /\ fileReq'[q].calm = c /\ fileReq'[q].kept = d
  BY <1>1 DEF HasFields
<1> QED
  BY <1>2 DEF c, d

\* It keeps its shape.
LEMMA OutrunShape ==
  ASSUME NEW q \in FileReqs, NEW touched, ReqShape(fileReq[q]), Outrun(q, touched), Followed(q, touched)
  PROVE  ReqShape(fileReq[q])'
<1>1. HasFields(fileReq[q])
  BY DEF ReqShape
<1>2. /\ HasFields(fileReq[q])'
      /\ fileReq'[q].op = fileReq[q].op /\ fileReq'[q].step = fileReq[q].step /\ fileReq'[q].todo = fileReq[q].todo
      /\ fileReq'[q].dest = fileReq[q].dest /\ fileReq'[q].data = fileReq[q].data
      /\ fileReq'[q].sources = fileReq[q].sources /\ fileReq'[q].list = fileReq[q].list
      /\ fileReq'[q].calm \in BOOLEAN
  BY <1>1, OutrunFields DEF ReqShape
<1>3. fileReq[q] = FileRest => fileReq'[q] = FileRest
  <2> SUFFICES ASSUME fileReq[q] = FileRest PROVE fileReq'[q] = FileRest
    OBVIOUS
  <2>0. /\ fileReq[q].op = "none" /\ fileReq[q].step = "done" /\ fileReq[q].todo = <<>> /\ fileReq[q].dest = <<>>
        /\ fileReq[q].data = "none" /\ fileReq[q].list = <<>> /\ fileReq[q].sources = <<>> /\ fileReq[q].of = NoTree
        /\ fileReq[q].open = {} /\ fileReq[q].calm = TRUE /\ fileReq[q].kept = {}
    BY DEF FileRest
  <2>1. fileReq'[q].open = {}
    BY <2>0 DEF Followed
  <2>2. fileReq'[q].calm = TRUE
    BY <1>1, <2>0, OutrunFields
  <2>3. fileReq'[q].kept = {}
    BY <1>1, <2>0, OutrunFields
  <2>4. /\ fileReq'[q].op = "none" /\ fileReq'[q].step = "done" /\ fileReq'[q].todo = <<>> /\ fileReq'[q].dest = <<>>
        /\ fileReq'[q].data = "none" /\ fileReq'[q].list = <<>> /\ fileReq'[q].sources = <<>> /\ fileReq'[q].of = NoTree
    BY <1>1, <2>0, OutrunFields
  <2> QED
    BY <1>2, <2>1, <2>2, <2>3, <2>4 DEF FileRest, HasFields
<1>4. \A p \in fileReq'[q].open : p \in DOMAIN tree' /\ tree'[p].kind = "file" /\ fileReq'[q].open = {p}
  BY DEF Followed
<1>5. fileReq'[q].dest \in Seq(PathNames)
  BY <1>2 DEF ReqShape
<1>7. fileReq[q].open = {} => fileReq'[q].open = {}
  BY DEF Followed
<1>6. \/ fileReq'[q] = FileRest
      \/ fileReq'[q].op = "write" /\ fileReq'[q].step \in {"create", "fill"} /\ fileReq'[q].dest # <<>> /\ fileReq'[q].data \in Contents
      \/ fileReq'[q].op = "delete" /\ fileReq'[q].step = "delete" /\ fileReq'[q].open = {} /\ fileReq'[q].todo # <<>> /\ fileReq'[q].todo \in Seq(Seq(PathNames))
      \/ /\ fileReq'[q].op = "pack" /\ fileReq'[q].step \in {"create", "walk", "ended"} /\ fileReq'[q].dest # <<>>
         /\ fileReq'[q].step = "create" => fileReq'[q].list = <<>>
         /\ fileReq'[q].sources \in Seq(BelowRoot) /\ fileReq'[q].sources # <<>>
      \/ fileReq'[q].op = "extract" /\ fileReq'[q].step \in {"extract", "ended"} /\ fileReq'[q].todo \in Seq(FileEntry)
  BY <1>2, <1>3, <1>7 DEF ReqShape
<1> QED
  BY <1>2, <1>4, <1>5, <1>6 DEF ReqShape, There

\* What it still owes it owed before, and nobody has touched it.
LEMMA OutrunOwed ==
  ASSUME NEW q \in FileReqs, NEW touched \in SUBSET Paths, HasFields(fileReq[q]), Packing(fileReq[q]), fileReq[q].step \in {"walk", "ended"},
         Outrun(q, touched), Elsewhere(touched), Followed(q, touched)
  PROVE  \A p \in Owed(fileReq[q])' :
           p \in Owed(fileReq[q]) /\ p \in DOMAIN tree' /\ tree'[p] = tree[p] /\ p \notin fileReq'[q].open
<1> DEFINE k == fileReq[q]
<1>1. /\ fileReq'[q].step = k.step /\ fileReq'[q].sources = k.sources /\ fileReq'[q].of = k.of
      /\ fileReq'[q].calm = (k.calm /\ tree' = tree)
      /\ fileReq'[q].kept = {p \in k.kept : \A t \in touched : ~IsPrefix(t, p)}
  BY OutrunFields
<1> SUFFICES ASSUME NEW p \in Owed(fileReq[q])'
             PROVE  p \in Owed(k) /\ p \in DOMAIN tree' /\ tree'[p] = tree[p] /\ p \notin fileReq'[q].open
  OBVIOUS
<1>2. CASE p \in fileReq'[q].kept
  <2>1. p \in k.kept /\ \A t \in touched : ~IsPrefix(t, p)
    BY <1>1, <1>2
  <2>2. p \in Owed(k)
    BY <2>1 DEF Owed
  <2>3. p \in DOMAIN tree /\ p \notin k.open
    BY <2>2 DEF Packing, There
  <2> QED
    BY <2>1, <2>2, <2>3 DEF Elsewhere, Followed
<1>3. CASE p \notin fileReq'[q].kept
  <2>1. p \in Under(fileReq[q].sources)' /\ fileReq'[q].step = "walk" /\ fileReq'[q].calm /\ fileReq'[q].of # NoTree
    BY <1>3 DEF Owed
  <2>2. tree' = tree /\ k.calm /\ k.step = "walk" /\ k.of # NoTree
    BY <1>1, <2>1
  <2>3. p \in Under(k.sources)
    BY <1>1, <2>1, <2>2 DEF Under, Within
  <2>4. p \in Owed(k)
    BY <2>2, <2>3 DEF Owed
  <2>5. p \in DOMAIN tree /\ p \notin k.open
    BY <2>4 DEF Packing, There
  <2> QED
    BY <2>2, <2>4, <2>5 DEF Followed
<1> QED
  BY <1>2, <1>3

\* A walk that has been outrun goes on.
LEMMA OutrunPacking ==
  ASSUME NEW q \in FileReqs, NEW touched \in SUBSET Paths, HasFields(fileReq[q]), Packing(fileReq[q]), fileReq[q].step \in {"walk", "ended"},
         Outrun(q, touched), Elsewhere(touched), Followed(q, touched)
  PROVE  Packing(fileReq[q])'
<1> DEFINE k == fileReq[q]
<1>1. /\ fileReq'[q].step = k.step /\ fileReq'[q].sources = k.sources /\ fileReq'[q].of = k.of
      /\ fileReq'[q].todo = k.todo /\ fileReq'[q].list = k.list /\ fileReq'[q].dest = k.dest
      /\ fileReq'[q].calm = (k.calm /\ tree' = tree)
  BY OutrunFields
<1>2. \A p \in Owed(fileReq[q])' :
        p \in Owed(k) /\ p \in DOMAIN tree' /\ tree'[p] = tree[p] /\ p \notin fileReq'[q].open
  BY OutrunOwed
<1>3. ASSUME NEW p \in Owed(fileReq[q])'
      PROVE  /\ There(p)' /\ p \notin fileReq'[q].open /\ \E s \in ToSet(fileReq'[q].sources) : IsPrefix(s, p)
             /\ \A s \in ToSet(fileReq'[q].sources) : IsPrefix(s, p) => Listed(fileReq[q], s, p)'
  <2>1. p \in Owed(k) /\ p \in DOMAIN tree' /\ tree'[p] = tree[p] /\ p \notin fileReq'[q].open
    BY <1>2
  <2>2. /\ \E s \in ToSet(k.sources) : IsPrefix(s, p)
        /\ \A s \in ToSet(k.sources) : IsPrefix(s, p) => Listed(k, s, p)
    BY <2>1 DEF Packing
  <2>3. ASSUME NEW s, Listed(k, s, p) PROVE Listed(fileReq[q], s, p)'
    BY <1>1, <2>1, <2>3 DEF Listed, Entry, Stored
  <2> QED
    BY <1>1, <2>1, <2>2, <2>3 DEF There
<1>4. ASSUME fileReq'[q].step = "walk" /\ fileReq'[q].calm /\ fileReq'[q].of # NoTree
      PROVE  /\ fileReq'[q].of = TreeOf(fileReq[q].sources, fileReq[q].dest)'
             /\ \A i \in DOMAIN fileReq'[q].list : \E s \in ToSet(fileReq'[q].sources), p \in DOMAIN tree' :
                  IsPrefix(s, p) /\ fileReq'[q].list[i] = Entry(s, p, Stored(p))'
  <2>1. tree' = tree /\ k.calm /\ k.step = "walk" /\ k.of # NoTree
    BY <1>1, <1>4
  <2>2. /\ k.of = TreeOf(k.sources, k.dest)
        /\ \A i \in DOMAIN k.list : \E s \in ToSet(k.sources), p \in DOMAIN tree :
             IsPrefix(s, p) /\ k.list[i] = Entry(s, p, Stored(p))
    BY <2>1 DEF Packing
  <2>3. TreeOf(fileReq[q].sources, fileReq[q].dest)' = TreeOf(k.sources, k.dest)
    BY <1>1, <2>1 DEF TreeOf, Stored
  <2>4. \A s, p : Entry(s, p, Stored(p))' = Entry(s, p, Stored(p))
    BY <2>1 DEF Entry, Stored
  <2> QED
    BY <1>1, <2>1, <2>2, <2>3, <2>4
<1>5. /\ fileReq'[q].list \in Seq(FileEntry)
      /\ fileReq'[q].step = "walk" =>
           /\ fileReq'[q].todo # <<>> /\ fileReq'[q].todo \in Seq([src : ToSet(fileReq'[q].sources), path : BelowRoot])
           /\ \A j \in DOMAIN fileReq'[q].todo : IsPrefix(fileReq'[q].todo[j].src, fileReq'[q].todo[j].path)
  BY <1>1 DEF Packing
<1> QED
  BY <1>3, <1>4, <1>5 DEF Packing

\* So it is sound.
LEMMA OutrunSound ==
  ASSUME NEW q \in FileReqs, NEW touched \in SUBSET Paths, ReqSound(fileReq[q]),
         Outrun(q, touched), Elsewhere(touched), Followed(q, touched)
  PROVE  ReqSound(fileReq[q])'
<1> DEFINE k == fileReq[q]
<1>0. HasFields(k)
  BY DEF ReqSound, ReqShape
<1>1. /\ fileReq'[q].step = k.step /\ fileReq'[q].of = k.of /\ fileReq'[q].op = k.op
      /\ fileReq'[q].todo = k.todo /\ fileReq'[q].dest = k.dest
      /\ fileReq'[q].calm = (k.calm /\ (tree' = tree \/ k.step = "done"))
  BY <1>0, OutrunFields
<1>2. ReqShape(fileReq[q])'
  BY OutrunShape DEF ReqSound
<1>3. k.op = "pack" /\ k.step \in {"walk", "ended"} => Packing(fileReq[q])'
  BY <1>0, OutrunPacking DEF ReqSound
<1>4. ASSUME k.op = "extract" PROVE Extracting(fileReq[q])'
  <2>1. k.step # "done"
    BY <1>4 DEF ReqSound, ReqShape, FileRest
  <2>2. CASE tree' = tree
    BY ZenonT(60), <1>1, <1>4, <2>2 DEF ReqSound, Extracting, CanMkdirAll, There, IsDir, Within
  <2>3. CASE tree' # tree
    BY <1>1, <2>1, <2>3 DEF Extracting
  <2> QED
    BY <2>2, <2>3
<1> QED
  BY <1>1, <1>2, <1>3, <1>4 DEF ReqSound

\* Nobody else has moved.
LEMMA FileInvSame ==
  ASSUME FileInv, tree' = tree, NEW r \in FileReqs, fileReq' = [fileReq EXCEPT ![r] = fileReq'[r]], ReqSound(fileReq[r])'
  PROVE  FileInv'
<1>1. SoundTree(tree)'
  BY DEF FileInv
<1>2. ASSUME NEW q \in FileReqs, q # r PROVE ReqSound(fileReq[q])'
  <2>1. fileReq'[q] = fileReq[q] /\ ReqSound(fileReq[q])
    BY <1>2 DEF FileInv
  <2>2. ReqShape(fileReq[q])'
    BY <2>1 DEF ReqSound, ReqShape, There, HasFields
  <2>3. fileReq[q].op = "pack" /\ fileReq[q].step \in {"walk", "ended"} => Packing(fileReq[q])'
    <3> SUFFICES ASSUME fileReq[q].op = "pack", fileReq[q].step \in {"walk", "ended"} PROVE Packing(fileReq[q])'
      OBVIOUS
    <3>1. Packing(fileReq[q])
      BY <2>1 DEF ReqSound
    <3>2. TreeOf(fileReq[q].sources, fileReq[q].dest)' = TreeOf(fileReq[q].sources, fileReq[q].dest)
      BY <2>1 DEF TreeOf, Stored
    <3>3. \A s, p : Entry(s, p, Stored(p))' = Entry(s, p, Stored(p))
      BY DEF Entry, Stored
    <3>4. Owed(fileReq[q])' = Owed(fileReq[q])
      BY <2>1 DEF Owed, Under, Within
    <3>5. \A s, p : Listed(fileReq[q], s, p)' <=> Listed(fileReq[q], s, p)
      BY <2>1, <3>3 DEF Listed
    <3> QED
      BY <2>1, <3>1, <3>2, <3>3, <3>4, <3>5 DEF Packing, There
  <2>4. fileReq[q].op = "extract" => Extracting(fileReq[q])'
    BY <2>1 DEF ReqSound, Extracting, CanMkdirAll, There, IsDir, Within
  <2> QED
    BY <2>1, <2>2, <2>3, <2>4 DEF ReqSound
<1> QED
  BY <1>1, <1>2 DEF FileInv

\* One request moves, and the others are outrun.
LEMMA FileInvOutrun ==
  ASSUME FileInv, NEW r \in FileReqs, NEW touched \in SUBSET Paths, SoundTree(tree)', DOMAIN fileReq' = FileReqs,
         ReqSound(fileReq[r])', Elsewhere(touched), \A q \in FileReqs \ {r} : Outrun(q, touched) /\ Followed(q, touched)
  PROVE  FileInv'
<1>1. \A q \in FileReqs : ReqSound(fileReq[q])'
  BY OutrunSound DEF FileInv
<1> QED
  BY <1>1 DEF FileInv

\* The files others have open stay where they are.
Stayed(r, touched) ==
  fileReq' = [q \in FileReqs |->
    IF q = r THEN fileReq'[r]
    ELSE [fileReq[q] EXCEPT !.calm = @ /\ (tree' = tree \/ fileReq[q].step = "done"),
                            !.kept = {p \in @ : \A t \in touched : ~IsPrefix(t, p)}, !.open = @]]

KindsStay == \A p \in DOMAIN tree : p \in DOMAIN tree' /\ tree'[p].kind = tree[p].kind

\* One request moves and no file gets another name.
LEMMA FileInvStayed ==
  ASSUME FileInv, NEW r \in FileReqs, NEW touched \in SUBSET Paths, Stayed(r, touched), SoundTree(tree)', KindsStay,
         Elsewhere(touched), ReqSound(fileReq[r])'
  PROVE  FileInv'
<1>1. ASSUME NEW q \in FileReqs \ {r} PROVE Outrun(q, touched) /\ Followed(q, touched)
  <2>1. ReqShape(fileReq[q])
    BY DEF FileInv, ReqSound
  <2> DEFINE k == fileReq[q]
             c == k.calm /\ (tree' = tree \/ k.step = "done")
             d == {p \in k.kept : \A t \in touched : ~IsPrefix(t, p)}
  <2>2. fileReq'[q] = [k EXCEPT !.calm = c, !.kept = d, !.open = k.open]
    BY DEF Stayed
  <2>3. fileReq'[q].open = k.open
    <3> HIDE DEF c, d
    <3> QED
      BY <2>1, <2>2 DEF ReqShape, HasFields
  <2>4. Outrun(q, touched)
    BY <2>2, <2>3 DEF Outrun
  <2>5. Followed(q, touched)
    BY <2>1, <2>3 DEF Followed, ReqShape, There, KindsStay
  <2> QED
    BY <2>4, <2>5
<1>2. DOMAIN fileReq' = FileReqs
  BY DEF Stayed
<1> QED
  BY <1>1, <1>2, FileInvOutrun

\* A request that is over.
LEMMA RestSound == ASSUME NEW r \in FileReqs, fileReq'[r] = FileRest PROVE ReqSound(fileReq[r])'
<1>1. HasFields(FileRest) /\ FileRest.calm = TRUE /\ FileRest.open = {} /\ FileRest.dest = <<>> /\ FileRest.op = "none"
  BY DEF HasFields, FileRest
<1>2. <<>> \in Seq(PathNames)
  OBVIOUS
<1> QED
  BY <1>1, <1>2 DEF ReqSound, ReqShape, HasFields

\* A request fails.
LEMMA FileFailsKeeps == ASSUME FileInv, NEW r \in FileReqs, FileFails(r) PROVE FileInv'
<1>1. tree' = tree /\ fileReq'[r] = FileRest /\ fileReq' = [fileReq EXCEPT ![r] = fileReq'[r]]
  BY DEF FileFails, FileInv
<1> QED
  BY <1>1, RestSound, FileInvSame

\* The panel dies, and its requests with it.
LEMMA FilePanelDiesKeeps == ASSUME FileInv, FilePanelDies PROVE FileInv'
<1>1. DOMAIN fileReq' = FileReqs /\ \A r \in FileReqs : fileReq'[r] = FileRest
  BY DEF FilePanelDies
<1>2. \A r \in FileReqs : ReqSound(fileReq[r])'
  BY <1>1, RestSound
<1>3. SoundTree(tree)'
  BY DEF FilePanelDies, FileInv
<1> QED
  BY <1>1, <1>2, <1>3 DEF FileInv

\* Requests begin.
LEMMA FillKeeps ==
  ASSUME FileInv, NEW r \in FileReqs, NEW p \in FilePaths, NEW d \in Contents, Fill(r, p, d)
  PROVE  FileInv'
<1>1. tree' = tree /\ fileReq' = [fileReq EXCEPT ![r] = fileReq'[r]]
      /\ fileReq'[r] = [FileRest EXCEPT !.op = "write", !.step = "create", !.dest = p, !.data = d]
  BY DEF Fill, FileBegin, FileInv
<1>2. p \in Seq(PathNames) /\ p # <<>>
  BY FileAssumption
<1>3. /\ fileReq'[r].op = "write" /\ fileReq'[r].step = "create" /\ fileReq'[r].dest = p /\ fileReq'[r].data = d
      /\ fileReq'[r].open = {} /\ fileReq'[r].calm = TRUE /\ HasFields(fileReq[r])'
  BY <1>1 DEF HasFields, FileRest
<1>4. ReqSound(fileReq[r])'
  BY <1>2, <1>3 DEF ReqSound, ReqShape
<1> QED
  BY <1>1, <1>4, FileInvSame

\* A removal begins.
LEMMA DeleteFilesKeeps ==
  ASSUME FileInv, NEW r \in FileReqs, NEW paths \in Seq(Paths), paths # <<>>, DeleteFiles(r, paths)
  PROVE  FileInv'
<1>1. tree' = tree /\ fileReq' = [fileReq EXCEPT ![r] = fileReq'[r]]
      /\ fileReq'[r] = [FileRest EXCEPT !.op = "delete", !.step = "delete", !.todo = paths]
  BY DEF DeleteFiles, FileBegin, FileInv
<1>2. /\ fileReq'[r].op = "delete" /\ fileReq'[r].step = "delete" /\ fileReq'[r].dest = <<>> /\ fileReq'[r].todo = paths
      /\ fileReq'[r].open = {} /\ fileReq'[r].calm = TRUE /\ HasFields(fileReq[r])'
  BY <1>1 DEF HasFields, FileRest
<1>3. ReqSound(fileReq[r])'
  <2>1. <<>> \in Seq(PathNames) /\ paths \in Seq(Seq(PathNames))
    BY DEF Paths
  <2>2. ReqShape(fileReq[r])'
    BY <1>2, <2>1 DEF ReqShape
  <2> QED
    BY <1>2, <2>2 DEF ReqSound
<1> QED
  BY <1>1, <1>3, FileInvSame

\* The making of an archive begins.
LEMMA CompressKeeps ==
  ASSUME FileInv, NEW r \in FileReqs, NEW s \in Selections, NEW a \in ArchivePaths, Compress(r, s, a)
  PROVE  FileInv'
<1>1. tree' = tree /\ fileReq' = [fileReq EXCEPT ![r] = fileReq'[r]]
      /\ fileReq'[r] = [FileRest EXCEPT !.op = "pack", !.step = "create", !.sources = s, !.dest = a]
  BY DEF Compress, FileBegin, FileInv
<1>2. s # <<>> /\ s \in Seq(BelowRoot)
  <2>1. s # <<>> /\ s \in Seq(Seq(PathNames)) /\ \A i \in DOMAIN s : s[i] # <<>>
    BY FileAssumption DEF ToSet
  <2> QED
    BY <2>1 DEF BelowRoot
<1>3. a \in Seq(PathNames) /\ a # <<>>
  BY FileAssumption
<1>4. ReqSound(fileReq[r])'
  BY <1>1, <1>2, <1>3 DEF ReqSound, ReqShape, HasFields, FileRest
<1> QED
  BY <1>1, <1>4, FileInvSame

\* Nothing is below a path that has no children.
LEMMA NothingWithin ==
  ASSUME SoundTree(tree), NEW p \in Paths, Children(p) = {}
  PROVE  Within(p) \subseteq {p}
<1> SUFFICES ASSUME NEW q \in Within(p), q # p PROVE FALSE
  OBVIOUS
<1>1. q \in BelowRoot /\ q \in Paths /\ IsPrefix(p, q) /\ q \in DOMAIN tree
  BY DEF Within, SoundTree, BelowRoot, Paths
<1>2. Len(p) \in Nat /\ Len(q) \in Nat /\ Len(p) < Len(q)
  BY <1>1, PrefixSame, PrefixIs DEF Paths
<1>3. Len(p) + 1 \in 0 .. Len(q)
  BY <1>2
<1>4. PICK c \in Paths : Len(c) = Len(p) + 1 /\ IsPrefix(c, q)
  BY <1>1, <1>3, CutIs
<1>5. IsPrefix(p, c)
  BY <1>1, <1>2, <1>4, PrefixesNest
<1>6. c \in BelowRoot
  BY <1>2, <1>4 DEF BelowRoot, Paths
<1>7. c \in DOMAIN tree
  BY <1>1, <1>4, <1>6 DEF SoundTree
<1> QED
  BY <1>4, <1>5, <1>7 DEF Children, Within

\* An extraction begins, undisturbed where the destination is free.
LEMMA ExtractKeeps ==
  ASSUME FileInv, NEW r \in FileReqs, NEW a \in ArchivePaths, NEW d \in DestPaths, Extract(r, a, d)
  PROVE  FileInv'
<1> DEFINE of == IF CanMkdirAll(d) /\ Children(d) = {} THEN tree[a].of ELSE NoTree
<1>1. tree' = tree /\ fileReq' = [fileReq EXCEPT ![r] = fileReq'[r]]
      /\ fileReq'[r] = [FileRest EXCEPT !.op = "extract", !.step = "extract", !.todo = tree[a].list, !.dest = d, !.of = of]
  BY DEF Extract, FileBegin, FileInv
<1>2. d \in Paths
  BY FileAssumption DEF Paths
<1>3. a \in DOMAIN tree /\ NodeSound(tree[a])
  BY DEF Extract, There, FileInv, SoundTree
<1>4. /\ fileReq'[r].op = "extract" /\ fileReq'[r].step = "extract" /\ fileReq'[r].todo = tree[a].list /\ fileReq'[r].dest = d
      /\ fileReq'[r].of = of /\ fileReq'[r].open = {} /\ fileReq'[r].calm = TRUE /\ HasFields(fileReq[r])'
  <2> HIDE DEF of
  <2> QED
    BY <1>1 DEF HasFields, FileRest
<1>5. ReqShape(fileReq[r])'
  BY <1>2, <1>3, <1>4 DEF ReqShape, NodeSound, Paths
<1>6. ASSUME of # NoTree PROVE Extracting(fileReq[r])'
  <2>1. CanMkdirAll(d) /\ Children(d) = {} /\ of = tree[a].of
    BY <1>6
  <2>2. /\ Grown(of)
        /\ \A i \in DOMAIN tree[a].list : tree[a].list[i].path \in DOMAIN of /\ Same(tree[a].list[i], of[tree[a].list[i].path])
        /\ \A x \in DOMAIN of : \E i \in DOMAIN tree[a].list : tree[a].list[i].path = x
    BY <1>3, <1>6, <2>1 DEF NodeSound, Makes
  <2>3. Within(d) \subseteq {d}
    BY <1>2, <2>1, NothingWithin DEF FileInv
  <2> HIDE DEF of
  <2>4. Within(fileReq[r].dest)' = Within(d) /\ CanMkdirAll(fileReq[r].dest)'
    BY <1>1, <1>4, <2>1 DEF Within, CanMkdirAll, There, IsDir
  <2> QED
    BY <1>4, <2>2, <2>3, <2>4 DEF Extracting
<1>7. Extracting(fileReq[r])'
  BY <1>4, <1>6 DEF Extracting
<1>8. ReqSound(fileReq[r])'
  BY <1>4, <1>5, <1>7 DEF ReqSound
<1> QED
  BY <1>1, <1>8, FileInvSame

\* An archive that cannot be read is not extracted.
LEMMA ExtractNothingKeeps == ASSUME FileInv, NEW r \in FileReqs, ExtractNothing(r) PROVE FileInv'
<1>1. tree' = tree /\ fileReq' = [fileReq EXCEPT ![r] = fileReq'[r]] /\ fileReq'[r] = [fileReq[r] EXCEPT !.step = "ended"]
      /\ fileReq[r].op = "extract" /\ fileReq[r].step = "extract" /\ fileReq[r].todo = <<>>
  BY DEF ExtractNothing, FileAt, FileInv
<1>2. ReqShape(fileReq[r]) /\ Extracting(fileReq[r])
  BY <1>1 DEF FileInv, ReqSound
<1>3. /\ fileReq'[r].op = "extract" /\ fileReq'[r].step = "ended" /\ fileReq'[r].todo = <<>> /\ fileReq'[r].dest = fileReq[r].dest
      /\ fileReq'[r].of = fileReq[r].of /\ fileReq'[r].open = fileReq[r].open /\ fileReq'[r].calm = fileReq[r].calm
      /\ HasFields(fileReq[r])'
  BY <1>1, <1>2 DEF ReqShape, HasFields
<1>4. ReqShape(fileReq[r])'
  <2>1. fileReq[r].todo \in Seq(FileEntry)
    BY <1>1
  <2> QED
    BY <1>1, <1>2, <1>3, <2>1 DEF ReqShape, There
<1>5. Extracting(fileReq[r])'
  BY <1>1, <1>2, <1>3 DEF Extracting, Within, CanMkdirAll, There, IsDir
<1>6. ReqSound(fileReq[r])'
  BY <1>3, <1>4, <1>5 DEF ReqSound
<1> QED
  BY <1>1, <1>6, FileInvSame

-----------------------------------------------------------------------------
(* Files and directories are created, filled and removed.                  *)

\* A directory is made.
LEMMA MkdirKeeps == ASSUME FileInv, NEW r \in FileReqs, NEW p \in FilePaths, Mkdir(r, p) PROVE FileInv'
<1>1. p \in Paths /\ SoundTree(tree)
  BY FileAssumption DEF Paths, FileInv
<1>2. tree' = MkdirAll(p) /\ fileReq'[r] = FileRest /\ Stayed(r, {})
  BY DEF Mkdir, Change, Stay, Stayed
<1>3. SoundTree(tree)' /\ KindsStay /\ Elsewhere({})
  BY <1>1, <1>2, MkdirAllKeeps DEF KindsStay, Elsewhere
<1> QED
  BY <1>2, <1>3, RestSound, FileInvStayed

\* A file is put into a directory that has just been made.
LEMMA FilePut ==
  ASSUME SoundTree(tree), NEW p \in BelowRoot, NEW n, NodeSound(n), n.kind = "file",
         CanMkdirAll(Front(p)), There(p) => ~IsDir(p), tree' = Put(MkdirAll(Front(p)), p, n)
  PROVE  /\ SoundTree(tree)' /\ KindsStay /\ Elsewhere({p}) /\ p \in DOMAIN tree' /\ tree'[p] = n
         /\ \A q \in DOMAIN tree' : q \in DOMAIN tree \/ q = p \/ (q \in Above(p) /\ tree'[q] = Directory)
<1> DEFINE made == MkdirAll(Front(p))
<1>0. p \in Paths /\ Front(p) \in Paths /\ Len(Front(p)) = Len(p) - 1 /\ Len(p) \in Nat /\ IsPrefix(Front(p), p) /\ Front(p) # p
  BY FrontIs DEF BelowRoot, Paths
<1>1. /\ SoundTree(made) /\ DOMAIN tree \subseteq DOMAIN made
      /\ \A q \in DOMAIN tree : made[q] = tree[q]
      /\ \A q \in DOMAIN made : q \in DOMAIN tree \/ (q \in Above(Front(p)) /\ made[q] = Directory)
      /\ \A q \in Above(Front(p)) : q \in DOMAIN made /\ made[q].kind = "dir"
  BY <1>0, MkdirAllKeeps
<1>2. p \notin Above(Front(p))
  <2>1. ~IsPrefix(p, Front(p))
    BY <1>0, PrefixIs
  <2> QED
    BY <1>0, <2>1, AboveIs
<1>3. p \in DOMAIN made => made[p].kind # "dir"
  BY <1>1, <1>2 DEF There, IsDir
<1>4. Front(p) = <<>> \/ (Front(p) \in DOMAIN made /\ made[Front(p)].kind = "dir")
  <2>1. Front(p) # <<>> => Front(p) \in Above(Front(p))
    BY <1>0, AboveIs, PrefixRefl DEF BelowRoot, Paths
  <2> QED
    BY <1>1, <2>1
<1>5. /\ SoundTree(tree)' /\ DOMAIN tree' = DOMAIN made \cup {p} /\ tree'[p] = n
      /\ \A q \in DOMAIN made : q # p => tree'[q] = made[q]
  <2> HIDE DEF made
  <2>1. FitsIn(made, p, n)
    BY <1>1, <1>3, <1>4 DEF FitsIn
  <2>2. AddedTo(made, p, n, Put(made, p, n))
    BY <2>1, FileAdded
  <2>3. AddedTo(made, p, n, tree')
    BY <2>2 DEF made
  <2>4. SoundTree(tree') => SoundTree(tree)'
    BY DEF SoundTree
  <2> QED
    BY <2>3, <2>4 DEF AddedTo, made
<1>6. KindsStay
  <2> SUFFICES ASSUME NEW q \in DOMAIN tree PROVE q \in DOMAIN tree' /\ tree'[q].kind = tree[q].kind
    BY DEF KindsStay
  <2>1. q = p => tree[q].kind = "file"
    BY DEF There, IsDir, SoundTree, NodeSound
  <2> QED
    BY <1>1, <1>5, <2>1
<1>7. Elsewhere({p})
  BY <1>0, <1>1, <1>5, PrefixRefl DEF Elsewhere
<1>8. ASSUME NEW q \in DOMAIN tree', q \notin DOMAIN tree, q # p PROVE q \in Above(p) /\ tree'[q] = Directory
  <2>1. q \in DOMAIN made /\ q \in Above(Front(p)) /\ tree'[q] = Directory
    BY <1>1, <1>5, <1>8
  <2>2. q \in BelowRoot /\ q \in Paths /\ IsPrefix(q, Front(p))
    BY <1>0, <2>1, AboveIs DEF BelowRoot, Paths
  <2>3. IsPrefix(q, p)
    BY <1>0, <2>2, PrefixTrans
  <2> QED
    BY <1>0, <2>1, <2>2, <2>3, AboveIs
<1> QED
  BY <1>5, <1>6, <1>7, <1>8

\* A file is created or truncated.
LEMMA CreateFileKeeps == ASSUME FileInv, NEW r \in FileReqs, CreateFile(r) PROVE FileInv'
<1> DEFINE k == fileReq[r]
<1>1. k.op = "write" /\ k.step = "create" /\ ReqShape(k) /\ SoundTree(tree)
  BY DEF CreateFile, FileAt, FileInv, ReqSound
<1>2. k.dest \in BelowRoot /\ k.data \in Contents /\ k.dest \in Paths
  BY <1>1 DEF ReqShape, BelowRoot, Paths, FileRest
<1>3. PICK p \in BelowRoot : p = k.dest
  BY <1>2
<1>4. p \in Paths /\ Front(p) \in Paths
  BY <1>2, <1>3, FrontIs
<1>5. CASE CanMkdirAll(Front(p)) /\ (There(p) => ~IsDir(p))
  <2>1. /\ tree' = Put(MkdirAll(Front(p)), p, Node("file", "torn")) /\ Stayed(r, {p})
        /\ fileReq'[r] = [k EXCEPT !.step = "fill", !.open = {p}]
    BY <1>3, <1>5 DEF CreateFile, Change, Stay, Stayed
  <2>2. NodeSound(Node("file", "torn")) /\ Node("file", "torn").kind = "file"
    BY PlainNodes DEF FileData
  <2>3. SoundTree(tree)' /\ KindsStay /\ Elsewhere({p}) /\ p \in DOMAIN tree' /\ tree'[p].kind = "file"
    <3> DEFINE n == Node("file", "torn")
    <3> HIDE DEF n
    <3>1. NodeSound(n) /\ n.kind = "file" /\ tree' = Put(MkdirAll(Front(p)), p, n)
      BY <2>1, <2>2 DEF n
    <3> QED
      BY <1>1, <1>5, <3>1, FilePut
  <2>4. /\ fileReq'[r].op = "write" /\ fileReq'[r].step = "fill" /\ fileReq'[r].dest = p /\ fileReq'[r].data = k.data
        /\ fileReq'[r].open = {p} /\ fileReq'[r].calm \in BOOLEAN /\ HasFields(fileReq[r])'
    BY <1>1, <1>3, <2>1 DEF ReqShape, HasFields
  <2>5. ReqShape(fileReq[r])'
    BY <1>2, <1>3, <1>4, <2>3, <2>4 DEF ReqShape, There, BelowRoot
  <2>6. ReqSound(fileReq[r])'
    BY <2>4, <2>5 DEF ReqSound
  <2> QED
    BY <1>4, <2>1, <2>3, <2>6, FileInvStayed
<1>6. CASE ~(CanMkdirAll(Front(p)) /\ (There(p) => ~IsDir(p)))
  <2>1. tree' = MkdirAll(Front(p)) /\ fileReq'[r] = FileRest /\ Stayed(r, {})
    BY <1>3, <1>6 DEF CreateFile, Change, Stay, Stayed
  <2>2. SoundTree(tree)' /\ KindsStay /\ Elsewhere({})
    BY <1>1, <1>4, <2>1, MkdirAllKeeps DEF KindsStay, Elsewhere
  <2> QED
    BY <2>1, <2>2, RestSound, FileInvStayed
<1> QED
  BY <1>5, <1>6

\* What is in the files that a request has open changes.
LEMMA OpenFilled ==
  ASSUME FileInv, NEW r \in FileReqs, ReqSound(fileReq[r])', Stayed(r, fileReq[r].open),
         tree' = [p \in DOMAIN tree |-> IF p \notin fileReq[r].open THEN tree[p] ELSE tree'[p]],
         \A p \in fileReq[r].open : NodeSound(tree'[p]) /\ tree'[p].kind = "file"
  PROVE  FileInv'
<1>1. PICK opened : opened = fileReq[r].open
  OBVIOUS
<1>2. SoundTree(tree) /\ \A p \in opened : p \in DOMAIN tree /\ tree[p].kind = "file"
  BY <1>1 DEF FileInv, ReqSound, ReqShape, There
<1>3. opened \in SUBSET Paths
  BY <1>2 DEF SoundTree, BelowRoot, Paths
<1>4. DOMAIN tree' = DOMAIN tree /\ \A p \in DOMAIN tree : p \notin opened => tree'[p] = tree[p]
  BY <1>1
<1>5. SoundTree(tree)'
  <2>1. \A p \in DOMAIN tree : tree'[p] = tree[p] \/ (NodeSound(tree'[p]) /\ tree'[p].kind = tree[p].kind)
    BY <1>1, <1>2, <1>4
  <2>2. tree' = [p \in DOMAIN tree |-> tree'[p]]
    BY <1>4
  <2>3. SoundTree(tree')
    BY <1>2, <2>1, <2>2, FilesFilled
  <2> QED
    BY <2>3 DEF SoundTree
<1>6. KindsStay
  BY <1>1, <1>2, <1>4 DEF KindsStay
<1>7. Elsewhere(opened)
  BY <1>2, <1>3, <1>4, PrefixRefl DEF Elsewhere
<1> QED
  BY <1>1, <1>3, <1>5, <1>6, <1>7, FileInvStayed

\* And filled.
LEMMA CopyInKeeps == ASSUME FileInv, NEW r \in FileReqs, CopyIn(r) PROVE FileInv'
<1> DEFINE k == fileReq[r]
           d == IF \E q \in FileReqs \ {r} : TRUE THEN "torn" ELSE k.data
<1>1. k.step = "fill" /\ ReqShape(k)
  BY DEF CopyIn, FileInv, ReqSound
<1>2. k.data \in Contents
  BY <1>1 DEF ReqShape, FileRest
<1>3. CASE FileFails(r)
  BY <1>3, FileFailsKeeps
<1>4. CASE ~FileFails(r)
  <2>1. /\ tree' = [p \in DOMAIN tree |->
                      IF p \notin k.open THEN tree[p]
                      ELSE Node("file", IF \E q \in FileReqs \ {r} : p \in fileReq[q].open THEN "torn" ELSE k.data)]
        /\ Stayed(r, k.open) /\ fileReq'[r] = FileRest
    BY ZenonT(60), <1>4 DEF CopyIn, Change, Stay, Stayed
  <2>2. \A p \in k.open : p \in DOMAIN tree
    BY <1>1 DEF ReqShape, There
  <2>3. \A p \in k.open : tree'[p] \in {Node("file", "torn"), Node("file", k.data)}
    BY <2>1, <2>2
  <2>4. "torn" \in FileData /\ k.data \in FileData
    BY <1>2 DEF FileData
  <2>5. \A p \in k.open : NodeSound(tree'[p]) /\ tree'[p].kind = "file"
    BY <2>3, <2>4, PlainNodes
  <2>6. tree' = [p \in DOMAIN tree |-> IF p \notin k.open THEN tree[p] ELSE tree'[p]]
    BY <2>1
  <2> QED
    BY <2>1, <2>5, <2>6, RestSound, OpenFilled
<1> QED
  BY <1>3, <1>4

\* One path is removed.
Removes(r, p) ==
  /\ p # <<>> /\ tree' = [q \in DOMAIN tree \ Within(p) |-> tree[q]]
  /\ fileReq' = [q \in FileReqs |->
       IF q = r THEN IF Tail(fileReq[r].todo) = <<>> THEN FileRest ELSE [fileReq[r] EXCEPT !.todo = Tail(fileReq[r].todo)]
       ELSE [fileReq[q] EXCEPT
               !.calm = @ /\ (tree' = tree \/ fileReq[q].step = "done"),
               !.kept = {s \in @ : \A t \in {p} : ~IsPrefix(t, s)},
               !.open = {s \in @ : ~IsPrefix(p, s)}]]

\* A path is removed.
LEMMA RemoveAllKeeps == ASSUME FileInv, NEW r \in FileReqs, RemoveAll(r) PROVE FileInv'
<1> DEFINE k == fileReq[r]
<1>1. k.op = "delete" /\ k.step = "delete" /\ ReqShape(k) /\ SoundTree(tree)
  BY DEF RemoveAll, FileAt, FileInv, ReqSound
<1>2. k.todo \in Seq(Seq(PathNames)) /\ k.todo # <<>> /\ k.dest \in Seq(PathNames)
  BY <1>1 DEF ReqShape, FileRest
<1>3. PICK p \in Paths : p = Head(k.todo)
  BY <1>2 DEF Paths
<1>4. CASE FileFails(r)
  BY <1>4, FileFailsKeeps
<1>5. CASE ~FileFails(r)
  <2>n. Removes(r, Head(k.todo))
    BY <1>5 DEF RemoveAll, Change, Removes
  <2>p. Removes(r, p)
    BY <1>3, <2>n
  <2>0. /\ tree' = [q \in DOMAIN tree \ Within(p) |-> tree[q]]
        /\ fileReq' = [q \in FileReqs |->
             IF q = r THEN IF Tail(k.todo) = <<>> THEN FileRest ELSE [k EXCEPT !.todo = Tail(k.todo)]
             ELSE [fileReq[q] EXCEPT
                     !.calm = fileReq[q].calm /\ (tree' = tree \/ fileReq[q].step = "done"),
                     !.kept = {s \in fileReq[q].kept : \A t \in {p} : ~IsPrefix(t, s)},
                     !.open = {s \in fileReq[q].open : ~IsPrefix(p, s)}]]
    BY <2>p DEF Removes
  <2>1. /\ tree' = [q \in DOMAIN tree \ Within(p) |-> tree[q]]
        /\ fileReq'[r] = IF Tail(k.todo) = <<>> THEN FileRest ELSE [k EXCEPT !.todo = Tail(k.todo)]
        /\ DOMAIN fileReq' = FileReqs
    BY <2>0
  <2>2. \A q \in FileReqs \ {r} :
          fileReq'[q] = [fileReq[q] EXCEPT !.calm = fileReq[q].calm /\ (tree' = tree \/ fileReq[q].step = "done"),
                                           !.kept = {s \in fileReq[q].kept : \A t \in {p} : ~IsPrefix(t, s)},
                                           !.open = {s \in fileReq[q].open : ~IsPrefix(p, s)}]
    BY <2>0
  <2>3. SoundTree(tree)' /\ Elsewhere({p})
    <3>1. SoundTree([q \in DOMAIN tree \ Within(p) |-> tree[q]])
      BY <1>1, PathRemoved
    <3>2. SoundTree(tree)'
      BY <2>1, <3>1 DEF SoundTree
    <3>3. Elsewhere({p})
      BY <2>1 DEF Elsewhere, Within
    <3> QED
      BY <3>2, <3>3
  <2>4. ASSUME NEW q \in FileReqs \ {r} PROVE Outrun(q, {p}) /\ Followed(q, {p})
    <3>1. ReqShape(fileReq[q])
      BY DEF FileInv, ReqSound
    <3> DEFINE c == fileReq[q].calm /\ (tree' = tree \/ fileReq[q].step = "done")
               e == {s \in fileReq[q].kept : \A t \in {p} : ~IsPrefix(t, s)}
               o == {s \in fileReq[q].open : ~IsPrefix(p, s)}
    <3>2. fileReq'[q] = [fileReq[q] EXCEPT !.calm = c, !.kept = e, !.open = o]
      BY <2>2
    <3>3. fileReq'[q].open = o
      <4> HIDE DEF c, e, o
      <4> QED
        BY <3>1, <3>2 DEF ReqShape, HasFields
    <3>4. Outrun(q, {p})
      BY <3>2, <3>3 DEF Outrun
    <3>5. Followed(q, {p})
      BY <2>1, <3>1, <3>3 DEF Followed, ReqShape, There, Within
    <3> QED
      BY <3>4, <3>5
  <2>5. ReqSound(fileReq[r])'
    <3>1. CASE Tail(k.todo) = <<>>
      BY <2>1, <3>1, RestSound
    <3>2. CASE Tail(k.todo) # <<>>
      <4>1. /\ fileReq'[r].op = "delete" /\ fileReq'[r].step = "delete" /\ fileReq'[r].dest = k.dest
            /\ fileReq'[r].todo = Tail(k.todo) /\ fileReq'[r].open = k.open /\ fileReq'[r].calm \in BOOLEAN
            /\ HasFields(fileReq[r])'
        BY <1>1, <2>1, <3>2 DEF ReqShape, HasFields
      <4>2. Tail(k.todo) \in Seq(Seq(PathNames))
        BY <1>2
      <4>3. k.open = {}
        BY <1>1 DEF ReqShape, FileRest
      <4>4. ReqShape(fileReq[r])'
        BY <1>2, <3>2, <4>1, <4>2, <4>3 DEF ReqShape
      <4> QED
        BY <4>1, <4>4 DEF ReqSound
    <3> QED
      BY <3>1, <3>2
  <2> QED
    BY <2>1, <2>3, <2>4, <2>5, FileInvOutrun DEF Paths
<1> QED
  BY <1>4, <1>5

\* A path gets another name.
LEMMA RenameInKeeps ==
  ASSUME FileInv, NEW r \in FileReqs, NEW old \in BelowRoot, NEW new \in BelowRoot, NEW from, Prepared(from, new),
         RenameIn(r, from, old, new)
  PROVE  FileInv'
<1>0. SoundTree(tree) /\ old \in Paths /\ new \in Paths
  BY DEF FileInv, BelowRoot, Paths
<1>1. CASE Possible(from, old, new) /\ old # new
  <2>1. /\ tree' = Renamed(from, old, new)
        /\ fileReq' = [q \in FileReqs |->
             IF q = r THEN FileRest
             ELSE [fileReq[q] EXCEPT
                     !.calm = @ /\ (tree' = tree \/ fileReq[q].step = "done"),
                     !.kept = {s \in @ : \A t \in {old, new} : ~IsPrefix(t, s)},
                     !.open = {IF IsPrefix(old, s) THEN Moved(old, new, s) ELSE s : s \in @ \ {new}}]]
    BY <1>1 DEF RenameIn, Possible, Renamed, Change
  <2>a. PICK renamed : renamed = Renamed(from, old, new)
    OBVIOUS
  <2>b. /\ SoundTree(renamed) /\ old \notin DOMAIN renamed
        /\ \A q \in Within(old) : Moved(old, new, q) \in DOMAIN renamed /\ renamed[Moved(old, new, q)] = tree[q]
        /\ \A q \in DOMAIN tree : ~IsPrefix(old, q) /\ q # new => q \in DOMAIN renamed /\ renamed[q] = tree[q]
    BY <1>0, <1>1, <2>a, RenamedIs
  <2>c. tree' = renamed
    BY <2>1, <2>a
  <2>2. /\ old \notin DOMAIN tree'
        /\ \A q \in Within(old) : Moved(old, new, q) \in DOMAIN tree' /\ tree'[Moved(old, new, q)] = tree[q]
        /\ \A q \in DOMAIN tree : ~IsPrefix(old, q) /\ q # new => q \in DOMAIN tree' /\ tree'[q] = tree[q]
    BY <2>b, <2>c
  <2>3. SoundTree(tree)'
    BY <2>b, <2>c DEF SoundTree
  <2>4. Elsewhere({old, new})
    BY <1>0, <2>2, PrefixRefl DEF Elsewhere
  <2>5. tree' # tree
    BY <1>1, <2>2 DEF Possible, There
  <2>6. ASSUME NEW q \in FileReqs \ {r} PROVE Outrun(q, {old, new}) /\ Followed(q, {old, new})
    <3>1. ReqShape(fileReq[q])
      BY DEF FileInv, ReqSound
    <3> DEFINE c == fileReq[q].calm /\ (tree' = tree \/ fileReq[q].step = "done")
               e == {s \in fileReq[q].kept : \A t \in {old, new} : ~IsPrefix(t, s)}
               o == {IF IsPrefix(old, s) THEN Moved(old, new, s) ELSE s : s \in fileReq[q].open \ {new}}
    <3>2. fileReq'[q] = [fileReq[q] EXCEPT !.calm = c, !.kept = e, !.open = o]
      BY <2>1
    <3>3. fileReq'[q].open = o
      <4> HIDE DEF c, e, o
      <4> QED
        BY <3>1, <3>2 DEF ReqShape, HasFields
    <3>4. Outrun(q, {old, new})
      BY <3>2, <3>3 DEF Outrun
    <3>5. ASSUME NEW p \in o
          PROVE  /\ p \in DOMAIN tree' /\ tree'[p].kind = "file" /\ o = {p}
                 /\ p \in fileReq[q].open \/ \E t \in {old, new} : IsPrefix(t, p)
      <4>1. PICK s \in fileReq[q].open \ {new} : p = IF IsPrefix(old, s) THEN Moved(old, new, s) ELSE s
        OBVIOUS
      <4>2. s \in DOMAIN tree /\ tree[s].kind = "file" /\ fileReq[q].open = {s}
        BY <3>1 DEF ReqShape, There
      <4>3. s \in Paths
        BY <1>0, <4>2 DEF SoundTree, BelowRoot, Paths
      <4>4. o = {p}
        BY <4>1, <4>2
      <4>5. CASE IsPrefix(old, s)
        <5>1. s \in Within(old) /\ IsPrefix(new, p)
          BY <1>0, <4>1, <4>2, <4>3, <4>5, MovedIs DEF Within
        <5> QED
          BY <2>2, <4>1, <4>2, <4>4, <4>5, <5>1
      <4>6. CASE ~IsPrefix(old, s)
        BY <2>2, <4>1, <4>2, <4>4, <4>6
      <4> QED
        BY <4>5, <4>6
    <3>6. fileReq[q].open = {} => o = {}
      OBVIOUS
    <3>7. Followed(q, {old, new})
      <4> HIDE DEF o
      <4> QED
        BY <2>5, <3>3, <3>5, <3>6 DEF Followed
    <3> QED
      BY <3>4, <3>7
  <2>7. DOMAIN fileReq' = FileReqs /\ fileReq'[r] = FileRest
    BY <2>1
  <2>8. {old, new} \in SUBSET Paths
    BY <1>0
  <2> QED
    BY <2>3, <2>4, <2>6, <2>7, <2>8, RestSound, FileInvOutrun
<1>2. CASE ~(Possible(from, old, new) /\ old # new)
  <2>1. tree' = from /\ fileReq'[r] = FileRest /\ Stayed(r, {})
    BY <1>2 DEF RenameIn, Possible, Change, Stay, Stayed
  <2>2. SoundTree(tree)' /\ KindsStay /\ Elsewhere({})
    BY <2>1 DEF Prepared, SoundTree, KindsStay, Elsewhere
  <2> QED
    BY <2>1, <2>2, RestSound, FileInvStayed
<1> QED
  BY <1>1, <1>2

\* The handler's rename and the core API's.
LEMMA RenameKeeps ==
  ASSUME FileInv, NEW r \in FileReqs, NEW old \in FilePaths, NEW new \in FilePaths, Rename(r, old, new) \/ FileRename(r, old, new)
  PROVE  FileInv'
<1>1. old \in BelowRoot /\ new \in BelowRoot /\ SoundTree(tree) /\ Front(new) \in Paths
  <2>1. old \in BelowRoot /\ new \in BelowRoot /\ SoundTree(tree)
    BY FileAssumption DEF BelowRoot, FileInv
  <2> QED
    BY <2>1, FrontIs
<1>2. PICK from : from \in {tree, MkdirAll(Front(new))} /\ RenameIn(r, from, old, new)
  BY DEF Rename, FileRename
<1>3. Prepared(from, new)
  <2>1. CASE from = tree
    BY <1>1, <2>1 DEF Prepared
  <2>2. CASE from = MkdirAll(Front(new))
    <3>1. \A q \in Above(Front(new)) : IsPrefix(q, Front(new))
      BY <1>1, AboveIs
    <3> QED
      BY <1>1, <2>2, <3>1, MkdirAllKeeps DEF Prepared
  <2> QED
    BY <1>2, <2>1, <2>2
<1> QED
  BY <1>1, <1>2, <1>3, RenameInKeeps

-----------------------------------------------------------------------------
(* Archives are made.                                                      *)

\* The tree that sources make, in a tree t: what is taken, and what of it an entry stands for.
Taken(t, sources) == {v \in ToSet(sources) \X DOMAIN t : IsPrefix(v[1], v[2])}
TakenAs(taken, e) == CHOOSE v \in taken : Rel(v[1], v[2]) = e
TreeIn(t, taken, sources, dest) ==
  IF (\E v, w \in taken : v # w /\ Rel(v[1], v[2]) = Rel(w[1], w[2])) \/ (\E s \in ToSet(sources) : IsPrefix(s, dest)) THEN NoTree
  ELSE [e \in {Rel(v[1], v[2]) : v \in taken} |->
          LET p == TakenAs(taken, e)[2]
          IN  [kind |-> t[p].kind, data |-> IF t[p].data \in {"archive", "open"} THEN "packed" ELSE t[p].data]]

\* A file is put into a directory that is there.
LEMMA FilePutHere ==
  ASSUME SoundTree(tree), NEW p \in BelowRoot, NEW n, NodeSound(n), n.kind = "file", IsDir(Front(p)), There(p) => ~IsDir(p),
         tree' = Put(tree, p, n)
  PROVE  /\ SoundTree(tree)' /\ DOMAIN tree' = DOMAIN tree \cup {p} /\ tree'[p] = n
         /\ \A q \in DOMAIN tree : q # p => tree'[q] = tree[q]
<1>1. FitsIn(tree, p, n)
  BY DEF FitsIn, There, IsDir
<1>2. AddedTo(tree, p, n, Put(tree, p, n))
  BY <1>1, FileAdded
<1>3. AddedTo(tree, p, n, tree')
  BY <1>2
<1>4. SoundTree(tree') => SoundTree(tree)'
  BY DEF SoundTree
<1> QED
  BY <1>3, <1>4 DEF AddedTo

\* The file of an archive is created, and the walk begins.
LEMMA CreateArchiveKeeps == ASSUME FileInv, NEW r \in FileReqs, CreateArchive(r) PROVE FileInv'
<1> DEFINE k == fileReq[r]
<1>1. k.op = "pack" /\ k.step = "create" /\ ReqShape(k) /\ SoundTree(tree)
  BY DEF CreateArchive, FileAt, FileInv, ReqSound
<1>2. /\ k.dest \in Paths /\ k.dest \in BelowRoot /\ k.list = <<>> /\ k.sources \in Seq(BelowRoot) /\ k.sources # <<>>
      /\ HasFields(k)
  BY <1>1 DEF ReqShape, BelowRoot, Paths, FileRest
<1>3. CASE FileFails(r)
  BY <1>3, FileFailsKeeps
<1>4. CASE ~FileFails(r)
  <2> DEFINE dest == k.dest
             sources == k.sources
             kept == Under(k.sources) \ {k.dest}
             todo == [i \in DOMAIN k.sources |-> [src |-> k.sources[i], path |-> k.sources[i]]]
             of == TreeOf(k.sources, k.dest)
             n == Node("file", "open")
  <2>1. /\ IsDir(Front(dest)) /\ (There(dest) => ~IsDir(dest)) /\ tree' = Put(tree, dest, n) /\ Stayed(r, {dest})
        /\ fileReq'[r] = [k EXCEPT !.step = "walk", !.open = {dest}, !.kept = kept, !.todo = todo, !.of = of, !.calm = TRUE]
    BY <1>4 DEF CreateArchive, Change, Stay, Stayed
  <2>2. NodeSound(n) /\ n.kind = "file"
    BY PlainNodes DEF FileData
  <2>3. /\ SoundTree(tree)' /\ DOMAIN tree' = DOMAIN tree \cup {dest} /\ tree'[dest].kind = "file"
        /\ \A q \in DOMAIN tree : q # dest => tree'[q] = tree[q]
    <3>0. PICK p \in BelowRoot : p = dest
      BY <1>2
    <3> HIDE DEF n, dest
    <3>1. IsDir(Front(p)) /\ (There(p) => ~IsDir(p)) /\ SoundTree(tree) /\ NodeSound(n) /\ n.kind = "file" /\ tree' = Put(tree, p, n)
      BY <1>1, <2>1, <2>2, <3>0
    <3>2. SoundTree(tree)' /\ DOMAIN tree' = DOMAIN tree \cup {p} /\ tree'[p] = n /\ \A q \in DOMAIN tree : q # p => tree'[q] = tree[q]
      BY <3>1, FilePutHere
    <3> QED
      BY <2>2, <3>0, <3>2
  <2>4. KindsStay /\ Elsewhere({dest})
    <3>1. KindsStay
      <4> SUFFICES ASSUME NEW q \in DOMAIN tree PROVE q \in DOMAIN tree' /\ tree'[q].kind = tree[q].kind
        BY DEF KindsStay
      <4>1. q = dest => tree[q].kind = "file"
        BY <1>1, <2>1 DEF There, IsDir, SoundTree, NodeSound
      <4> QED
        BY <2>3, <4>1
    <3>2. Elsewhere({dest})
      BY <1>2, <2>3, PrefixRefl DEF Elsewhere
    <3> QED
      BY <3>1, <3>2
  <2>5. /\ fileReq'[r].op = "pack" /\ fileReq'[r].step = "walk" /\ fileReq'[r].dest = dest /\ fileReq'[r].list = <<>>
        /\ fileReq'[r].sources = sources /\ fileReq'[r].open = {dest} /\ fileReq'[r].kept = kept /\ fileReq'[r].todo = todo
        /\ fileReq'[r].of = of /\ fileReq'[r].calm = TRUE /\ HasFields(fileReq[r])'
    <3> HIDE DEF kept, todo, of
    <3> QED
      BY <1>1, <1>2, <2>1 DEF HasFields
  <2>6. ReqShape(fileReq[r])'
    BY <1>2, <2>3, <2>5 DEF ReqShape, There, BelowRoot, Paths
  \* What the archive is made of, where it does not hold itself, is as it was.
  <2>7. ASSUME of # NoTree
        PROVE  /\ \A s \in ToSet(sources) : ~IsPrefix(s, dest)
               /\ TreeOf(fileReq[r].sources, fileReq[r].dest)' = of
               /\ Under(fileReq[r].sources)' \subseteq kept
    <3>1. \A s \in ToSet(sources) : ~IsPrefix(s, dest)
      BY <2>7 DEF TreeOf
    <3>2. Taken(tree', sources) = Taken(tree, sources)
      BY <2>3, <3>1 DEF Taken
    <3>3. \A v \in Taken(tree, sources) : tree'[v[2]] = tree[v[2]]
      BY <2>3, <3>1 DEF Taken
    <3>4. TreeOf(fileReq[r].sources, fileReq[r].dest)' = of
      <4>1. of = TreeIn(tree, Taken(tree, sources), sources, dest)
        BY DEF TreeOf, Stored, TreeIn, Taken, TakenAs
      <4>2. TreeOf(fileReq[r].sources, fileReq[r].dest)' = TreeIn(tree', Taken(tree', fileReq'[r].sources), fileReq'[r].sources, fileReq'[r].dest)
        BY DEF TreeOf, Stored, TreeIn, Taken, TakenAs
      <4>3. TreeIn(tree', Taken(tree, sources), sources, dest) = TreeIn(tree, Taken(tree, sources), sources, dest)
        <5> DEFINE taken == Taken(tree, sources)
        <5>1. \A e \in {Rel(v[1], v[2]) : v \in taken} : TakenAs(taken, e) \in taken
          BY DEF TakenAs
        <5>2. \A e \in {Rel(v[1], v[2]) : v \in taken} : tree'[TakenAs(taken, e)[2]] = tree[TakenAs(taken, e)[2]]
          BY <3>3, <5>1
        <5> HIDE DEF taken
        <5> QED
          BY <5>2 DEF TreeIn, taken
      <4>4. Taken(tree', fileReq'[r].sources) = Taken(tree, sources) /\ fileReq'[r].sources = sources /\ fileReq'[r].dest = dest
        BY <2>5, <3>2
      <4> QED
        BY <4>1, <4>2, <4>3, <4>4
    <3>5. Under(fileReq[r].sources)' \subseteq kept
      BY <1>2, <2>3, <2>5, <3>1 DEF Under, Within, ToSet
    <3> QED
      BY <3>1, <3>4, <3>5
  <2>8. Owed(fileReq[r])' \subseteq kept
    BY <2>5, <2>7 DEF Owed
  <2>9. ASSUME NEW p \in kept
        PROVE  /\ p \in DOMAIN tree' /\ p \notin {dest} /\ \E s \in ToSet(sources) : IsPrefix(s, p)
               /\ \A s \in ToSet(sources) : IsPrefix(s, p) => \E j \in DOMAIN todo : todo[j].src = s /\ IsPrefix(todo[j].path, p)
    BY <1>2, <2>3 DEF Under, Within, ToSet
  <2>10. /\ todo \in Seq([src : ToSet(sources), path : BelowRoot]) /\ todo # <<>>
         /\ \A j \in DOMAIN todo : IsPrefix(todo[j].src, todo[j].path)
    <3>1. DOMAIN sources = 1 .. Len(sources) /\ Len(sources) \in Nat /\ Len(sources) # 0
      BY <1>2
    <3>2. \A i \in DOMAIN sources : sources[i] \in ToSet(sources) /\ sources[i] \in BelowRoot /\ sources[i] \in Paths
      BY <1>2 DEF ToSet, BelowRoot, Paths
    <3>3. todo \in Seq([src : ToSet(sources), path : BelowRoot]) /\ Len(todo) = Len(sources)
      BY <3>1, <3>2
    <3>4. \A j \in DOMAIN todo : IsPrefix(todo[j].src, todo[j].path)
      BY <3>2, PrefixRefl
    <3> QED
      BY <3>1, <3>3, <3>4
  <2>11. Packing(fileReq[r])'
    <3> HIDE DEF kept, todo, of
    <3>1. \A p \in Owed(fileReq[r])' :
            /\ There(p)' /\ p \notin fileReq'[r].open /\ \E s \in ToSet(fileReq'[r].sources) : IsPrefix(s, p)
            /\ \A s \in ToSet(fileReq'[r].sources) : IsPrefix(s, p) => Listed(fileReq[r], s, p)'
      BY <2>5, <2>8, <2>9 DEF There, Listed
    <3>2. fileReq'[r].list \in Seq(FileEntry) /\ DOMAIN fileReq'[r].list = {}
      BY <2>5
    <3> QED
      BY <2>5, <2>7, <2>10, <3>1, <3>2 DEF Packing
  <2>12. ReqSound(fileReq[r])'
    BY <2>5, <2>6, <2>11 DEF ReqSound
  <2>13. {dest} \in SUBSET Paths
    BY <1>2
  <2> HIDE DEF dest
  <2> QED
    BY <2>1, <2>3, <2>4, <2>12, <2>13, FileInvStayed
<1> QED
  BY <1>3, <1>4

-----------------------------------------------------------------------------
(* Names of entries, and the places they go to.                            *)

\* A finite set as a sequence.
LEMMA SetListed ==
  ASSUME NEW S, IsFiniteSet(S)
  PROVE  SetToSeq(S) \in Seq(S) /\ \A x \in S : \E i \in DOMAIN SetToSeq(S) : SetToSeq(S)[i] = x
<1> DEFINE n == Cardinality(S)
<1>1. n \in Nat /\ ExistsBijection(1 .. n, S)
  BY FS_CardinalityType
<1>2. PICK f : f \in [1 .. n -> S] /\ IsInjective(f)
  BY <1>1 DEF ExistsBijection, Bijection, Injection
<1>3. SetToSeq(S) \in [1 .. n -> S] /\ IsInjective(SetToSeq(S))
  BY <1>2 DEF SetToSeq
<1> DEFINE g == SetToSeq(S)
<1>4. g \in Injection(1 .. n, S)
  BY <1>3 DEF Injection
<1>5. Cardinality(1 .. n) = n
  BY <1>1, FS_Interval
<1> HIDE DEF g
<1>6. g \in Surjection(1 .. n, S)
  BY <1>4, <1>5, FS_Injection
<1>7. g \in [1 .. n -> S] /\ \A x \in S : \E i \in 1 .. n : g[i] = x
  BY <1>6 DEF Surjection
<1>8. DOMAIN g = 1 .. n
  BY <1>7
<1> HIDE DEF n
<1>9. g \in Seq(S)
  BY <1>1, <1>7
<1> QED
  BY <1>7, <1>8, <1>9 DEF g

\* The place of an entry below the destination.
LEMMA PlaceIs ==
  ASSUME NEW dest \in Paths, NEW x \in BelowRoot
  PROVE  /\ dest \o x \in BelowRoot /\ dest \o x \in Paths /\ IsPrefix(dest, dest \o x) /\ dest \o x # dest
         /\ SubSeq(dest \o x, Len(dest) + 1, Len(dest \o x)) = x
         /\ Len(dest \o x) = Len(dest) + Len(x) /\ Len(x) \in Nat \ {0}
         /\ Moved(<<>>, dest, x) = dest \o x
<1>0. x \in Paths /\ <<>> \in Paths /\ Len(x) \in Nat /\ Len(x) # 0 /\ Len(dest) \in Nat /\ Len(<<>>) = 0
  BY DEF BelowRoot, Paths
<1>1. IsPrefix(<<>>, x)
  BY <1>0, PrefixIs
<1>2. SubSeq(x, 1, Len(x)) = x
  BY DEF BelowRoot
<1>3. Moved(<<>>, dest, x) = dest \o x
  BY <1>0, <1>2 DEF Moved
<1>4. dest \o x \in Paths /\ IsPrefix(dest, dest \o x) /\ Len(dest \o x) = Len(dest) + Len(x)
  <2>1. /\ Moved(<<>>, dest, x) \in Paths /\ IsPrefix(dest, Moved(<<>>, dest, x))
        /\ Len(Moved(<<>>, dest, x)) = Len(dest) + Len(x) - Len(<<>>)
    BY <1>0, <1>1, MovedIs
  <2>2. Len(dest) + Len(x) - Len(<<>>) = Len(dest) + Len(x)
    BY <1>0
  <2> QED
    BY <1>3, <2>1, <2>2, Zenon
<1>5. Moved(dest, <<>>, dest \o x) = x
  BY <1>0, <1>1, <1>3, MovedBack
<1>6. PICK m \in Paths : m = dest \o x
  BY <1>4
<1>7. SubSeq(m, Len(dest) + 1, Len(m)) = x
  <2>1. SubSeq(m, Len(dest) + 1, Len(m)) \in Paths
    BY <1>0 DEF Paths
  <2>2. Moved(dest, <<>>, m) = SubSeq(m, Len(dest) + 1, Len(m))
    BY <2>1 DEF Moved, Paths
  <2> QED
    BY <1>5, <1>6, <2>2
<1>8. Len(m) # 0 /\ m # dest
  BY <1>0, <1>4, <1>6
<1>9. m \in BelowRoot
  BY <1>6, <1>8 DEF BelowRoot, Paths
<1> QED
  BY <1>0, <1>3, <1>4, <1>6, <1>7, <1>8, <1>9

\* What is above a place is above the directory it is in, or the place of something above the entry.
LEMMA PlaceAbove ==
  ASSUME NEW dest \in Paths, NEW x \in BelowRoot, NEW q \in Above(dest \o x)
  PROVE  q \in Above(dest) \/ \E y \in Above(x) : q = dest \o y
<1>p. PICK m \in Paths : m = dest \o x
  BY PlaceIs
<1>0. /\ m \in Paths /\ Moved(<<>>, dest, x) = m /\ x \in Paths /\ <<>> \in Paths /\ Len(dest) \in Nat
      /\ IsPrefix(dest, m) /\ Len(<<>>) = 0
  BY <1>p, PlaceIs DEF BelowRoot, Paths
<1>1. q \in BelowRoot /\ q \in Paths /\ IsPrefix(q, m) /\ Len(q) \in Nat
  <2>1. q \in Above(m)
    BY <1>p
  <2>2. q \in BelowRoot /\ IsPrefix(q, m)
    BY <1>0, <2>1, AboveIs
  <2> QED
    BY <2>2 DEF BelowRoot, Paths
<1>2. CASE Len(q) <= Len(dest)
  <2>1. IsPrefix(q, dest)
    BY <1>0, <1>1, <1>2, PrefixesNest
  <2> QED
    BY <1>1, <2>1, AboveIs
<1>3. CASE Len(q) > Len(dest)
  <2>1. IsPrefix(<<>>, x)
    BY <1>0, PrefixIs
  <2>2. PICK u \in Paths : IsPrefix(<<>>, u) /\ IsPrefix(u, x) /\ q = Moved(<<>>, dest, u)
    <3>1. IsPrefix(q, Moved(<<>>, dest, x)) /\ Len(q) >= Len(dest)
      BY <1>0, <1>1, <1>3
    <3> QED
      BY <1>0, <1>1, <2>1, <3>1, MovedAbove
  <2>3. Len(q) = Len(dest) + Len(u) - Len(<<>>) /\ Len(u) \in Nat
    <3>1. Len(Moved(<<>>, dest, u)) = Len(dest) + Len(u) - Len(<<>>)
      BY <1>0, <2>2, MovedIs
    <3> QED
      BY <2>2, <3>1 DEF Paths
  <2>4. u \in BelowRoot
    BY <1>0, <1>3, <2>3 DEF BelowRoot, Paths
  <2>5. q = dest \o u /\ u \in Above(x)
    BY <1>0, <2>2, <2>4, PlaceIs, AboveIs
  <2> QED
    BY <2>5
<1> QED
  BY <1>0, <1>1, <1>2, <1>3

\* The name of a path below a source.
LEMMA RelIs ==
  ASSUME NEW s \in BelowRoot, NEW p \in Paths, IsPrefix(s, p)
  PROVE  /\ Rel(s, p) \in BelowRoot /\ Rel(s, p) = Moved(Front(s), <<>>, p) /\ IsPrefix(Front(s), p)
<1>0. s \in Paths /\ Len(s) \in Nat /\ Len(s) # 0 /\ <<>> \in Paths /\ Len(p) \in Nat /\ Len(<<>>) = 0 /\ Len(s) <= Len(p)
  BY PrefixIs DEF BelowRoot, Paths
<1>1. Front(s) \in Paths /\ Len(Front(s)) = Len(s) - 1 /\ IsPrefix(Front(s), s)
  BY FrontIs
<1>2. IsPrefix(Front(s), p)
  BY <1>0, <1>1, PrefixTrans
<1>3. SubSeq(p, Len(s), Len(p)) \in Paths /\ Len(SubSeq(p, Len(s), Len(p))) = Len(p) - Len(s) + 1
  BY <1>0 DEF Paths
<1>4. Rel(s, p) \in BelowRoot
  <2>1. Len(p) - Len(s) + 1 # 0
    BY <1>0
  <2> QED
    BY <1>3, <2>1 DEF Rel, BelowRoot, Paths
<1>5. Moved(Front(s), <<>>, p) = SubSeq(p, Len(s), Len(p))
  <2>1. Len(Front(s)) + 1 = Len(s)
    BY <1>0, <1>1
  <2> QED
    BY <1>3, <2>1 DEF Moved, Paths
<1> QED
  BY <1>2, <1>4, <1>5 DEF Rel

\* What is above a name is the name of something above the path.
LEMMA RelAbove ==
  ASSUME NEW s \in BelowRoot, NEW p \in Paths, IsPrefix(s, p), NEW y \in Above(Rel(s, p))
  PROVE  \E u \in BelowRoot : IsPrefix(s, u) /\ IsPrefix(u, p) /\ y = Rel(s, u)
<1>0. s \in Paths /\ Len(s) \in Nat /\ Len(s) # 0 /\ <<>> \in Paths /\ Len(<<>>) = 0
  BY DEF BelowRoot, Paths
<1>1. Front(s) \in Paths /\ Len(Front(s)) = Len(s) - 1
  BY FrontIs
<1>2. Rel(s, p) = Moved(Front(s), <<>>, p) /\ IsPrefix(Front(s), p) /\ Rel(s, p) \in Paths
  BY RelIs DEF BelowRoot, Paths
<1>3. y \in BelowRoot /\ y \in Paths /\ IsPrefix(y, Rel(s, p)) /\ Len(y) \in Nat /\ Len(y) # 0
  BY <1>2, AboveIs DEF BelowRoot, Paths
<1>4. PICK u \in Paths : IsPrefix(Front(s), u) /\ IsPrefix(u, p) /\ y = Moved(Front(s), <<>>, u)
  <2>1. Len(y) >= Len(<<>>) /\ IsPrefix(y, Moved(Front(s), <<>>, p))
    BY <1>0, <1>2, <1>3
  <2> QED
    BY <1>0, <1>1, <1>2, <1>3, <2>1, MovedAbove
<1>5. Len(y) = Len(<<>>) + Len(u) - Len(Front(s)) /\ Len(u) \in Nat
  <2>1. Len(Moved(Front(s), <<>>, u)) = Len(<<>>) + Len(u) - Len(Front(s))
    BY <1>0, <1>1, <1>4, MovedIs
  <2> QED
    BY <1>4, <2>1 DEF Paths
<1>6. Len(s) <= Len(u)
  BY <1>0, <1>1, <1>3, <1>5
<1>7. IsPrefix(s, u)
  BY <1>0, <1>4, <1>6, PrefixesNest
<1>8. u \in BelowRoot
  BY <1>0, <1>6 DEF BelowRoot, Paths
<1>9. y = Rel(s, u)
  BY <1>4, <1>7, RelIs
<1> QED
  BY <1>4, <1>7, <1>8, <1>9

\* The tree that sources make has each of their files under its name, in directories.
LEMMA TreeOfIs ==
  ASSUME SoundTree(tree), NEW sources \in Seq(BelowRoot), NEW dest, TreeOf(sources, dest) # NoTree
  PROVE  /\ Grown(TreeOf(sources, dest))
         /\ \A s \in ToSet(sources) : \A p \in DOMAIN tree : IsPrefix(s, p) =>
              /\ Rel(s, p) \in DOMAIN TreeOf(sources, dest)
              /\ TreeOf(sources, dest)[Rel(s, p)] = [kind |-> tree[p].kind, data |-> Stored(p)]
         /\ \A x \in DOMAIN TreeOf(sources, dest) : \E s \in ToSet(sources) : \E p \in DOMAIN tree : IsPrefix(s, p) /\ x = Rel(s, p)
<1> DEFINE taken == Taken(tree, sources)
           of == TreeOf(sources, dest)
<1>0. /\ \A s \in ToSet(sources) : s \in BelowRoot
      /\ \A p \in DOMAIN tree : p \in Paths /\ p \in BelowRoot
  BY DEF SoundTree, BelowRoot, Paths, ToSet
<1>1. of = TreeIn(tree, taken, sources, dest)
  BY DEF TreeOf, Stored, TreeIn, Taken, TakenAs
<1>2. /\ \A v, w \in taken : Rel(v[1], v[2]) = Rel(w[1], w[2]) => v = w
      /\ of = [e \in {Rel(v[1], v[2]) : v \in taken} |->
                 [kind |-> tree[TakenAs(taken, e)[2]].kind, data |-> Stored(TakenAs(taken, e)[2])]]
  <2> HIDE DEF taken
  <2> QED
    BY <1>1 DEF TreeIn, Stored
<1>3. \A v \in taken : v = <<v[1], v[2]>> /\ v[1] \in ToSet(sources) /\ v[2] \in DOMAIN tree /\ IsPrefix(v[1], v[2])
  BY DEF Taken
<1>4. \A s \in ToSet(sources) : \A p \in DOMAIN tree : IsPrefix(s, p) => <<s, p>> \in taken
  BY DEF Taken
<1>5. \A v \in taken : TakenAs(taken, Rel(v[1], v[2])) = v
  <2> SUFFICES ASSUME NEW v \in taken PROVE TakenAs(taken, Rel(v[1], v[2])) = v
    OBVIOUS
  <2> HIDE DEF taken
  <2>1. TakenAs(taken, Rel(v[1], v[2])) \in taken /\ Rel(TakenAs(taken, Rel(v[1], v[2]))[1], TakenAs(taken, Rel(v[1], v[2]))[2]) = Rel(v[1], v[2])
    BY DEF TakenAs
  <2> QED
    BY <1>2, <2>1
<1> HIDE DEF taken, of
<1>6. ASSUME NEW s \in ToSet(sources), NEW p \in DOMAIN tree, IsPrefix(s, p)
      PROVE  Rel(s, p) \in DOMAIN of /\ of[Rel(s, p)] = [kind |-> tree[p].kind, data |-> Stored(p)]
  <2>1. PICK v \in taken : v = <<s, p>>
    BY <1>4, <1>6
  <2>2. v[1] = s /\ v[2] = p
    BY <2>1
  <2>3. TakenAs(taken, Rel(s, p))[2] = p
    BY <1>5, <2>2
  <2>4. Rel(s, p) \in {Rel(w[1], w[2]) : w \in taken}
    BY <2>2
  <2> QED
    BY <1>2, <2>3, <2>4
<1>7. \A x \in DOMAIN of : \E s \in ToSet(sources) : \E p \in DOMAIN tree : IsPrefix(s, p) /\ x = Rel(s, p)
  BY <1>2, <1>3
<1>8. ASSUME NEW x \in DOMAIN of
      PROVE  /\ x \in BelowRoot /\ of[x] = [kind |-> of[x].kind, data |-> of[x].data]
             /\ of[x].kind = "dir" => of[x].data = "none"
             /\ \A y \in Above(x) \ {x} : y \in DOMAIN of /\ of[y].kind = "dir"
  <2>1. PICK s \in ToSet(sources), p \in DOMAIN tree : IsPrefix(s, p) /\ x = Rel(s, p)
    BY <1>7
  <2>2. of[x] = [kind |-> tree[p].kind, data |-> Stored(p)]
    BY <1>6, <2>1
  <2>3. x \in BelowRoot
    BY <1>0, <2>1, RelIs
  <2>4. of[x].kind = "dir" => of[x].data = "none"
    <3>1. tree[p].kind = "dir" => tree[p].data = "none"
      BY DEF SoundTree, NodeSound
    <3> QED
      BY <2>2, <3>1 DEF Stored
  <2>5. ASSUME NEW y \in Above(x) \ {x} PROVE y \in DOMAIN of /\ of[y].kind = "dir"
    <3>1. PICK u \in BelowRoot : IsPrefix(s, u) /\ IsPrefix(u, p) /\ y = Rel(s, u)
      BY <1>0, <2>1, <2>5, RelAbove
    <3>2. u # p
      BY <2>1, <2>5, <3>1
    <3>3. u \in DOMAIN tree /\ tree[u].kind = "dir"
      BY <3>1, <3>2 DEF SoundTree
    <3>4. y \in DOMAIN of /\ of[y] = [kind |-> tree[u].kind, data |-> Stored(u)]
      BY <1>6, <3>1, <3>3
    <3> QED
      BY <3>3, <3>4
  <2> QED
    BY <2>2, <2>3, <2>4, <2>5
<1>9. Grown(of)
  BY <1>8 DEF Grown
<1> QED
  BY <1>6, <1>7, <1>9 DEF of

-----------------------------------------------------------------------------
(* An archive is filled and closed.                                        *)

\* What a walk has listed so far, and what is left to it.
Walked(q, list, todo) ==
  /\ list \in Seq(FileEntry)
  /\ todo \in Seq([src : ToSet(q.sources), path : BelowRoot])
  /\ \A j \in DOMAIN todo : IsPrefix(todo[j].src, todo[j].path)
  /\ \A p \in Owed(q) : \A s \in ToSet(q.sources) : IsPrefix(s, p) =>
       \/ Contains(list, Entry(s, p, Stored(p)))
       \/ \E j \in DOMAIN todo : todo[j].src = s /\ IsPrefix(todo[j].path, p)
  /\ q.calm /\ q.of # NoTree =>
       \A i \in DOMAIN list : \E s \in ToSet(q.sources) : \E p \in DOMAIN tree : IsPrefix(s, p) /\ list[i] = Entry(s, p, Stored(p))

\* What an undisturbed walk has listed at its end makes the tree that was packed.
LEMMA WalkedMakes ==
  ASSUME SoundTree(tree), NEW q, ReqShape(q), q.op = "pack", q.step = "walk", Packing(q), q.calm,
         NEW list, Walked(q, list, <<>>)
  PROVE  Makes(list, q.of)
<1> SUFFICES ASSUME q.of # NoTree
             PROVE  /\ Grown(q.of)
                    /\ \A i \in DOMAIN list : list[i].path \in DOMAIN q.of /\ Same(list[i], q.of[list[i].path])
                    /\ \A x \in DOMAIN q.of : \E i \in DOMAIN list : list[i].path = x
  BY DEF Makes
<1>1. q.sources \in Seq(BelowRoot)
  BY DEF ReqShape, FileRest
<1>2. q.of = TreeOf(q.sources, q.dest)
  BY DEF Packing
<1>3. /\ Grown(q.of)
      /\ \A s \in ToSet(q.sources) : \A p \in DOMAIN tree : IsPrefix(s, p) =>
           Rel(s, p) \in DOMAIN q.of /\ q.of[Rel(s, p)] = [kind |-> tree[p].kind, data |-> Stored(p)]
      /\ \A x \in DOMAIN q.of : \E s \in ToSet(q.sources) : \E p \in DOMAIN tree : IsPrefix(s, p) /\ x = Rel(s, p)
  BY <1>1, <1>2, TreeOfIs
<1>4. ASSUME NEW i \in DOMAIN list PROVE list[i].path \in DOMAIN q.of /\ Same(list[i], q.of[list[i].path])
  <2>1. PICK s \in ToSet(q.sources), p \in DOMAIN tree : IsPrefix(s, p) /\ list[i] = Entry(s, p, Stored(p))
    BY DEF Walked
  <2>2. list[i].path = Rel(s, p) /\ list[i].kind = tree[p].kind /\ list[i].data = Stored(p)
    BY <2>1 DEF Entry
  <2>3. Rel(s, p) \in DOMAIN q.of /\ q.of[Rel(s, p)] = [kind |-> tree[p].kind, data |-> Stored(p)]
    BY <1>3, <2>1
  <2> QED
    BY <2>2, <2>3 DEF Same
<1>5. ASSUME NEW x \in DOMAIN q.of PROVE \E i \in DOMAIN list : list[i].path = x
  <2>1. PICK s \in ToSet(q.sources), p \in DOMAIN tree : IsPrefix(s, p) /\ x = Rel(s, p)
    BY <1>3
  <2>2. p \in Under(q.sources)
    BY <2>1 DEF Under, Within, ToSet
  <2>3. p \in Owed(q)
    BY <2>2 DEF Owed
  <2>4. Contains(list, Entry(s, p, Stored(p)))
    BY <2>1, <2>3 DEF Walked
  <2>5. PICK i \in 1 .. Len(list) : list[i] = Entry(s, p, Stored(p))
    BY <2>4 DEF Contains
  <2>6. DOMAIN list = 1 .. Len(list)
    BY DEF Walked
  <2> QED
    BY <2>1, <2>5, <2>6 DEF Entry
<1> QED
  BY <1>3, <1>4, <1>5

\* An archive is closed: after the whole walk, or after an error.
LEMMA CloseArchiveKeeps ==
  ASSUME FileInv, NEW r \in FileReqs, FileAt(r, "pack", "walk"), NEW list, NEW ok \in BOOLEAN, CloseArchive(r, list, ok),
         list \in Seq(FileEntry), ok => Walked(fileReq[r], list, <<>>)
  PROVE  FileInv'
<1> DEFINE k == fileReq[r]
           of == IF ok /\ k.calm THEN k.of ELSE NoTree
           closed == [Node("file", "archive") EXCEPT !.list = list, !.of = of]
<1>1. k.op = "pack" /\ k.step = "walk" /\ ReqShape(k) /\ SoundTree(tree) /\ Packing(k) /\ HasFields(k)
  BY DEF FileAt, FileInv, ReqSound, ReqShape
<1>2. /\ tree' = [p \in DOMAIN tree |->
                    IF p \notin k.open THEN tree[p]
                    ELSE IF \E q \in FileReqs \ {r} : p \in fileReq[q].open THEN Node("file", "torn") ELSE closed]
      /\ Stayed(r, k.open)
      /\ fileReq'[r] = IF ok THEN [k EXCEPT !.step = "ended", !.list = list] ELSE FileRest
  BY DEF CloseArchive, Change, Stay, Stayed
<1>3. NodeSound(closed) /\ closed.kind = "file"
  <2>1. Makes(list, of)
    <3>1. CASE ok /\ k.calm
      <4>1. Makes(list, k.of)
        BY <1>1, <3>1, WalkedMakes
      <4> QED
        BY <3>1, <4>1
    <3>2. CASE ~(ok /\ k.calm)
      BY <3>2 DEF Makes
    <3> QED
      BY <3>1, <3>2
  <2> HIDE DEF of
  <2>2. closed.kind = "file" /\ closed.data = "archive" /\ closed.list = list /\ closed.of = of
    BY DEF Node
  <2> HIDE DEF closed
  <2> QED
    BY <2>1, <2>2 DEF NodeSound, FileData
<1>4. \A p \in k.open : p \in DOMAIN tree /\ tree[p].kind = "file" /\ k.open = {p}
  BY <1>1 DEF ReqShape, There
<1>5. \A p \in k.open : NodeSound(tree'[p]) /\ tree'[p].kind = "file"
  <2>1. \A p \in k.open : tree'[p] \in {Node("file", "torn"), closed}
    <3> HIDE DEF closed
    <3> QED
      BY <1>2, <1>4
  <2>2. "torn" \in FileData
    BY DEF FileData
  <2> HIDE DEF closed
  <2> QED
    BY <1>3, <2>1, <2>2, PlainNodes
<1>6. tree' = [p \in DOMAIN tree |-> IF p \notin k.open THEN tree[p] ELSE tree'[p]]
  <2> HIDE DEF closed
  <2> QED
    BY <1>2
<1>7. ASSUME ok PROVE ReqSound(fileReq[r])'
  <2>1. /\ fileReq'[r].op = "pack" /\ fileReq'[r].step = "ended" /\ fileReq'[r].dest = k.dest /\ fileReq'[r].list = list
        /\ fileReq'[r].sources = k.sources /\ fileReq'[r].open = k.open /\ fileReq'[r].kept = k.kept
        /\ fileReq'[r].of = k.of /\ fileReq'[r].calm = k.calm /\ HasFields(fileReq[r])'
    BY <1>1, <1>2, <1>7 DEF HasFields
  <2>2. ReqShape(fileReq[r])'
    <3>1. \A p \in k.open : p \in DOMAIN tree' /\ tree'[p].kind = "file" /\ k.open = {p}
      BY <1>4, <1>5, <1>6
    <3>2. k.dest \in Seq(PathNames) /\ k.dest # <<>> /\ k.sources \in Seq(BelowRoot) /\ k.sources # <<>> /\ k.calm \in BOOLEAN
      BY <1>1 DEF ReqShape, FileRest
    <3> QED
      BY <2>1, <3>1, <3>2 DEF ReqShape, There
  <2>3. Owed(fileReq[r])' = k.kept
    BY <2>1 DEF Owed
  <2>4. ASSUME NEW p \in k.kept
        PROVE  /\ There(p)' /\ p \notin k.open /\ \E s \in ToSet(k.sources) : IsPrefix(s, p)
               /\ \A s \in ToSet(k.sources) : IsPrefix(s, p) => Listed(fileReq[r], s, p)'
    <3>1. p \in Owed(k)
      BY DEF Owed
    <3>2. p \in DOMAIN tree /\ p \notin k.open /\ \E s \in ToSet(k.sources) : IsPrefix(s, p)
      BY <1>1, <3>1 DEF Packing, There
    <3>3. p \in DOMAIN tree' /\ tree'[p] = tree[p]
      BY <1>6, <3>2
    <3>4. ASSUME NEW s \in ToSet(k.sources), IsPrefix(s, p) PROVE Listed(fileReq[r], s, p)'
      <4>1. Contains(list, Entry(s, p, Stored(p)))
        BY <1>7, <3>1, <3>4 DEF Walked
      <4>2. Entry(s, p, Stored(p))' = Entry(s, p, Stored(p))
        BY <3>3 DEF Entry, Stored
      <4> QED
        BY <2>1, <4>1, <4>2 DEF Listed
    <3> QED
      BY <3>2, <3>3, <3>4 DEF There
  <2>5. Packing(fileReq[r])'
    BY <2>1, <2>3, <2>4 DEF Packing
  <2> QED
    BY <2>1, <2>2, <2>5 DEF ReqSound
<1>8. ReqSound(fileReq[r])'
  BY <1>2, <1>7, RestSound
<1> QED
  BY <1>2, <1>5, <1>6, <1>8, OpenFilled

\* The next path is looked at: its children come before what is left.
Looks(q, s, p, e, below, list, todo) ==
  /\ s = Head(q.todo).src /\ p = Head(q.todo).path /\ p \in DOMAIN tree
  /\ e = Entry(s, p, IF p \in q.open THEN "torn" ELSE Stored(p))
  /\ below = SetToSeq(Children(p))
  /\ list = q.list \o <<e>>
  /\ todo = [i \in DOMAIN below |-> [src |-> s, path |-> below[i]]] \o Tail(q.todo)

\* An undisturbed walk looks at one path, and goes on with those below it.
LEMMA VisitWalks ==
  ASSUME FileInv, NEW r \in FileReqs, FileAt(r, "pack", "walk"),
         NEW s, NEW p, NEW e, NEW below, NEW list, NEW todo, Looks(fileReq[r], s, p, e, below, list, todo)
  PROVE  Walked(fileReq[r], list, todo)
<1> DEFINE k == fileReq[r]
<1>1. /\ k.op = "pack" /\ k.step = "walk" /\ ReqShape(k) /\ SoundTree(tree) /\ Packing(k)
      /\ k.list \in Seq(FileEntry) /\ k.todo # <<>> /\ k.todo \in Seq([src : ToSet(k.sources), path : BelowRoot])
      /\ \A j \in DOMAIN k.todo : IsPrefix(k.todo[j].src, k.todo[j].path)
  BY DEF FileAt, FileInv, ReqSound, Packing
<1>2. PICK n \in Nat : n = Len(k.todo) /\ n # 0 /\ DOMAIN k.todo = 1 .. n
  BY <1>1
<1>3. /\ s = k.todo[1].src /\ p = k.todo[1].path /\ s \in ToSet(k.sources) /\ p \in BelowRoot /\ IsPrefix(s, p)
  <2> DEFINE Item == [src : ToSet(k.sources), path : BelowRoot]
  <2>0. PICK work \in Seq(Item) : work = k.todo
    BY <1>1
  <2> HIDE DEF Item
  <2>a. Len(work) = n
    BY <1>2, <2>0
  <2>b. work[1] \in Item /\ Head(work) = work[1]
    BY <1>2, <2>a
  <2>1. k.todo[1] \in [src : ToSet(k.sources), path : BelowRoot] /\ IsPrefix(k.todo[1].src, k.todo[1].path) /\ Head(k.todo) = k.todo[1]
    <3>1. 1 \in DOMAIN k.todo
      BY <1>2
    <3> QED
      BY <1>1, <2>0, <2>b, <3>1 DEF Item
  <2>2. s = Head(k.todo).src /\ p = Head(k.todo).path
    BY DEF Looks
  <2> QED
    BY <2>1, <2>2
<1>3b. p \in DOMAIN tree
  BY DEF Looks
<1>4. ToSet(k.sources) \subseteq BelowRoot /\ BelowRoot \subseteq Paths /\ DOMAIN tree \subseteq BelowRoot
  <2>1. k.sources \in Seq(BelowRoot)
    BY <1>1 DEF ReqShape, FileRest
  <2>2. ToSet(k.sources) \subseteq BelowRoot
    BY <2>1 DEF ToSet
  <2> QED
    BY <1>1, <2>2 DEF BelowRoot, Paths, SoundTree
<1>5. s \in BelowRoot /\ s \in Paths /\ p \in Paths /\ Rel(s, p) \in BelowRoot
  BY <1>3, <1>4, RelIs
<1>6. e.path = Rel(s, p) /\ e.kind = tree[p].kind /\ e.data = IF p \in k.open THEN "torn" ELSE Stored(p)
  BY DEF Looks, Entry
<1>7. e \in FileEntry
  <2>1. tree[p].kind \in {"dir", "file"} /\ tree[p].data \in FileData
    BY <1>1, <1>3b DEF SoundTree, NodeSound
  <2>2. Stored(p) \in FileData /\ "torn" \in FileData
    BY <2>1 DEF Stored, FileData
  <2> QED
    BY <1>5, <2>1, <2>2 DEF Looks, Entry, FileEntry
<1>8. /\ k.list \o <<e>> \in Seq(FileEntry)
      /\ Len(k.list \o <<e>>) = Len(k.list) + 1 /\ (k.list \o <<e>>)[Len(k.list) + 1] = e
      /\ \A i \in 1 .. Len(k.list) : (k.list \o <<e>>)[i] = k.list[i]
  BY <1>1, <1>7
<1>9. list = k.list \o <<e>>
  BY DEF Looks
<1>10. PICK m \in Nat : /\ m = Len(k.list) /\ list \in Seq(FileEntry) /\ Len(list) = m + 1 /\ list[m + 1] = e
                        /\ \A i \in 1 .. m : list[i] = k.list[i]
  <2>1. Len(k.list) \in Nat
    BY <1>1
  <2> QED
    BY <1>8, <1>9, <2>1
\* What is below it.
<1>11. below \in Seq(Children(p)) /\ \A c \in Children(p) : \E i \in DOMAIN below : below[i] = c
  <2>1. IsFiniteSet(Children(p))
    <3>1. Children(p) \subseteq DOMAIN tree /\ IsFiniteSet(DOMAIN tree)
      BY <1>1 DEF Children, Within, SoundTree
    <3> QED
      BY <3>1, FS_Subset
  <2> QED
    BY <2>1, SetListed DEF Looks
<1>12. \A c \in Children(p) : c \in BelowRoot /\ c \in Paths /\ IsPrefix(p, c) /\ IsPrefix(s, c)
  <2>1. \A c \in Children(p) : c \in BelowRoot /\ c \in Paths /\ IsPrefix(p, c)
    BY <1>4 DEF Children, Within
  <2> QED
    BY <1>3, <1>5, <2>1, PrefixTrans
<1>13. PICK h \in Nat : h = Len(below) /\ DOMAIN below = 1 .. h
  BY <1>11
<1>14. /\ todo \in Seq([src : ToSet(k.sources), path : BelowRoot]) /\ Len(todo) = h + n - 1
       /\ \A i \in 1 .. h : todo[i] = [src |-> s, path |-> below[i]]
       /\ \A j \in 2 .. n : todo[h + j - 1] = k.todo[j]
  <2> DEFINE Item == [src : ToSet(k.sources), path : BelowRoot]
             first == [i \in DOMAIN below |-> [src |-> s, path |-> below[i]]]
  <2>1. \A i \in 1 .. h : below[i] \in Children(p)
    BY <1>11, <1>13
  <2>2. first \in Seq(Item) /\ Len(first) = h /\ \A i \in 1 .. h : first[i] = [src |-> s, path |-> below[i]]
    BY <1>3, <1>12, <1>13, <2>1
  <2>3. PICK end : end = Tail(k.todo)
    OBVIOUS
  <2>4. end \in Seq(Item) /\ Len(end) = n - 1 /\ \A j \in 1 .. n - 1 : end[j] = k.todo[j + 1]
    BY <1>1, <1>2, <2>3
  <2>5. todo = first \o end
    BY <2>3 DEF Looks
  <2> HIDE DEF first, Item
  <2>a. first \o end \in Seq(Item) /\ Len(first \o end) = h + (n - 1)
    <3>1. first \in Seq(Item) /\ end \in Seq(Item)
      BY <2>2, <2>4
    <3>2. first \o end \in Seq(Item) /\ Len(first \o end) = Len(first) + Len(end)
      BY <3>1, ConcatProperties
    <3> QED
      BY <2>2, <2>4, <3>2
  <2>b. \A i \in 1 .. h : (first \o end)[i] = first[i]
    BY <2>2, <2>4
  <2>c. \A j \in 1 .. n - 1 : (first \o end)[h + j] = end[j]
    BY <2>2, <2>4
  <2>6. todo \in Seq(Item) /\ Len(todo) = h + (n - 1) /\ \A i \in 1 .. h : todo[i] = first[i]
    BY <2>5, <2>a, <2>b
  <2>7. \A j \in 1 .. n - 1 : todo[h + j] = end[j]
    BY <2>5, <2>c
  <2>8. ASSUME NEW j \in 2 .. n PROVE todo[h + j - 1] = k.todo[j]
    <3>1. j - 1 \in 1 .. n - 1 /\ (j - 1) + 1 = j /\ h + (j - 1) = h + j - 1
      OBVIOUS
    <3>2. todo[h + (j - 1)] = end[j - 1] /\ end[j - 1] = k.todo[(j - 1) + 1]
      BY <2>4, <2>7, <3>1
    <3> QED
      BY <3>1, <3>2
  <2> QED
    BY <2>2, <2>6, <2>8 DEF Item
<1>15. \A i \in 1 .. h : todo[i].src = s /\ todo[i].path = below[i] /\ below[i] \in Children(p)
  <2> SUFFICES ASSUME NEW i \in 1 .. h PROVE todo[i].src = s /\ todo[i].path = below[i] /\ below[i] \in Children(p)
    OBVIOUS
  <2>1. todo[i] = [src |-> s, path |-> below[i]]
    BY <1>14
  <2>2. below[i] \in Children(p)
    BY <1>11, <1>13
  <2> QED
    BY <2>1, <2>2
<1>16. DOMAIN todo = 1 .. h + n - 1
  BY <1>14
<1>17. ASSUME NEW j \in DOMAIN todo PROVE IsPrefix(todo[j].src, todo[j].path)
  <2>1. CASE j \in 1 .. h
    BY <1>12, <1>15, <2>1
  <2>2. CASE j \notin 1 .. h
    <3>1. j - h + 1 \in 2 .. n /\ h + (j - h + 1) - 1 = j
      BY <1>16, <2>2
    <3>2. todo[j] = k.todo[j - h + 1] /\ j - h + 1 \in DOMAIN k.todo
      BY <1>2, <1>14, <3>1
    <3> QED
      BY <1>1, <3>2
  <2> QED
    BY <2>1, <2>2
<1>18. ASSUME NEW u \in Owed(k), NEW x \in ToSet(k.sources), IsPrefix(x, u)
       PROVE  \/ Contains(list, Entry(x, u, Stored(u)))
              \/ \E j \in DOMAIN todo : todo[j].src = x /\ IsPrefix(todo[j].path, u)
  <2>0. u \in DOMAIN tree /\ u \notin k.open /\ Listed(k, x, u)
    BY <1>1, <1>18 DEF Packing, There
  <2>a. u \in Paths
    BY <1>4, <2>0
  <2>1. CASE Contains(k.list, Entry(x, u, Stored(u)))
    <3>1. PICK i \in 1 .. m : k.list[i] = Entry(x, u, Stored(u))
      BY <1>10, <2>1 DEF Contains
    <3>2. i \in 1 .. Len(list) /\ list[i] = Entry(x, u, Stored(u))
      BY <1>10, <3>1
    <3> QED
      BY <3>2 DEF Contains
  <2>2. ASSUME NEW j \in DOMAIN k.todo, k.todo[j].src = x, IsPrefix(k.todo[j].path, u), j # 1
        PROVE  \E i \in DOMAIN todo : todo[i].src = x /\ IsPrefix(todo[i].path, u)
    <3>1. j \in 2 .. n
      BY <1>2, <2>2
    <3>2. todo[h + j - 1] = k.todo[j] /\ h + j - 1 \in DOMAIN todo
      BY <1>14, <1>16, <3>1
    <3> QED
      BY <2>2, <3>2
  <2>3. CASE s = x /\ IsPrefix(p, u) /\ p = u
    <3>1. e = Entry(x, u, Stored(u))
      BY <2>0, <2>3 DEF Looks
    <3>2. m + 1 \in 1 .. Len(list) /\ list[m + 1] = Entry(x, u, Stored(u))
      BY <1>10, <3>1
    <3> QED
      BY <3>2 DEF Contains
  <2>4. CASE s = x /\ IsPrefix(p, u) /\ p # u
    <3>1. Len(p) \in Nat /\ Len(u) \in Nat /\ Len(p) < Len(u)
      BY <1>5, <2>a, <2>4, PrefixSame, PrefixIs DEF Paths
    <3>2. Len(p) + 1 \in 0 .. Len(u)
      BY <3>1
    <3>3. PICK c \in Paths : Len(c) = Len(p) + 1 /\ IsPrefix(c, u)
      BY <2>a, <3>2, CutIs
    <3>4. IsPrefix(p, c)
      BY <1>5, <2>a, <2>4, <3>1, <3>3, PrefixesNest
    <3>5. c \in BelowRoot
      BY <3>1, <3>3 DEF BelowRoot, Paths
    <3>6. c \in DOMAIN tree
      <4>1. c = u \/ c \in DOMAIN tree
        BY <1>1, <2>0, <3>3, <3>5 DEF SoundTree
      <4> QED
        BY <2>0, <4>1
    <3>7. c \in Children(p)
      BY <3>3, <3>4, <3>6 DEF Children, Within
    <3>8. PICK i \in 1 .. h : below[i] = c
      BY <1>11, <1>13, <3>7
    <3>9. i \in DOMAIN todo /\ todo[i].src = x /\ todo[i].path = c
      BY <1>2, <1>15, <1>16, <2>4, <3>8
    <3> QED
      BY <3>3, <3>9
  <2>5. CASE \E j \in DOMAIN k.todo : k.todo[j].src = x /\ IsPrefix(k.todo[j].path, u)
    BY <1>3, <2>2, <2>3, <2>4, <2>5
  <2> QED
    BY <2>0, <2>1, <2>5 DEF Listed
<1>19. ASSUME k.calm, k.of # NoTree, NEW i \in DOMAIN list
       PROVE  \E x \in ToSet(k.sources) : \E u \in DOMAIN tree : IsPrefix(x, u) /\ list[i] = Entry(x, u, Stored(u))
  <2>1. CASE i \in 1 .. m
    <3>1. i \in DOMAIN k.list /\ list[i] = k.list[i]
      BY <1>1, <1>10, <2>1
    <3> QED
      BY <1>1, <1>19, <3>1 DEF Packing
  <2>2. CASE i = m + 1
    <3>1. p \in Under(k.sources)
      BY <1>3, <1>3b DEF Under, Within, ToSet
    <3>2. p \in Owed(k)
      BY <1>1, <1>19, <3>1 DEF Owed
    <3>3. p \notin k.open
      BY <1>1, <3>2 DEF Packing
    <3> QED
      BY <1>3, <1>3b, <1>10, <2>2, <3>3 DEF Looks
  <2> QED
    BY <1>10, <2>1, <2>2
<1>20. Walked(k, list, todo)
  BY <1>10, <1>14, <1>17, <1>18, <1>19 DEF Walked
<1> QED
  BY <1>20

\* The walk takes a step, ends, or fails.
LEMMA WalkKeeps == ASSUME FileInv, NEW r \in FileReqs, Walk(r) PROVE FileInv'
<1> DEFINE k == fileReq[r]
<1>1. /\ k.op = "pack" /\ k.step = "walk" /\ ReqShape(k) /\ Packing(k) /\ k.list \in Seq(FileEntry) /\ FileAt(r, "pack", "walk")
      /\ HasFields(k)
  BY DEF Walk, FileAt, FileInv, ReqSound, Packing, ReqShape
<1>2. CASE CloseArchive(r, k.list, FALSE)
  BY <1>1, <1>2, CloseArchiveKeeps
<1>3. CASE There(Head(k.todo).path) /\ Visit(r)
  <2>1. PICK s, p, e, below, list, todo : Looks(k, s, p, e, below, list, todo)
    BY <1>3 DEF Looks, There
  <2>4. Walked(k, list, todo)
    BY <1>1, <2>1, VisitWalks
  <2>5. IF todo = <<>> THEN CloseArchive(r, list, TRUE)
        ELSE fileReq' = [fileReq EXCEPT ![r] = [k EXCEPT !.todo = todo, !.list = list]] /\ tree' = tree
    BY <1>3, <2>1 DEF Visit, VisitEntries, Looks
  <2>6. CASE todo = <<>>
    BY <1>1, <2>4, <2>5, <2>6, CloseArchiveKeeps DEF Walked
  <2>7. CASE todo # <<>>
    <3>1. tree' = tree /\ fileReq' = [fileReq EXCEPT ![r] = fileReq'[r]] /\ fileReq'[r] = [k EXCEPT !.todo = todo, !.list = list]
      BY <2>5, <2>7 DEF FileInv
    <3>2. /\ fileReq'[r].op = "pack" /\ fileReq'[r].step = "walk" /\ fileReq'[r].dest = k.dest /\ fileReq'[r].list = list
          /\ fileReq'[r].sources = k.sources /\ fileReq'[r].open = k.open /\ fileReq'[r].kept = k.kept /\ fileReq'[r].todo = todo
          /\ fileReq'[r].of = k.of /\ fileReq'[r].calm = k.calm /\ HasFields(fileReq[r])'
      BY <1>1, <3>1 DEF HasFields
    <3>3. ReqShape(fileReq[r])'
      <4>1. /\ k.dest \in Seq(PathNames) /\ k.dest # <<>> /\ k.sources \in Seq(BelowRoot) /\ k.sources # <<>> /\ k.calm \in BOOLEAN
            /\ \A p1 \in k.open : p1 \in DOMAIN tree /\ tree[p1].kind = "file" /\ k.open = {p1}
        BY <1>1 DEF ReqShape, FileRest, There
      <4> QED
        BY <3>1, <3>2, <4>1 DEF ReqShape, There
    <3>4. TreeOf(fileReq[r].sources, fileReq[r].dest)' = TreeOf(k.sources, k.dest)
      BY <3>1, <3>2 DEF TreeOf, Stored
    <3>5. \A x, u : Entry(x, u, Stored(u))' = Entry(x, u, Stored(u))
      BY <3>1 DEF Entry, Stored
    <3>6. Owed(fileReq[r])' = Owed(k)
      BY <1>1, <3>1, <3>2 DEF Owed, Under, Within
    <3>7. ASSUME NEW u \in Owed(k)
          PROVE  /\ There(u)' /\ u \notin k.open /\ \E x \in ToSet(k.sources) : IsPrefix(x, u)
                 /\ \A x \in ToSet(k.sources) : IsPrefix(x, u) => Listed(fileReq[r], x, u)'
      <4>1. u \in DOMAIN tree /\ u \notin k.open /\ \E x \in ToSet(k.sources) : IsPrefix(x, u)
        BY <1>1 DEF Packing, There
      <4>2. ASSUME NEW x \in ToSet(k.sources), IsPrefix(x, u) PROVE Listed(fileReq[r], x, u)'
        BY <2>4, <3>2, <3>5, <4>2 DEF Walked, Listed
      <4> QED
        BY <3>1, <4>1, <4>2 DEF There
    <3>8. ASSUME k.calm, k.of # NoTree
          PROVE  /\ fileReq'[r].of = TreeOf(fileReq[r].sources, fileReq[r].dest)'
                 /\ \A i \in DOMAIN list : \E x \in ToSet(k.sources), u \in DOMAIN tree' :
                      IsPrefix(x, u) /\ list[i] = Entry(x, u, Stored(u))'
      <4>1. k.of = TreeOf(k.sources, k.dest)
        BY <1>1, <3>8 DEF Packing
      <4>2. \A i \in DOMAIN list : \E x \in ToSet(k.sources) : \E u \in DOMAIN tree : IsPrefix(x, u) /\ list[i] = Entry(x, u, Stored(u))
        BY <2>4, <3>8 DEF Walked
      <4> QED
        BY <3>1, <3>2, <3>4, <3>5, <4>1, <4>2
    <3>9. Packing(fileReq[r])'
      <4>1. /\ list \in Seq(FileEntry) /\ todo \in Seq([src : ToSet(k.sources), path : BelowRoot])
            /\ \A j \in DOMAIN todo : IsPrefix(todo[j].src, todo[j].path)
        BY <2>4 DEF Walked
      <4> QED
        BY <2>7, <3>2, <3>6, <3>7, <3>8, <4>1 DEF Packing
    <3>10. ReqSound(fileReq[r])'
      BY <3>2, <3>3, <3>9 DEF ReqSound
    <3> QED
      BY <3>1, <3>10, FileInvSame
  <2> QED
    BY <2>6, <2>7
<1> QED
  BY <1>2, <1>3 DEF Walk

-----------------------------------------------------------------------------
(* An archive is taken apart.                                              *)

\* What is in the directory that an undisturbed request extracts into, and what is left to it.
Unpacked(dest, of, todo) ==
  /\ CanMkdirAll(dest)
  /\ \A p \in Within(dest) \ {dest} : \E x \in DOMAIN of : p = dest \o x /\ Same(tree[p], of[x])
  /\ \A x \in DOMAIN of : dest \o x \in DOMAIN tree \/ \E j \in DOMAIN todo : todo[j].path = x
  /\ \A j \in DOMAIN todo : todo[j].path \in DOMAIN of /\ Same(todo[j], of[todo[j].path])

\* Two entries at one place have one path.
LEMMA SamePlace ==
  ASSUME NEW dest \in Paths, NEW x \in BelowRoot, NEW y \in BelowRoot, dest \o x = dest \o y
  PROVE  x = y
<1>1. SubSeq(dest \o x, Len(dest) + 1, Len(dest \o x)) = x
  BY PlaceIs
<1>2. SubSeq(dest \o y, Len(dest) + 1, Len(dest \o y)) = y
  BY PlaceIs
<1> QED
  BY <1>1, <1>2, Zenon

\* The directories that an entry needs can be made.
LEMMA RoomForEntry ==
  ASSUME SoundTree(tree), NEW dest \in Paths, NEW of, Grown(of), NEW todo, Unpacked(dest, of, todo), NEW x \in DOMAIN of
  PROVE  /\ \A q \in Above(dest \o x) : q # dest \o x /\ There(q) => IsDir(q)
         /\ of[x].kind = "dir" => CanMkdirAll(dest \o x)
<1>0. x \in BelowRoot /\ DOMAIN of \subseteq BelowRoot /\ \A y \in Above(x) \ {x} : y \in DOMAIN of /\ of[y].kind = "dir"
  BY DEF Grown
<1>1. x \in Paths /\ Above(x) \subseteq BelowRoot
  BY <1>0, AboveIs DEF BelowRoot, Paths
<1>2. ASSUME NEW q \in Above(dest \o x), There(q), q # dest \o x \/ of[x].kind = "dir" PROVE IsDir(q)
  <2>1. CASE q \in Above(dest)
    BY <1>2, <2>1 DEF Unpacked, CanMkdirAll
  <2>2. ASSUME NEW y \in Above(x), q = dest \o y PROVE IsDir(q)
    <3>1. y \in BelowRoot /\ IsPrefix(dest, q) /\ q # dest
      BY <1>1, <2>2, PlaceIs
    <3>2. q \in Within(dest) \ {dest}
      BY <1>2, <3>1 DEF Within, There
    <3>3. PICK z \in DOMAIN of : q = dest \o z /\ Same(tree[q], of[z])
      BY <3>2 DEF Unpacked
    <3>4. z = y
      <4>1. z \in BelowRoot /\ dest \o z = dest \o y
        BY <1>0, <2>2, <3>3
      <4> QED
        BY <3>1, <4>1, SamePlace
    <3>5. of[y].kind = "dir"
      BY <1>0, <1>2, <2>2
    <3> QED
      BY <1>2, <3>3, <3>4, <3>5 DEF Same, There, IsDir
  <2> QED
    BY <1>0, <2>1, <2>2, PlaceAbove
<1> QED
  BY <1>2 DEF CanMkdirAll

\* An entry is extracted: it is there, and the directories above it are.
EntryOut(p, n) ==
  /\ SoundTree(tree)' /\ KindsStay /\ p \in DOMAIN tree' /\ Same(tree'[p], n)
  /\ \A q \in DOMAIN tree' : (q \in DOMAIN tree /\ tree'[q] = tree[q]) \/ q = p \/ (q \in Above(p) /\ tree'[q] = Directory)

\* An entry is placed.
LEMMA EntryUnpacked ==
  ASSUME SoundTree(tree), NEW dest \in Paths, NEW of, Grown(of), NEW todo \in Seq(FileEntry), todo # <<>>, Unpacked(dest, of, todo),
         EntryOut(dest \o todo[1].path, todo[1])
  PROVE  Unpacked(dest, of, Tail(todo))'
<1>1. PICK e, x : e = todo[1] /\ x = e.path
  OBVIOUS
<1>2. 1 \in DOMAIN todo
  OBVIOUS
<1>3. x \in DOMAIN of /\ Same(e, of[x]) /\ x \in BelowRoot /\ DOMAIN of \subseteq BelowRoot
  BY <1>1, <1>2 DEF Unpacked, Grown
<1>4. PICK p \in BelowRoot : p = dest \o x /\ IsPrefix(dest, p) /\ p # dest /\ p \in Paths
  BY <1>3, PlaceIs
<1>5. /\ SoundTree(tree)' /\ KindsStay /\ p \in DOMAIN tree' /\ Same(tree'[p], e)
      /\ \A q \in DOMAIN tree' : (q \in DOMAIN tree /\ tree'[q] = tree[q]) \/ q = p \/ (q \in Above(p) /\ tree'[q] = Directory)
  <2>1. EntryOut(p, e)
    BY <1>1, <1>4
  <2> QED
    BY <2>1 DEF EntryOut
<1>6. /\ \A j \in DOMAIN Tail(todo) : j + 1 \in DOMAIN todo /\ Tail(todo)[j] = todo[j + 1]
      /\ \A j \in DOMAIN todo : j # 1 => j - 1 \in DOMAIN Tail(todo) /\ Tail(todo)[j - 1] = todo[j]
  OBVIOUS
<1>7. \A q \in Above(dest) : q # p /\ q \in Paths /\ q \in BelowRoot
  <2>1. ~IsPrefix(p, dest)
    BY <1>4, PrefixIs, PrefixSame DEF Paths
  <2> QED
    BY <1>4, <2>1, AboveIs DEF BelowRoot, Paths
<1>8. CanMkdirAll(dest)'
  <2> SUFFICES ASSUME NEW q \in Above(dest), q \in DOMAIN tree' PROVE tree'[q].kind = "dir"
    BY DEF CanMkdirAll, There, IsDir
  <2>1. CASE q \in DOMAIN tree
    <3>1. tree[q].kind = "dir"
      BY <1>7, <2>1 DEF Unpacked, CanMkdirAll, There, IsDir, BelowRoot
    <3> QED
      BY <1>5, <2>1, <3>1 DEF KindsStay
  <2>2. CASE q \notin DOMAIN tree
    BY <1>5, <1>7, <2>2, PlainNodes
  <2> QED
    BY <2>1, <2>2
<1>9. ASSUME NEW q \in DOMAIN tree', IsPrefix(dest, q), q # dest
      PROVE  \E y \in DOMAIN of : q = dest \o y /\ Same(tree'[q], of[y])
  <2>1. CASE q = p
    BY <1>3, <1>4, <1>5, <2>1 DEF Same
  <2>2. CASE q \in DOMAIN tree /\ tree'[q] = tree[q]
    BY <1>9, <2>2 DEF Unpacked, Within
  <2>3. CASE q \in Above(p) /\ tree'[q] = Directory /\ q # p
    <3>1. q \notin Above(dest)
      <4>1. q \in Above(dest) => FALSE
        <5> SUFFICES ASSUME q \in Above(dest) PROVE FALSE
          OBVIOUS
        <5>1. q \in Paths /\ IsPrefix(q, dest) /\ q \in BelowRoot
          BY <1>7, AboveIs
        <5> QED
          BY <1>9, <5>1, PrefixIs, PrefixSame DEF Paths
      <4> QED
        BY <4>1
    <3>2. PICK y \in Above(x) : q = dest \o y
      BY <1>3, <1>4, <2>3, <3>1, PlaceAbove
    <3>3. y # x
      BY <1>4, <2>3, <3>2
    <3>4. y \in DOMAIN of /\ of[y].kind = "dir" /\ of[y].data = "none"
      BY <1>3, <3>3 DEF Grown
    <3> QED
      BY <2>3, <3>2, <3>4, PlainNodes DEF Same
  <2> QED
    BY <1>5, <2>1, <2>2, <2>3
<1>10. ASSUME NEW y \in DOMAIN of PROVE dest \o y \in DOMAIN tree' \/ \E j \in DOMAIN Tail(todo) : Tail(todo)[j].path = y
  <2>1. CASE dest \o y \in DOMAIN tree
    BY <1>5, <2>1 DEF KindsStay
  <2>2. ASSUME NEW j \in DOMAIN todo, todo[j].path = y PROVE dest \o y \in DOMAIN tree' \/ \E i \in DOMAIN Tail(todo) : Tail(todo)[i].path = y
    <3>1. CASE j = 1
      BY <1>1, <1>4, <1>5, <2>2, <3>1
    <3>2. CASE j # 1
      BY <1>6, <2>2, <3>2
    <3> QED
      BY <3>1, <3>2
  <2> QED
    BY <2>1, <2>2 DEF Unpacked
<1>11. ASSUME NEW j \in DOMAIN Tail(todo)
       PROVE  Tail(todo)[j].path \in DOMAIN of /\ Same(Tail(todo)[j], of[Tail(todo)[j].path])
  BY <1>6 DEF Unpacked
<1> QED
  BY <1>8, <1>9, <1>10, <1>11 DEF Unpacked, Within

\* The next entry is extracted, skipped, or fails.
LEMMA ExtractEntryKeeps == ASSUME FileInv, NEW r \in FileReqs, ExtractEntry(r) PROVE FileInv'
<1> DEFINE k == fileReq[r]
<1>1. /\ k.op = "extract" /\ k.step = "extract" /\ ReqShape(k) /\ Extracting(k) /\ SoundTree(tree) /\ k.todo # <<>>
      /\ HasFields(k) /\ k.todo \in Seq(FileEntry) /\ k.dest \in Paths /\ k.calm \in BOOLEAN
  BY DEF ExtractEntry, FileAt, FileInv, ReqSound, ReqShape, FileRest, Paths
<1>2. PICK todo \in Seq(FileEntry) : todo = k.todo
  BY <1>1
<1>3. PICK dest \in Paths : dest = k.dest
  BY <1>1
<1>4. todo # <<>> /\ Head(todo) = todo[1] /\ todo[1] \in FileEntry /\ Tail(todo) \in Seq(FileEntry) /\ (Len(todo) = 1 => Tail(todo) = <<>>)
  <2>1. todo # <<>> /\ Len(todo) \in Nat /\ Len(todo) # 0
    BY <1>1, <1>2
  <2>2. Tail(todo) \in Seq(FileEntry) /\ Len(Tail(todo)) = Len(todo) - 1
    BY <2>1, HeadTailProperties
  <2>3. Head(todo) = todo[1] /\ todo[1] \in FileEntry
    BY <2>1
  <2>4. Len(todo) = 1 => Tail(todo) = <<>>
    <3>1. PICK rest \in Seq(FileEntry) : rest = Tail(todo) /\ Len(rest) = Len(todo) - 1
      BY <2>2
    <3>2. Len(todo) = 1 => rest = <<>>
      BY <2>1, <3>1
    <3> QED
      BY <3>1, <3>2
  <2> QED
    BY <2>1, <2>2, <2>3, <2>4
<1>5. PICK e : e = todo[1]
  OBVIOUS
<1>6. e.path \in BelowRoot /\ e.kind \in {"dir", "file"} /\ e.data \in FileData
  BY <1>4, <1>5 DEF FileEntry
<1>7. PICK p \in BelowRoot : p = dest \o e.path /\ p \in Paths
  BY <1>6, PlaceIs
<1>8. CASE FileFails(r)
  BY <1>8, FileFailsKeeps
<1> DEFINE step == IF Len(todo) = 1 THEN "ended" ELSE k.step
           rest == [k EXCEPT !.todo = Tail(todo), !.step = step]
<1>9. \/ FileFails(r)
      \/ e.kind = "dir" /\ tree' = MkdirAll(p) /\ fileReq'[r] = rest /\ Stayed(r, {})
      \/ /\ e.kind = "file" /\ CanMkdirAll(Front(p)) /\ (There(p) => ~IsDir(p))
         /\ tree' = Put(MkdirAll(Front(p)), p, Node("file", e.data)) /\ fileReq'[r] = rest /\ Stayed(r, {p})
  <2>1. Head(k.todo) = e /\ Place(k.dest, e) = p
    BY <1>2, <1>3, <1>4, <1>5, <1>7 DEF Place
  <2> QED
    BY <1>2, <2>1 DEF ExtractEntry, Change, Stay, Stayed
<1>10. ASSUME fileReq'[r] = rest, SoundTree(tree)', KindsStay,
              k.calm /\ k.of # NoTree => EntryOut(p, e)
       PROVE  ReqSound(fileReq[r])'
  <2>1. /\ fileReq'[r].op = "extract" /\ fileReq'[r].step = step /\ fileReq'[r].dest = dest /\ fileReq'[r].todo = Tail(todo)
        /\ fileReq'[r].open = k.open /\ fileReq'[r].of = k.of /\ fileReq'[r].calm = k.calm /\ HasFields(fileReq[r])'
    <3> HIDE DEF step
    <3> QED
      BY <1>1, <1>3, <1>10 DEF HasFields
  <2>2. ReqShape(fileReq[r])'
    <3>1. \A q \in k.open : q \in DOMAIN tree' /\ tree'[q].kind = "file" /\ k.open = {q}
      BY <1>1, <1>10 DEF ReqShape, There, KindsStay
    <3>2. step \in {"extract", "ended"}
      BY <1>1
    <3> QED
      BY <1>1, <1>4, <2>1, <3>1, <3>2 DEF ReqShape, There, Paths
  <2>3. ASSUME k.calm, k.of # NoTree PROVE Extracting(fileReq[r])'
    <3>1. Grown(k.of) /\ Unpacked(dest, k.of, todo)
      BY <1>1, <1>2, <1>3, <2>3 DEF Extracting, Unpacked, There
    <3>2. PICK of : of = k.of
      OBVIOUS
    <3>3. Unpacked(dest, of, Tail(todo))'
      <4>1. EntryOut(dest \o todo[1].path, todo[1])
        BY <1>5, <1>7, <1>10, <2>3
      <4> QED
        BY <1>1, <1>4, <3>1, <3>2, <4>1, EntryUnpacked
    <3>4. step = "ended" => Tail(todo) = <<>>
      BY <1>1, <1>4
    <3> QED
      BY <2>1, <3>1, <3>2, <3>3, <3>4 DEF Extracting, Unpacked, There
  <2>4. Extracting(fileReq[r])'
    BY <2>1, <2>3 DEF Extracting
  <2> QED
    BY <2>1, <2>2, <2>4 DEF ReqSound
<1>11. CASE e.kind = "dir" /\ tree' = MkdirAll(p) /\ fileReq'[r] = rest /\ Stayed(r, {})
  <2>1. /\ SoundTree(MkdirAll(p)) /\ DOMAIN tree \subseteq DOMAIN MkdirAll(p)
        /\ \A q \in DOMAIN tree : MkdirAll(p)[q] = tree[q]
        /\ \A q \in DOMAIN MkdirAll(p) : q \in DOMAIN tree \/ (q \in Above(p) /\ MkdirAll(p)[q] = Directory)
        /\ CanMkdirAll(p) => \A q \in Above(p) : q \in DOMAIN MkdirAll(p) /\ MkdirAll(p)[q].kind = "dir"
    BY <1>1, <1>7, MkdirAllKeeps
  <2>2. /\ SoundTree(tree)' /\ KindsStay /\ Elsewhere({})
        /\ \A q \in DOMAIN tree' : (q \in DOMAIN tree /\ tree'[q] = tree[q]) \/ (q \in Above(p) /\ tree'[q] = Directory)
        /\ CanMkdirAll(p) => \A q \in Above(p) : q \in DOMAIN tree' /\ tree'[q].kind = "dir"
    BY <1>11, <2>1 DEF SoundTree, KindsStay, Elsewhere
  <2>3. ASSUME k.calm, k.of # NoTree PROVE EntryOut(p, e)
    <3>1. Grown(k.of) /\ Unpacked(dest, k.of, todo)
      BY <1>1, <1>2, <1>3, <2>3 DEF Extracting, Unpacked, There
    <3>2. e.path \in DOMAIN k.of /\ Same(e, k.of[e.path])
      BY <1>4, <1>5, <3>1 DEF Unpacked
    <3>3. PICK of : of = k.of
      OBVIOUS
    <3>4. CanMkdirAll(p)
      <4>1. Grown(of) /\ Unpacked(dest, of, todo) /\ e.path \in DOMAIN of /\ of[e.path].kind = "dir"
        BY <1>11, <3>1, <3>2, <3>3 DEF Same
      <4>2. PICK x \in DOMAIN of : x = e.path
        BY <4>1
      <4>3. CanMkdirAll(dest \o x)
        BY <1>1, <4>1, <4>2, RoomForEntry
      <4> QED
        BY <1>7, <4>2, <4>3
    <3>5. p \in Above(p)
      BY <1>7, AboveIs, PrefixRefl
    <3>6. p \in DOMAIN tree' /\ tree'[p].kind = "dir"
      BY <2>2, <3>4, <3>5
    <3>7. tree'[p].data = "none"
      BY <2>2, <3>6 DEF SoundTree, NodeSound
    <3>8. e.data = "none"
      BY <1>11, <3>1, <3>2 DEF Grown, Same
    <3> QED
      BY <1>11, <2>2, <3>6, <3>7, <3>8 DEF EntryOut, Same
  <2>4. ReqSound(fileReq[r])'
    BY <1>10, <1>11, <2>2, <2>3
  <2> QED
    BY <1>11, <2>2, <2>4, FileInvStayed
<1>12. CASE /\ e.kind = "file" /\ CanMkdirAll(Front(p)) /\ (There(p) => ~IsDir(p))
            /\ tree' = Put(MkdirAll(Front(p)), p, Node("file", e.data)) /\ fileReq'[r] = rest /\ Stayed(r, {p})
  <2>1. PICK n : n = Node("file", e.data)
    OBVIOUS
  <2>2. NodeSound(n) /\ n.kind = "file" /\ n.data = e.data /\ tree' = Put(MkdirAll(Front(p)), p, n)
    BY <1>6, <1>12, <2>1, PlainNodes
  <2>3. /\ SoundTree(tree)' /\ KindsStay /\ Elsewhere({p}) /\ p \in DOMAIN tree' /\ tree'[p] = n
        /\ \A q \in DOMAIN tree' : q \in DOMAIN tree \/ q = p \/ (q \in Above(p) /\ tree'[q] = Directory)
    BY <1>1, <1>12, <2>2, FilePut
  <2>4. \A q \in DOMAIN tree : q # p => tree'[q] = tree[q]
    <3>1. \A q \in DOMAIN tree : IsPrefix(p, q) => q = p
      <4> SUFFICES ASSUME NEW q \in DOMAIN tree, IsPrefix(p, q), q # p PROVE FALSE
        OBVIOUS
      <4>1. p \in DOMAIN tree /\ tree[p].kind = "dir"
        BY <1>1 DEF SoundTree
      <4> QED
        BY <1>12, <4>1 DEF There, IsDir
    <3> QED
      BY <2>3, <3>1 DEF Elsewhere
  <2>5. EntryOut(p, e)
    BY <1>12, <2>2, <2>3, <2>4 DEF EntryOut, Same
  <2>6. ReqSound(fileReq[r])'
    BY <1>10, <1>12, <2>3, <2>5
  <2>7. {p} \in SUBSET Paths
    BY <1>7
  <2> QED
    BY <1>12, <2>3, <2>6, <2>7, FileInvStayed
<1> QED
  BY <1>8, <1>9, <1>11, <1>12

-----------------------------------------------------------------------------
(* The invariant.                                                          *)

\* There is nothing in the tree at first.
LEMMA FileInvInit == FileInit => FileInv
<1> SUFFICES ASSUME FileInit PROVE FileInv
  OBVIOUS
<1>1. tree = [p \in {} |-> Directory] /\ DOMAIN tree = {}
  BY DEF FileInit
<1>2. SoundTree(tree)
  BY <1>1, FS_EmptySet DEF SoundTree
<1>3. DOMAIN fileReq = FileReqs /\ \A r \in FileReqs : fileReq[r] = FileRest
  BY DEF FileInit
<1>4. HasFields(FileRest) /\ FileRest.calm = TRUE /\ FileRest.open = {} /\ FileRest.dest = <<>> /\ FileRest.op = "none"
  BY DEF HasFields, FileRest
<1>5. ReqSound(FileRest)
  <2>1. <<>> \in Seq(PathNames)
    OBVIOUS
  <2> QED
    BY <1>4, <2>1 DEF ReqSound, ReqShape
<1> QED
  BY <1>2, <1>3, <1>5 DEF FileInv

\* Every request, and the death of the panel, keeps the invariant.
LEMMA FileInvStep == ASSUME FileInv, FileNext PROVE FileInv'
<1>1. CASE FilePanelDies
  BY <1>1, FilePanelDiesKeeps
<1>2. ASSUME NEW r \in FileReqs, NEW p \in FilePaths, NEW d \in Contents, WriteFile(r, p, d) \/ Upload(r, p, d) \/ FileWrite(r, p, d)
      PROVE  FileInv'
  BY <1>2, FillKeeps DEF WriteFile, Upload, FileWrite
<1>3. ASSUME NEW r \in FileReqs, NEW p \in FilePaths, Mkdir(r, p) \/ FileDelete(r, p) \/ DeleteFiles(r, <<p>>) PROVE FileInv'
  <2>1. p \in Paths
    BY FileAssumption DEF Paths
  <2>2. <<p>> \in Seq(Paths) /\ <<p>> # <<>>
    BY <2>1
  <2>3. Mkdir(r, p) \/ DeleteFiles(r, <<p>>)
    BY <1>3 DEF FileDelete
  <2> QED
    BY <2>2, <2>3, MkdirKeeps, DeleteFilesKeeps
<1>4. ASSUME NEW r \in FileReqs, NEW p \in ArchivePaths, NEW q \in DestPaths \cup {<<>>}, DeleteFiles(r, <<q, p>>) PROVE FileInv'
  <2>0. <<>> \in Paths
    BY DEF Paths
  <2>1. p \in Paths /\ q \in Paths
    BY <2>0, FileAssumption DEF Paths
  <2>2. <<q, p>> \in Seq(Paths) /\ <<q, p>> # <<>>
    BY <2>1
  <2> QED
    BY <1>4, <2>2, DeleteFilesKeeps
<1>5. ASSUME NEW r \in FileReqs, NEW p \in FilePaths, NEW q \in FilePaths, Rename(r, p, q) \/ FileRename(r, p, q) PROVE FileInv'
  BY <1>5, RenameKeeps
<1>6. ASSUME NEW r \in FileReqs, CreateFile(r) \/ CopyIn(r) \/ RemoveAll(r) PROVE FileInv'
  BY <1>6, CreateFileKeeps, CopyInKeeps, RemoveAllKeeps
<1>7. ASSUME NEW r \in FileReqs, NEW s \in Selections, NEW a \in ArchivePaths, Compress(r, s, a) PROVE FileInv'
  BY <1>7, CompressKeeps
<1>8. ASSUME NEW r \in FileReqs, CreateArchive(r) \/ Walk(r) PROVE FileInv'
  BY <1>8, CreateArchiveKeeps, WalkKeeps
<1>9. ASSUME NEW r \in FileReqs, NEW a \in ArchivePaths, NEW d \in DestPaths, Extract(r, a, d) PROVE FileInv'
  BY <1>9, ExtractKeeps
<1>10. ASSUME NEW r \in FileReqs, ExtractEntry(r) \/ ExtractNothing(r) \/ Answer(r) PROVE FileInv'
  BY <1>10, ExtractEntryKeeps, ExtractNothingKeeps, FileFailsKeeps DEF Answer
<1> QED
  BY <1>1, <1>2, <1>3, <1>4, <1>5, <1>6, <1>7, <1>8, <1>9, <1>10 DEF FileNext

\* An archive that an undisturbed request has made lists the tree it was made of, and gives it back.
LEMMA FileInvSound == ASSUME FileInv PROVE FilesSound
<1>1. PackedComplete
  <2> SUFFICES ASSUME NEW r \in FileReqs, FileAt(r, "pack", "ended"), NEW p \in fileReq[r].kept
               PROVE  Contains(fileReq[r].list, Entry(SourceOf(fileReq[r].sources, p), p, Stored(p)))
    BY DEF PackedComplete
  <2>1. Packing(fileReq[r]) /\ fileReq[r].step = "ended"
    BY DEF FileInv, ReqSound, FileAt
  <2>2. p \in Owed(fileReq[r])
    BY DEF Owed
  <2>3. /\ \E s \in ToSet(fileReq[r].sources) : IsPrefix(s, p)
        /\ \A s \in ToSet(fileReq[r].sources) : IsPrefix(s, p) => Listed(fileReq[r], s, p)
    BY <2>1, <2>2 DEF Packing
  <2>4. SourceOf(fileReq[r].sources, p) \in ToSet(fileReq[r].sources) /\ IsPrefix(SourceOf(fileReq[r].sources, p), p)
    BY <2>3 DEF SourceOf
  <2> QED
    BY <2>1, <2>3, <2>4 DEF Listed
<1>2. GivesBack
  <2> DEFINE Got(dest) == {SubSeq(p, Len(dest) + 1, Len(p)) : p \in Within(dest) \ {dest}}
             Given(dest, of) == Got(dest) = DOMAIN of /\ \A e \in Got(dest) : of[e] = [kind |-> tree[dest \o e].kind, data |-> tree[dest \o e].data]
  <2>0. ASSUME NEW r \in FileReqs, FileAt(r, "extract", "ended"), fileReq[r].calm, fileReq[r].of # NoTree
        PROVE  Given(fileReq[r].dest, fileReq[r].of)
    <3>0. PICK dest, of : dest = fileReq[r].dest /\ of = fileReq[r].of
      OBVIOUS
    <3>1. /\ fileReq[r].step = "ended" /\ fileReq[r].op = "extract" /\ Extracting(fileReq[r]) /\ dest \in Paths
      BY <2>0, <3>0 DEF FileInv, ReqSound, ReqShape, FileAt, Paths
    <3>2. /\ Grown(of)
          /\ \A p \in Within(dest) \ {dest} : \E x \in DOMAIN of : p = dest \o x /\ Same(tree[p], of[x])
          /\ \A x \in DOMAIN of : dest \o x \in DOMAIN tree
      BY SMTT(30), <2>0, <3>1, <3>0 DEF Extracting, There
    <3>3. \A x \in DOMAIN of : x \in BelowRoot /\ of[x] = [kind |-> of[x].kind, data |-> of[x].data]
      BY <3>2 DEF Grown
    <3>4. ASSUME NEW x \in DOMAIN of
          PROVE  /\ dest \o x \in Within(dest) \ {dest} /\ SubSeq(dest \o x, Len(dest) + 1, Len(dest \o x)) = x
                 /\ Same(tree[dest \o x], of[x])
      <4>1. /\ IsPrefix(dest, dest \o x) /\ dest \o x # dest
            /\ SubSeq(dest \o x, Len(dest) + 1, Len(dest \o x)) = x
        BY <3>1, <3>3, PlaceIs
      <4>2. dest \o x \in Within(dest) \ {dest}
        BY <3>2, <4>1 DEF Within
      <4>3. PICK y \in DOMAIN of : dest \o x = dest \o y /\ Same(tree[dest \o x], of[y])
        BY <3>2, <4>2
      <4>4. x = y
        BY <3>1, <3>3, <4>3, SamePlace
      <4> QED
        BY <4>1, <4>2, <4>3, <4>4
    <3>5. Got(dest) = DOMAIN of
      <4>1. \A p \in Within(dest) \ {dest} : SubSeq(p, Len(dest) + 1, Len(p)) \in DOMAIN of
        <5> SUFFICES ASSUME NEW p \in Within(dest) \ {dest} PROVE SubSeq(p, Len(dest) + 1, Len(p)) \in DOMAIN of
          OBVIOUS
        <5>1. PICK x \in DOMAIN of : p = dest \o x
          BY <3>2
        <5>2. SubSeq(dest \o x, Len(dest) + 1, Len(dest \o x)) = x
          BY <3>4
        <5> QED
          BY <5>1, <5>2, Zenon
      <4>2. \A x \in DOMAIN of : \E p \in Within(dest) \ {dest} : x = SubSeq(p, Len(dest) + 1, Len(p))
        BY <3>4
      <4> QED
        BY <4>1, <4>2
    <3>6. \A x \in DOMAIN of : of[x] = [kind |-> tree[dest \o x].kind, data |-> tree[dest \o x].data]
      BY <3>3, <3>4 DEF Same
    <3> HIDE DEF Got
    <3> QED
      BY <3>5, <3>6, <3>0
  <2> QED
    BY <2>0 DEF GivesBack
<1> QED
  BY <1>1, <1>2 DEF FilesSound

-----------------------------------------------------------------------------
(* All of them.                                                            *)

\* Who does not move keeps what the invariants say: the scheduled tasks'.
LEMMA CronInvSame == CronInv /\ UNCHANGED cronVars => CronInv'
BY DEF cronVars, CronInv, CronTypeOK, CronSound, GuardHeld, CronOneRun, CronCalm, NoRequest, Busy, RequestOn,
       Row, Holding

\* Who stays keeps the crontab's.
LEMMA CrontabInvSame == CrontabInv /\ UNCHANGED crontabVars => CrontabInv'
BY DEF crontabVars, CrontabInv, CrontabTypeOK, SavesAlone, SeenBefore

\* Who stays keeps the jobs'.
LEMMA JobInvSame == JobInv /\ UNCHANGED jobVars => JobInv'
BY DEF jobVars, JobInv, JobTypeOK, JobsCounted, JobCalm, Orphans, JobQuiet, JobRow

\* Who stays keeps the extra processes'.
LEMMA ExtraInvSame == ExtraInv /\ UNCHANGED extraVars => ExtraInv'
BY DEF extraVars, ExtraInv, ExtraTypeOK, ReadIsCurrent, ExtrasBelong, InstancesOf

\* Who stays keeps the backups'.
LEMMA BakInvSame == BakInv /\ UNCHANGED bakVars => BakInv'
BY DEF bakVars, BakInv, BakTypeOK, BackupOneRun, Claimed, ScheduleCalm, BackupPlaces

\* Who stays keeps the events'.
LEMMA EvInvSame == EvInv /\ UNCHANGED evVars => EvInv'
BY DEF evVars, EvInv, EvSets, Subscribed, SendRecord, Pending, Unsent, Delivered, Listening

\* Who stays keeps the files'.
LEMMA FilesSame == FileInv /\ UNCHANGED fileVars => FileInv'
<1> SUFFICES ASSUME FileInv, tree' = tree, fileReq' = fileReq PROVE FileInv'
  BY DEF fileVars
<1>1. ASSUME NEW r \in FileReqs PROVE ReqSound(fileReq[r])'
  <2>1. ReqShape(fileReq[r])'
    BY <1>1 DEF FileInv, ReqSound, ReqShape, HasFields, There
  <2>2. ASSUME Packing(fileReq[r]) PROVE Packing(fileReq[r])'
    <3> DEFINE q == fileReq[r]
    <3>1. TreeOf(q.sources, q.dest)' = TreeOf(q.sources, q.dest)
      BY DEF TreeOf, Stored
    <3>2. Owed(q)' = Owed(q)
      BY DEF Owed, Under, Within
    <3>3. \A s, p : Entry(s, p, Stored(p))' = Entry(s, p, Stored(p))
      BY DEF Entry, Stored
    <3>4. \A s, p : Listed(q, s, p)' <=> Listed(q, s, p)
      BY DEF Listed, Entry, Stored
    <3> QED
      BY <2>2, <3>1, <3>2, <3>3, <3>4 DEF Packing, There
  <2>3. ASSUME Extracting(fileReq[r]) PROVE Extracting(fileReq[r])'
    BY <2>3 DEF Extracting, CanMkdirAll, There, IsDir, Within
  <2> QED
    BY <1>1, <2>1, <2>2, <2>3 DEF FileInv, ReqSound
<1>2. SoundTree(tree)'
  BY DEF FileInv
<1> QED
  BY <1>1, <1>2 DEF FileInv

\* The terminals move, or stay.
LEMMA TermInvKept == TermInv /\ [TermNext]_termVars => TermInv'
BY TermTypeStep, PlaceStep, LimitStep DEF TermInv

OpsInv ==
  /\ focus \in Foci
  /\ CronInv /\ CrontabInv /\ TermInv /\ UpgTypeOK
  /\ focus = "jobs" => JobInv
  /\ focus = "extras" => ExtraInv
  /\ focus \in {"backups", "schedule"} => BakInv
  /\ focus = "events" => EvInv
  /\ focus = "files" => FileInv

\* Where everything starts.
LEMMA OpsInvInit == OpsInit => OpsInv
BY CronInvInit, CrontabInvInit, TermInvInit, JobInvInit, ExtraInvInit, BakInvInit, EvInvInit,
   FileInvInit, UpgInvInit
DEF OpsInit, OpsInv, UpgInv

\* One component moves, the others stay.
LEMMA OpsInvStep == OpsInv /\ [OpsNext]_opsVars => OpsInv'
<1> SUFFICES ASSUME OpsInv, [OpsNext]_opsVars PROVE OpsInv'
  OBVIOUS
<1>0. FirstReq \in CronReqs /\ FirstReq \in ConfigReqs
  BY FirstReqAssumption
<1>a. UpgTypeOK'
  <2>1. [UpgNext]_upgVars
    BY DEF OpsNext, Move, opsVars
  <2> QED
    BY <2>1, UpgTypeStep DEF OpsInv
<1>1. CASE focus \in {"runs", "requests"} /\ OpsNext
  <2>1. UNCHANGED <<focus, crontabVars, termVars>>
        /\ (CronNextOf({FirstReq}, Executions) \/ CronNextOf(CronReqs, {}))
    BY <1>1 DEF OpsNext, Move
  <2>2. CronInv'
    BY <1>0, <2>1, CronInvStep DEF OpsInv
  <2> QED
    BY <1>1, <2>1, <1>a, <2>2, CrontabInvSame, TermInvKept DEF OpsInv
<1>2. CASE focus = "crontab" /\ OpsNext
  <2>1. UNCHANGED <<focus, cronVars, termVars>> /\ CrontabNext
    BY <1>2 DEF OpsNext, Move
  <2> QED
    BY <1>2, <2>1, <1>a, CrontabInvStep, CronInvSame, TermInvKept DEF OpsInv
<1>3. CASE focus = "jobs" /\ OpsNext
  <2>1. UNCHANGED <<focus, cronVars, crontabVars, termVars>> /\ JobNext
    BY <1>3 DEF OpsNext, Move
  <2> QED
    BY <1>3, <2>1, <1>a, JobInvStep, CronInvSame, CrontabInvSame, TermInvKept DEF OpsInv
<1>4. CASE focus = "extras" /\ OpsNext
  <2>1. UNCHANGED <<focus, cronVars, crontabVars, termVars>> /\ ExtraNext
    BY <1>4 DEF OpsNext, Move
  <2> QED
    BY <1>4, <2>1, <1>a, ExtraInvStep, CronInvSame, CrontabInvSame, TermInvKept DEF OpsInv
<1>5. CASE focus \in {"backups", "schedule"} /\ OpsNext
  <2>1. /\ UNCHANGED <<focus, cronVars, crontabVars, termVars>>
        /\ BakNextOf(Backup, {FirstReq}, {"same"}) \/ BakNextOf({}, ConfigReqs, {"on", "off", "same"})
    BY <1>5 DEF OpsNext, Move, BackupsNext
  <2>2. BakInv'
    BY <1>0, <1>5, <2>1, BakInvStep DEF OpsInv
  <2> QED
    BY <1>5, <2>1, <1>a, <2>2, CronInvSame, CrontabInvSame, TermInvKept DEF OpsInv
<1>6. CASE focus = "upgrade" /\ OpsNext
  <2>1. UNCHANGED <<focus, cronVars, crontabVars, termVars>> 
    BY <1>6 DEF OpsNext, Move
  <2> QED
    BY <1>6, <2>1, <1>a, CronInvSame, CrontabInvSame, TermInvKept DEF OpsInv
<1>7. CASE focus = "events" /\ OpsNext
  <2>1. UNCHANGED <<focus, cronVars, crontabVars, termVars>> /\ EvNext
    BY <1>7 DEF OpsNext, Move
  <2> QED
    BY <1>7, <2>1, <1>a, EvInvStep, CronInvSame, CrontabInvSame, TermInvKept DEF OpsInv
<1>8. CASE focus = "terminals" /\ OpsNext
  <2>1. UNCHANGED <<focus, cronVars, crontabVars>> /\ TermNext
    BY <1>8 DEF OpsNext, Move
  <2> QED
    BY <1>8, <2>1, <1>a, CronInvSame, CrontabInvSame, TermInvKept DEF OpsInv
<1>9. CASE focus = "files" /\ OpsNext
  <2>1. UNCHANGED <<focus, cronVars, crontabVars, termVars>> /\ FileNext
    BY <1>9 DEF OpsNext, Move, FilesNext
  <2> QED
    BY <1>9, <2>1, <1>a, FileInvStep, CronInvSame, CrontabInvSame, TermInvKept DEF OpsInv
<1>10. CASE UNCHANGED opsVars
  <2>1. UNCHANGED <<focus, cronVars, crontabVars, jobVars, extraVars, bakVars, evVars, termVars, fileVars>>
    BY <1>10 DEF opsVars
  <2> QED
    BY <2>1, <1>a, CronInvSame, CrontabInvSame, JobInvSame, ExtraInvSame, BakInvSame, EvInvSame, FilesSame, TermInvKept
    DEF OpsInv
<1>11. focus \in Foci
  BY DEF OpsInv
<1> QED
  BY <1>1, <1>2, <1>3, <1>4, <1>5, <1>6, <1>7, <1>8, <1>9, <1>10, <1>11 DEF Foci

\* The invariant holds throughout.
LEMMA OpsInvHolds == OpsSpec => []OpsInv
BY OpsInvInit, OpsInvStep, PTL DEF OpsSpec

\* What the invariant says of the events' types.
LEMMA EvTyped == EvInv => EvTypeOK
<1> SUFFICES ASSUME EvInv PROVE EvTypeOK
  OBVIOUS
<1>1. Calls \subseteq Seq(Whos)
  <2>1. <<>> \in Seq(Whos)
    OBVIOUS
  <2>2. ASSUME NEW w \in Whos PROVE <<w>> \in Seq(Whos)
    BY <2>2
  <2> QED
    BY <2>1, <2>2 DEF Calls
<1>2. \A t \in EvTypes : evSubs[t] \in Seq(Whos)
  BY <1>1 DEF EvInv, EvSets
<1>3. \A n \in DOMAIN evPub : evPub[n] \in PubRecord
  BY DEF EvInv, EvSets
<1>4. \A n \in DOMAIN evPub : evPub[n].type \in EvTypes /\ evPub[n].left \in Seq(Whos)
  BY <1>1, <1>3 DEF PubRecord
<1>5. \A c \in Channels : evChan[c].there \in BOOLEAN /\ evChan[c].enabled \in BOOLEAN
  BY DEF EvInv, EvSets, ChanRecord
<1>6. DOMAIN evPub = 1 .. Len(evPub)
  BY DEF EvInv, EvSets
<1>7. \A s \in evSends : s.pub \in DOMAIN evPub /\ s.ch \in Channels /\ s.step \in {"sending", "sent", "failed"}
  BY <1>6 DEF EvInv, EvSets, SendRecord, SendSteps
<1> QED
  BY <1>2, <1>4, <1>5, <1>7 DEF EvInv, EvSets, EvTypeOK

\* Nodes and requests have their types, each path is in a directory, and a request has one file open.
LEMMA FilesTyped == FileInv => FileTypeOK
<1> SUFFICES ASSUME FileInv PROVE FileTypeOK
  OBVIOUS
<1>1. ASSUME NEW p \in DOMAIN tree
      PROVE  /\ tree[p].kind \in {"dir", "file"} /\ p # <<>>
             /\ tree[p].data \in Contents \cup {"none", "torn", "open", "archive", "packed"}
             /\ IsDir(Front(p))
  <2>1. p \in BelowRoot /\ NodeSound(tree[p])
    BY DEF FileInv, SoundTree
  <2>2. Front(p) \in Paths /\ IsPrefix(Front(p), p) /\ Front(p) # p
    BY <2>1, FrontIs
  <2>3. Front(p) # <<>> => Front(p) \in DOMAIN tree /\ tree[Front(p)].kind = "dir"
    BY <2>2 DEF FileInv, SoundTree, BelowRoot, Paths
  <2> QED
    BY <2>1, <2>3 DEF NodeSound, FileData, BelowRoot, IsDir, There
<1>2. ASSUME NEW r \in FileReqs
      PROVE  /\ fileReq[r].op \in {"none", "write", "delete", "pack", "extract"}
             /\ fileReq[r].step \in {"done", "create", "fill", "delete", "walk", "extract", "ended"}
             /\ Cardinality(fileReq[r].open) <= 1
  <2>1. ReqShape(fileReq[r])
    BY DEF FileInv, ReqSound
  <2>2. PICK S : S = fileReq[r].open
    OBVIOUS
  <2>3. S = {} \/ \E p \in S : S = {p}
    BY <2>1, <2>2 DEF ReqShape
  <2>4. Cardinality(S) <= 1
    <3>1. CASE S = {}
      <4>1. Cardinality({}) = 0
        BY FS_EmptySet
      <4> QED
        BY <3>1, <4>1
    <3>2. CASE \E p \in S : S = {p}
      <4>1. PICK p : S = {p}
        BY <3>2
      <4>2. Cardinality({p}) = 1
        BY FS_Singleton
      <4> QED
        BY <4>1, <4>2
    <3> QED
      BY <2>3, <3>1, <3>2
  <2>5. FileRest.op = "none" /\ FileRest.step = "done"
    BY DEF FileRest
  <2>6. /\ fileReq[r].op \in {"none", "write", "delete", "pack", "extract"}
        /\ fileReq[r].step \in {"done", "create", "fill", "delete", "walk", "extract", "ended"}
    BY <2>1, <2>5 DEF ReqShape
  <2> QED
    BY <2>2, <2>4, <2>6
<1> QED
  BY <1>1, <1>2 DEF FileTypeOK

\* Every variable of the tasks, the crontab, the jobs, the extra processes, the backups, the upgrade, the
\* events, the terminals and the files keeps its type: counters stay within their bounds, nobody holds two
\* files open, and a path is always in a directory.
THEOREM OperationsTypes == OpsSpec => []OpsTypeOK
<1>1. OpsInv => OpsTypeOK
  BY EvTyped, FilesTyped DEF OpsInv, OpsTypeOK, CronInv, CrontabInv, TermInv, JobInv, ExtraInv, BakInv
<1> QED
  BY OpsInvHolds, <1>1, PTL

\* One execution of a task and one backup at a time, however requests, schedules, restarts and deaths of
\* the panel fall; one handler call for an event; no more shells than there are places.
THEOREM RunsAreAlone == OpsSpec => []OneRun
<1>1. CronInv => CronOneRun
  BY DEF CronInv
<1>2. TermInv => ShellsBounded
  BY ShellsWithinLimit
<1>3. OpsInv => OneRun
  BY <1>1, <1>2, BackupsSound, EventsAreSound DEF OpsInv, OneRun
<1> QED
  BY OpsInvHolds, <1>3, PTL

\* The schedulers of the cronjob, deploy and backup plugins have the entries the rows call for, as long
\* as requests and starts come one at a time.
THEOREM SchedulersFollowRows == OpsSpec => []SchedulersMatch
<1>1. CronInv => CronEntryIffOn
  BY DEF CronInv, CronCalm, CronEntryIffOn, EntryFor, OneEntry, NoEntry, NoRequest, Busy
<1>2. OpsInv => SchedulersMatch
  BY <1>1, JobsMatch, BackupsSound DEF OpsInv, SchedulersMatch
<1> QED
  BY OpsInvHolds, <1>2, PTL

\* The units of an extra process are those of its row, and a completed snapshot holds what its own
\* backup has collected, where its configuration said.
THEOREM ContentIsKept == OpsSpec => []ContentKept
<1>1. OpsInv => ContentKept
  BY BackupsSound DEF OpsInv, ExtraInv, ContentKept
<1> QED
  BY OpsInvHolds, <1>1, PTL

\* An archive whose walk has ended lists every path of its sources that nobody has altered since it began,
\* with what is in it; and what was packed with nobody else about comes back, extracted with nobody about
\* into a directory that was empty or not there: no entry is lost, moved or changed by archive.go.
THEOREM ArchivesAreSound == OpsSpec => []ArchivesSound
<1>1. OpsInv => ArchivesSound
  BY FileInvSound DEF OpsInv, ArchivesSound
<1> QED
  BY OpsInvHolds, <1>1, PTL

\* No save of the crontab overwrites what its user has not seen, but what an edit outside the panel
\* changed while it was saved.
THEOREM CrontabIsSeen == OpsSpec => CrontabSeen
<1>1. OpsInv /\ [OpsNext]_opsVars =>
        [\A u \in CrontabUsers : saver[u] = "install" /\ saver'[u] = "idle" /\ crontab' # crontab
           => page[u] = crontab \/ slipped]_crontabVars
  BY SeenStep DEF OpsInv
<1> QED
  BY OpsInvHolds, <1>1, PTL DEF OpsSpec, CrontabSeen
=============================================================================
