-------------------------- MODULE HostConfigProofs --------------------------
(***************************************************************************)
(* Proofs about HostConfig: its type invariant, and that between requests  *)
(* Caddy runs the file, the file is the database's rendering and no host   *)
(* is half a host, each up to the excuses the invariant names.             *)
(*                                                                         *)
(* The three properties speak of the moments without a request. What makes *)
(* them inductive is what an ApplyConfig that nobody overlaps keeps true   *)
(* at each of its steps: what it has rendered is the database, what it     *)
(* keeps for the rollback is what Caddy runs.                              *)
(***************************************************************************)
EXTENDS HostConfig, TLAPS

\* The steps of ApplyConfig between its write and its end.
Late == {"check", "reload", "loading", "start", "rollback"}
Doing(c) == pc[c] \in Active

\* An overlap is one of the excuses of the two other marks.
Marks == crowd => ahead /\ stale

\* Without an overlap there is one request at most.
Alone == ~crowd => \A c, d \in Callers \cup Editors : Doing(c) /\ Doing(d) => c = d

\* What such a request has rendered or read is what it believes it is.
OwnView ==
  ~crowd => /\ \A c \in Callers \cup Editors : pc[c] = "loading" => new[c] = file
            /\ \A c \in Callers : /\ pc[c] \in {"old", "write"} => new[c] = Render(db)
                                  /\ pc[c] = "write" => old[c] = file
                                  /\ pc[c] \in Late \ {"rollback"} => file = Render(db)

\* Caddy runs the file or, once an ApplyConfig has written it, what that one keeps.
LiveKept ==
  ~stale /\ running => /\ \A c \in Callers : pc[c] \in Late => live = old[c]
                       /\ (\A c \in Callers : pc[c] \notin Late) => live = file

\* The file is the database's rendering unless a request is about to make it so.
FileKept ==
  ~ahead /\ (\A c \in Callers : Doing(c) => pc[c] = "autostart") => file = Render(db)

\* A half host is the work of an Update between its two steps, or ended there.
HalfExplained ==
  /\ \A c \in Calls : pc[c] \in {"toggle", "update", "stripped"} => target[c] \in Hosts
  /\ ~revived => \A h \in Hosts : Exists(h) /\ ~db[h].whole =>
       \E c \in Calls : target[c] = h /\ pc[c] \in {"stripped", "refused", "lost"}

IInv == Marks /\ Alone /\ OwnView /\ LiveKept /\ FileKept /\ HalfExplained

-----------------------------------------------------------------------------
(* Types.                                                                  *)

\* A rendering is a content.
LEMMA RenderType == \A d \in [Hosts -> HostState] : Render(d) \in Content
BY DEF Render, Content, HostState

\* A request that starts or ends writes marks that are marks.
LEMMA EnterType == crowd \in BOOLEAN /\ ahead \in BOOLEAN /\ stale \in BOOLEAN /\ (Enter \/ Interfere) =>
                     crowd' \in BOOLEAN /\ ahead' \in BOOLEAN /\ stale' \in BOOLEAN
BY DEF Enter, Interfere, Busy

\* A request that ends forgets its contents and leaves for a known place.
LEMMA EndType ==
  ASSUME TypeOK, NEW c \in Callers \cup Editors,
         (\E r \in BOOLEAN : Succeed(c, r)) \/ (\E how \in Over : Fails(c, how))
  PROVE  /\ pc' \in [Callers \cup Editors -> {"idle"} \cup Active \cup Over]
         /\ new' \in [Callers \cup Editors -> Content] /\ old' \in [Callers \cup Editors -> Content]
         /\ crowd' \in BOOLEAN /\ ahead' \in BOOLEAN /\ stale' \in BOOLEAN
<1>1. {} \in Content
  BY DEF Content
<1>2. new' \in [Callers \cup Editors -> Content] /\ old' \in [Callers \cup Editors -> Content]
  <2>1. new' = [new EXCEPT ![c] = {}] /\ old' = [old EXCEPT ![c] = {}]
    BY DEF Succeed, Fails, Forget
  <2> QED
    BY <1>1, <2>1 DEF TypeOK
<1>3. pc' \in [Callers \cup Editors -> {"idle"} \cup Active \cup Over]
  <2>1. PICK l \in Active \cup Over : pc' = [pc EXCEPT ![c] = l]
    <3>1. CASE \E r \in BOOLEAN : Succeed(c, r)
      BY <3>1 DEF Succeed, Goto, Active, Over
    <3>2. CASE \E how \in Over : Fails(c, how)
      BY <3>2 DEF Fails, Goto, Active
    <3> QED
      BY <3>1, <3>2
  <2> QED
    BY <2>1 DEF TypeOK
<1>4. crowd' \in BOOLEAN /\ ahead' \in BOOLEAN /\ stale' \in BOOLEAN
  BY DEF TypeOK, Succeed, Fails, Over
<1> QED
  BY <1>2, <1>3, <1>4

\* Every step keeps the types.
LEMMA TypeStep == TypeOK /\ [Next]_vars => TypeOK'
<1> SUFFICES ASSUME TypeOK, [Next]_vars
             PROVE  TypeOK'
  OBVIOUS
<1> USE DEF disk, caddy, request, local, history, Goto
<1> DEFINE Everyone == Callers \cup Editors
           Places == {"idle"} \cup Active \cup Over
<1>0. /\ boot \in Callers /\ Calls \subseteq Everyone /\ Callers \subseteq Everyone
      /\ Editors \subseteq Everyone /\ Calls \subseteq Callers
  BY DEF Callers
<1>1. ASSUME NEW c \in Calls, HostChange(c)
      PROVE  TypeOK'
  <2>1. ASSUME NEW h \in Hosts, Create(c, h) \/ Delete(c, h)
        PROVE  TypeOK'
    <3>1. db' \in [Hosts -> HostState]
      <4>1. Absent \in HostState /\ \A r \in {"on", "off"} : [row |-> r, whole |-> TRUE] \in HostState
        BY DEF Absent, HostState
      <4>2. CASE Create(c, h)
        <5>1. PICK r \in {"on", "off"} : db' = [db EXCEPT ![h] = [row |-> r, whole |-> TRUE]]
          BY <4>2 DEF Create
        <5> QED
          BY <4>1, <5>1 DEF TypeOK
      <4>3. CASE Delete(c, h)
        BY <4>1, <4>3 DEF Delete, TypeOK
      <4> QED
        BY <2>1, <4>2, <4>3
    <3>2. pc' \in [Everyone -> Places]
      BY <1>0, <2>1 DEF Create, Delete, TypeOK, Active, Applying
    <3> QED
      BY <1>0, <2>1, <3>1, <3>2, EnterType DEF Create, Delete, Begin, TypeOK
  <2>2. ASSUME NEW h \in Hosts, NEW op \in {"toggle", "update"}, Get(c, h, op)
        PROVE  TypeOK'
    BY <1>0, <2>2, EnterType DEF Get, Begin, TypeOK, Active, Applying
  <2>3. CASE Toggle(c)
    BY <1>0, <2>3 DEF Toggle, TypeOK, HostState, Absent, Active, Applying
  <2>4. CASE UpdateStrip(c)
    BY <1>0, <2>4 DEF UpdateStrip, TypeOK, HostState, Active, Applying
  <2>5. CASE UpdateSave(c)
    BY <1>0, <2>5 DEF UpdateSave, TypeOK, HostState, Absent, Active, Applying
  <2>6. CASE UpdateRefused(c)
    BY <1>0, <2>6 DEF UpdateRefused, TypeOK, HostState, Absent, Over
  <2> QED
    BY <1>1, <2>1, <2>2, <2>3, <2>4, <2>5, <2>6 DEF HostChange
<1>2. ASSUME NEW c \in Callers, Apply(c)
      PROVE  TypeOK'
  <2>1. CASE List(c)
    BY <1>0, <2>1, RenderType DEF List, TypeOK, Active, Applying
  <2>2. CASE ReadOld(c)
    BY <1>0, <2>2 DEF ReadOld, TypeOK, Active, Applying
  <2>3. CASE Write(c)
    <3>1. new[c] \in Content
      BY <1>0 DEF TypeOK
    <3>2. CASE file' = new[c] /\ Goto(c, "check") /\ UNCHANGED <<local, history>>
      BY <1>0, <2>3, <3>1, <3>2 DEF Write, TypeOK, Active, Applying
    <3>3. CASE Fails(c, "failed") /\ UNCHANGED file
      <4>1. \E how \in Over : Fails(c, how)
        BY <3>3 DEF Over
      <4> QED
        BY <1>0, <2>3, <3>3, <4>1, EndType DEF Write, TypeOK
    <3> QED
      BY <2>3, <3>2, <3>3 DEF Write
  <2>4. CASE Check(c)
    <3>1. CASE auto
      BY <1>0, <2>4, <3>1 DEF Check, TypeOK, Active, Applying
    <3>2. CASE ~auto
      BY <1>0, <2>4, <3>2, EndType DEF Check, TypeOK
    <3> QED
      BY <3>1, <3>2
  <2>5. CASE StartInApply(c)
    <3>1. \E r \in BOOLEAN : Succeed(c, r)
      BY <2>5 DEF StartInApply
    <3> QED
      BY <1>0, <2>5, <3>1, EndType DEF StartInApply, TypeOK
  <2>6. CASE Rollback(c)
    <3>1. \E how \in Over : Fails(c, how)
      BY <2>6 DEF Rollback, Over
    <3> QED
      BY <1>0, <2>6, <3>1, EndType DEF Rollback, TypeOK
  <2> QED
    BY <1>2, <2>1, <2>2, <2>3, <2>4, <2>5, <2>6 DEF Apply
<1>3. ASSUME NEW c \in Everyone, Reload(c)
      PROVE  TypeOK'
  <2>1. CASE ReloadRead(c)
    BY <1>0, <2>1 DEF ReloadRead, TypeOK, Active, Applying
  <2>2. CASE ReloadLoads(c)
    <3>1. new[c] \in Content /\ {} \in Content
      BY DEF TypeOK, Content
    <3>2. CASE Goto(c, "ok") /\ Forget(c) /\ UNCHANGED history
      BY <2>2, <3>1, <3>2 DEF ReloadLoads, Forget, TypeOK, Over
    <3>3. CASE Succeed(c, TRUE)
      BY <2>2, <3>1, <3>3, EndType DEF ReloadLoads, TypeOK
    <3> QED
      BY <2>2, <3>2, <3>3 DEF ReloadLoads
  <2>3. CASE ReloadFails(c)
    <3>1. {} \in Content
      BY DEF Content
    <3>2. pc' \in [Everyone -> Places]
      BY <2>3 DEF ReloadFails, TypeOK, Over, Active, Applying
    <3>3. new' \in [Everyone -> Content] /\ old' \in [Everyone -> Content]
      <4>1. CASE Forget(c)
        BY <3>1, <4>1 DEF Forget, TypeOK
      <4>2. CASE UNCHANGED local
        BY <4>2 DEF TypeOK
      <4> QED
        BY <2>3, <4>1, <4>2 DEF ReloadFails
    <3> QED
      BY <2>3, <3>2, <3>3 DEF ReloadFails, TypeOK
  <2> QED
    BY <1>3, <2>1, <2>2, <2>3 DEF Reload
<1>4. ASSUME NEW e \in Editors, SaveCaddyfile(e) \/ ReloadCaddy(e)
      PROVE  TypeOK'
  <2>1. Edited \in Content
    <3>1. <<"editor", TRUE>> \in (Hosts \cup {"editor"}) \X BOOLEAN
      OBVIOUS
    <3> QED
      BY <3>1 DEF Edited, Content
  <2> QED
    BY <1>0, <1>4, <2>1, EnterType
    DEF SaveCaddyfile, ReloadCaddy, Begin, Busy, TypeOK, Active, Applying, Over
<1>5. CASE AutoStart
  BY <1>0, <1>5 DEF AutoStart, TypeOK, Over
<1>6. CASE StartCaddy \/ StopCaddy
  BY <1>6, EnterType DEF StartCaddy, StopCaddy, TypeOK
<1>7. CASE SetAutoReload
  BY <1>7 DEF SetAutoReload, TypeOK
<1>8. CASE Restart
  <2>1. {} \in Content /\ Absent \in HostState
    BY DEF Content, Absent, HostState
  <2>2. restarts' \in 0..MaxRestarts
    BY <1>8, MaxRestartsAssumption DEF Restart, TypeOK
  <2>3. pc' \in [Everyone -> Places]
    BY <1>8 DEF Restart, TypeOK, Active, Applying, Over
  <2> QED
    BY <1>8, <2>1, <2>2, <2>3 DEF Restart, TypeOK, Busy
<1>9. CASE UNCHANGED vars
  BY <1>9 DEF vars, TypeOK
<1> QED
  BY <1>1, <1>2, <1>3, <1>4, <1>5, <1>6, <1>7, <1>8, <1>9 DEF Next

\* The panel starts with values of the right types.
LEMMA TypeInit == Init => TypeOK
<1> SUFFICES ASSUME Init
             PROVE  TypeOK
  OBVIOUS
<1>1. db \in [Hosts -> HostState]
  <2>1. Absent \in HostState
    BY DEF HostState, Absent
  <2>2. ASSUME NEW s \in [row : {"on", "off"}, whole : {TRUE}]
        PROVE  s \in HostState
    BY DEF HostState
  <2> QED
    BY <2>1, <2>2 DEF Init
<1>2. {} \in Content /\ Absent \in HostState
  BY DEF Content, HostState, Absent
<1>3. file \in Content
  BY <1>1, RenderType DEF Init
<1>4. pc \in [Callers \cup Editors -> {"idle"} \cup Active \cup Over]
  BY DEF Init, Active, Applying
<1>5. restarts \in 0..MaxRestarts
  BY MaxRestartsAssumption DEF Init
<1>6. target \in [Calls -> Hosts \cup {"none"}] /\ seen \in [Calls -> HostState]
  BY <1>2 DEF Init
<1>7. /\ new \in [Callers \cup Editors -> Content]
      /\ old \in [Callers \cup Editors -> Content]
  BY <1>2 DEF Init
<1>8. /\ live \in Content /\ running \in BOOLEAN /\ auto \in AutoReload
      /\ crowd \in BOOLEAN /\ ahead \in BOOLEAN /\ stale \in BOOLEAN /\ revived \in BOOLEAN
  BY <1>2 DEF Init
<1> QED
  BY <1>1, <1>3, <1>4, <1>5, <1>6, <1>7, <1>8 DEF TypeOK

-----------------------------------------------------------------------------
(* The step, action by action.                                             *)

\* What the steps below read of the request that moves, and of the others.
LEMMA Places ==
  ASSUME TypeOK, NEW c \in Callers \cup Editors, NEW l, Goto(c, l)
  PROVE  pc'[c] = l /\ \A d \in Callers \cup Editors : d # c => pc'[d] = pc[d]
BY DEF TypeOK, Goto

\* A request begins: an overlap if another is under way, and the first one if not.
LEMMA BeginAlone ==
  ASSUME TypeOK, IInv, NEW c \in Callers \cup Editors, NEW l \in Active, Begin(c), Goto(c, l)
  PROVE  /\ Marks' /\ Alone'
         /\ pc'[c] = l /\ ~Doing(c) /\ \A d \in Callers \cup Editors : d # c => pc'[d] = pc[d]
         /\ ~crowd' \/ ~ahead' \/ ~stale' => \A d \in Callers \cup Editors : ~Doing(d)
         /\ (~ahead' => ~ahead) /\ (~stale' => ~stale)
<1>1. pc'[c] = l /\ \A d \in Callers \cup Editors : d # c => pc'[d] = pc[d]
  BY Places
<1>2. ~Doing(c)
  BY DEF Begin, Doing, Active, Applying
<1> QED
  BY <1>1, <1>2 DEF IInv, Marks, Alone, Begin, Enter, Busy, Doing

\* A host is created or deleted, or a request reads it.
LEMMA BeginStep ==
  ASSUME TypeOK, IInv, NEW c \in Calls, NEW h \in Hosts,
         \/ Create(c, h) \/ Delete(c, h)
         \/ \E op \in {"toggle", "update"} : Get(c, h, op)
  PROVE  IInv'
<1> DEFINE Everyone == Callers \cup Editors
<1>0. c \in Callers /\ c \in Everyone /\ Callers \subseteq Everyone
  BY DEF Callers
<1>1. PICK l \in {"list", "toggle", "update"} : Begin(c) /\ Goto(c, l) /\ l \in Active
  BY DEF Create, Delete, Get, Active, Applying
<1>2. /\ Marks' /\ Alone'
      /\ pc'[c] = l /\ ~Doing(c) /\ \A d \in Everyone : d # c => pc'[d] = pc[d]
      /\ ~crowd' \/ ~ahead' \/ ~stale' => \A d \in Everyone : ~Doing(d)
      /\ (~ahead' => ~ahead) /\ (~stale' => ~stale)
  BY <1>0, <1>1, BeginAlone
<1>3. UNCHANGED <<file, live, running, new, old, revived>>
  BY DEF Create, Delete, Get, disk, caddy, local
<1>4. \A d \in Everyone : ~Doing(d) => pc[d] \notin Late \cup {"old", "write"}
  BY DEF Doing, Late, Active, Applying
<1>5. l \notin Late \cup {"old", "write"}
  BY DEF Late
<1>6. OwnView'
  BY <1>0, <1>2, <1>3, <1>4, <1>5 DEF OwnView, Late
<1>7. LiveKept'
  BY <1>0, <1>2, <1>3, <1>4, <1>5 DEF IInv, LiveKept
<1>8. FileKept'
  BY <1>0, <1>1, <1>2 DEF FileKept, Doing
<1>9. HalfExplained'
  <2>1. /\ target' = [target EXCEPT ![c] = h] /\ pc[c] = "idle"
        /\ db' = db \/ db' = [db EXCEPT ![h] = Absent]
                    \/ \E r \in {"on", "off"} : db' = [db EXCEPT ![h] = [row |-> r, whole |-> TRUE]]
    BY DEF Create, Delete, Get, Begin, disk
  <2>2. \A g \in Hosts : Exists(g)' /\ ~db'[g].whole => Exists(g) /\ ~db[g].whole
    BY <2>1 DEF TypeOK, Exists, Absent
  <2>3. \A d \in Calls : d # c => target'[d] = target[d] /\ pc'[d] = pc[d]
    BY <1>2, <2>1 DEF TypeOK, Callers
  <2>4. target'[c] = h /\ pc'[c] \notin {"stripped", "refused", "lost"}
    BY <1>1, <1>2, <2>1 DEF TypeOK
  <2> QED
    BY <1>3, <2>1, <2>2, <2>3, <2>4 DEF IInv, HalfExplained
<1> QED
  BY <1>2, <1>6, <1>7, <1>8, <1>9 DEF IInv

\* A request under way makes a step: while it is alone, nobody else is doing anything.
LEMMA OthersIdle ==
  ASSUME TypeOK, IInv, NEW c \in Callers \cup Editors, NEW l, Doing(c), Goto(c, l), UNCHANGED crowd
  PROVE  /\ Alone'
         /\ pc'[c] = l /\ \A d \in Callers \cup Editors : d # c => pc'[d] = pc[d]
         /\ ~crowd => \A d \in Callers \cup Editors :
                        d # c => pc[d] \notin Active /\ pc'[d] \notin Active
         /\ ~ahead \/ ~stale => ~crowd
<1>1. pc'[c] = l /\ \A d \in Callers \cup Editors : d # c => pc'[d] = pc[d]
  BY Places
<1> QED
  BY <1>1 DEF IInv, Marks, Alone, Doing

\* A request that goes on where no host becomes half keeps HalfExplained.
LEMMA HalfKept ==
  ASSUME TypeOK, IInv, NEW c \in Callers \cup Editors, NEW l, l \notin {"toggle", "update", "stripped"},
         Goto(c, l), pc[c] \notin {"stripped", "refused", "lost"},
         UNCHANGED <<db, target, revived>>
  PROVE  HalfExplained'
<1>1. pc'[c] = l /\ \A d \in Callers \cup Editors : d # c => pc'[d] = pc[d]
  BY Places
<1>2. \A d \in Calls : \/ pc'[d] = pc[d]
                       \/ d = c
  BY <1>1 DEF Callers
<1> QED
  BY <1>1, <1>2 DEF IInv, HalfExplained, Exists

\* Toggle, and the steps of Update.
LEMMA ChangeStep ==
  ASSUME TypeOK, IInv, NEW c \in Calls,
         Toggle(c) \/ UpdateStrip(c) \/ UpdateSave(c) \/ UpdateRefused(c)
  PROVE  IInv'
<1> DEFINE Everyone == Callers \cup Editors
<1>0. c \in Callers /\ c \in Everyone /\ Callers \subseteq Everyone
  BY DEF Callers
<1>1. PICK l \in {"list", "stripped", "refused"} :
        Goto(c, l) /\ (l = "refused" => ahead') /\ (l # "refused" => UNCHANGED ahead)
  <2>1. CASE UpdateRefused(c)
    BY <2>1 DEF UpdateRefused
  <2>2. CASE UpdateStrip(c)
    BY <2>2 DEF UpdateStrip, history
  <2>3. CASE Toggle(c) \/ UpdateSave(c)
    <3>1. Goto(c, "list") /\ UNCHANGED ahead
      BY <2>3 DEF Toggle, UpdateSave, history
    <3> QED
      BY <3>1
  <2> QED
    BY <2>1, <2>2, <2>3
<1>2. /\ pc[c] \in {"toggle", "update", "stripped"} /\ Doing(c)
      /\ UNCHANGED <<file, live, running, new, old, target, crowd, stale>>
      /\ ahead => ahead'
  BY DEF Toggle, UpdateStrip, UpdateSave, UpdateRefused,
     disk, caddy, request, local, history, Doing, Active
<1>3. /\ Alone'
      /\ pc'[c] = l /\ \A d \in Everyone : d # c => pc'[d] = pc[d]
      /\ ~crowd => \A d \in Everyone : d # c => pc[d] \notin Active /\ pc'[d] \notin Active
      /\ ~ahead \/ ~stale => ~crowd
  BY <1>0, <1>1, <1>2, OthersIdle
<1>4. Late \cup {"old", "write", "loading", "list", "stripped"} \subseteq Active
  BY DEF Late, Active, Applying
<1>5. l \notin Late \cup {"old", "write", "loading"} /\ pc[c] \notin Late
  BY <1>2 DEF Late
<1>6. Marks'
  BY <1>1, <1>2 DEF IInv, Marks
<1>7. OwnView'
  BY <1>0, <1>2, <1>3, <1>4, <1>5 DEF OwnView
<1>8. LiveKept'
  BY <1>0, <1>2, <1>3, <1>5 DEF IInv, LiveKept
<1>9. FileKept'
  BY <1>0, <1>1, <1>2, <1>3, <1>4 DEF FileKept, Doing
<1>10. HalfExplained'
  <2>1. target[c] \in Hosts
    BY <1>2 DEF IInv, HalfExplained
  <2>2. \A d \in Calls : d # c => pc'[d] = pc[d]
    BY <1>3 DEF Callers
  <2>3. CASE Toggle(c)
    <3>1. \A g \in Hosts : ~revived' /\ Exists(g)' /\ ~db'[g].whole =>
                             ~revived /\ Exists(g) /\ ~db[g].whole
      BY <2>1, <2>3 DEF Toggle, TypeOK, HostState, Exists
    <3>2. pc[c] = "toggle" /\ pc'[c] = "list"
      BY <1>3, <2>3, Places, <1>0 DEF Toggle
    <3> QED
      BY <1>2, <2>1, <2>2, <3>1, <3>2 DEF IInv, HalfExplained
  <2>4. CASE UpdateStrip(c)
    <3>1. \A g \in Hosts : g # target[c] /\ Exists(g)' /\ ~db'[g].whole => Exists(g) /\ ~db[g].whole
      BY <2>1, <2>4 DEF UpdateStrip, TypeOK, HostState, Exists
    <3>2. pc[c] = "update" /\ pc'[c] = "stripped"
      BY <1>0, <2>4, Places DEF UpdateStrip
    <3>3. UNCHANGED revived
      BY <2>4 DEF UpdateStrip
    <3> QED
      BY <1>2, <2>1, <2>2, <3>1, <3>2, <3>3 DEF IInv, HalfExplained
  <2>5. CASE UpdateSave(c)
    <3>1. \A g \in Hosts : Exists(g)' /\ ~db'[g].whole => g # target[c] /\ Exists(g) /\ ~db[g].whole
      BY <2>1, <2>5 DEF UpdateSave, TypeOK, HostState, Exists
    <3>2. pc'[c] = "list" /\ UNCHANGED revived
      BY <1>0, <2>5, Places DEF UpdateSave
    <3> QED
      BY <1>2, <2>1, <2>2, <3>1, <3>2 DEF IInv, HalfExplained
  <2>6. CASE UpdateRefused(c)
    <3>1. pc[c] = "stripped" /\ pc'[c] = "refused" /\ UNCHANGED <<db, revived>>
      BY <1>0, <2>6, Places DEF UpdateRefused, disk
    <3> QED
      BY <1>2, <2>2, <3>1 DEF IInv, HalfExplained, Exists
  <2> QED
    BY <2>3, <2>4, <2>5, <2>6
<1> QED
  BY <1>3, <1>6, <1>7, <1>8, <1>9, <1>10 DEF IInv

\* What every step of ApplyConfig and of a reload leaves alone, and what follows.
LEMMA Inside ==
  ASSUME TypeOK, IInv, NEW c \in Callers \cup Editors, (c \in Callers /\ Apply(c)) \/ Reload(c)
  PROVE  /\ Alone' /\ HalfExplained' /\ Marks'
         /\ Doing(c) /\ UNCHANGED <<db, crowd>>
         /\ \A d \in Callers \cup Editors : d # c => pc'[d] = pc[d]
         /\ ~crowd => \A d \in Callers \cup Editors :
                        d # c => pc[d] \notin Active /\ pc'[d] \notin Active
         /\ ~ahead \/ ~stale => ~crowd
<1>1. PICK l \in {"old", "write", "check", "reload", "loading", "rollback", "start",
                  "autostart", "ok", "failed", "broken"} :
        Goto(c, l)
  <2>1. CASE c \in Callers /\ Apply(c)
    <3>1. CASE c = boot
      BY <2>1, <3>1 DEF Apply, List, ReadOld, Write, Check, StartInApply, Rollback, Succeed, Fails
    <3>2. CASE c # boot
      BY <2>1, <3>2 DEF Apply, List, ReadOld, Write, Check, StartInApply, Rollback, Succeed, Fails
    <3> QED
      BY <3>1, <3>2
  <2>2. CASE Reload(c)
    BY <2>2 DEF Reload, ReloadRead, ReloadLoads, ReloadFails, Succeed
  <2> QED
    BY <2>1, <2>2
<1>2. pc[c] \in Applying /\ UNCHANGED <<db, target, revived>>
  <2>1. CASE c \in Callers /\ Apply(c)
    BY <2>1 DEF Apply, List, ReadOld, Write, Check, StartInApply, Rollback,
                disk, request, Applying
  <2>2. CASE Reload(c)
    BY <2>2 DEF Reload, ReloadRead, ReloadLoads, ReloadFails, disk, request, Applying
  <2> QED
    BY <2>1, <2>2
<1>3. UNCHANGED crowd /\ (crowd => ahead' /\ stale')
  <2> DEFINE Kept == UNCHANGED crowd /\ (crowd => ahead' /\ stale')
  <2>1. crowd => ahead /\ stale
    BY DEF IInv, Marks
  <2>2. ASSUME NEW r, Succeed(c, r)
        PROVE  Kept
    BY <2>1, <2>2 DEF Succeed
  <2>3. ASSUME NEW how, Fails(c, how)
        PROVE  Kept
    BY <2>1, <2>3 DEF Fails
  <2>4. UNCHANGED history => Kept
    BY <2>1 DEF history
  <2> HIDE DEF Kept
  <2>5. ASSUME c \in Callers, Apply(c)
        PROVE  Kept
    BY <2>2, <2>3, <2>4, <2>5 DEF Apply, List, ReadOld, Write, Check, StartInApply, Rollback
  <2>6. ASSUME Reload(c)
        PROVE  Kept
    BY <2>2, <2>4, <2>6 DEF Reload, ReloadRead, ReloadLoads, ReloadFails
  <2>7. Kept
    BY <2>5, <2>6
  <2> QED
    BY <2>7 DEF Kept
<1>4. Doing(c)
  BY <1>2 DEF Doing, Active
<1>5. HalfExplained'
  BY <1>1, <1>2, HalfKept DEF Applying
<1> QED
  BY <1>1, <1>2, <1>3, <1>4, <1>5, OthersIdle DEF Marks

\* The steps of ApplyConfig.
LEMMA ApplyStep ==
  ASSUME TypeOK, IInv, NEW c \in Callers, Apply(c)
  PROVE  IInv'
<1> DEFINE Everyone == Callers \cup Editors
<1>1. /\ Alone' /\ HalfExplained' /\ Marks'
      /\ Doing(c) /\ UNCHANGED <<db, crowd>>
      /\ \A d \in Everyone : d # c => pc'[d] = pc[d]
      /\ ~crowd => \A d \in Everyone : d # c => pc[d] \notin Active /\ pc'[d] \notin Active
      /\ ~ahead \/ ~stale => ~crowd
  BY Inside
<1>2. Late \cup {"old", "write", "loading", "list"} \subseteq Active
  BY DEF Late, Active, Applying
<1>3. \A d \in Everyone : d # c => UNCHANGED <<new[d], old[d]>>
  BY DEF Apply, List, ReadOld, Write, Check, StartInApply, Rollback, Succeed, Fails, Forget,
         local, TypeOK
<1> SUFFICES OwnView' /\ LiveKept' /\ FileKept'
  BY <1>1 DEF IInv
<1> USE DEF local, disk, caddy, history
<1>4. CASE List(c)
  <2>1. pc[c] = "list" /\ pc'[c] = "old" /\ new'[c] = Render(db)
    BY <1>4, Places DEF List, TypeOK
  <2>2. UNCHANGED <<file, live, running, ahead, stale, old>>
    BY <1>4 DEF List
  <2> QED
    BY <1>1, <1>2, <1>3, <2>1, <2>2 DEF IInv, OwnView, LiveKept, FileKept, Doing, Late
<1>5. CASE ReadOld(c)
  <2>1. pc[c] = "old" /\ pc'[c] = "write" /\ old'[c] = file
    BY <1>5, Places DEF ReadOld, TypeOK
  <2>2. UNCHANGED <<file, live, running, ahead, stale, new>>
    BY <1>5 DEF ReadOld
  <2> QED
    BY <1>1, <1>2, <1>3, <2>1, <2>2 DEF IInv, OwnView, LiveKept, FileKept, Doing, Late
<1>6. CASE Write(c)
  <2>1. pc[c] = "write" /\ UNCHANGED <<live, running>>
    BY <1>6 DEF Write
  <2>2. CASE file' = new[c] /\ Goto(c, "check") /\ UNCHANGED <<local, history>>
    <3>1. pc'[c] = "check" /\ UNCHANGED <<new, old, ahead, stale>>
      BY <2>2, Places
    <3> QED
      BY <1>1, <1>2, <1>3, <2>1, <2>2, <3>1 DEF IInv, OwnView, LiveKept, FileKept, Doing, Late
  <2>3. CASE Fails(c, "failed") /\ UNCHANGED file
    <3>1. pc'[c] \in {"autostart", "failed"} /\ ahead' /\ UNCHANGED stale
      BY <2>3, Places DEF Fails, TypeOK
    <3> QED
      BY <1>1, <1>2, <1>3, <2>1, <2>3, <3>1 DEF IInv, OwnView, LiveKept, FileKept, Doing, Late
  <2> QED
    BY <1>6, <2>2, <2>3 DEF Write
<1>7. CASE Check(c)
  <2>1. pc[c] = "check" /\ UNCHANGED <<file, live, running>>
    BY <1>7 DEF Check
  <2>2. CASE auto
    <3>1. pc'[c] \in {"reload", "start"} /\ UNCHANGED <<new, old, ahead, stale>>
      BY <1>7, <2>2, Places DEF Check
    <3> QED
      BY <1>1, <1>2, <1>3, <2>1, <3>1 DEF IInv, OwnView, LiveKept, FileKept, Doing, Late
  <2>3. CASE ~auto
    <3>1. /\ pc'[c] \in {"autostart", "ok"}
          /\ ~ahead' => ~ahead \/ ~crowd
          /\ ~stale' => crowd /\ ~stale
      BY <1>7, <2>3, Places DEF Check, Succeed
    <3> QED
      BY <1>1, <1>2, <1>3, <2>1, <3>1 DEF IInv, OwnView, LiveKept, FileKept, Doing, Late
  <2> QED
    BY <2>2, <2>3
<1>8. CASE StartInApply(c)
  <2>1. pc[c] = "start" /\ UNCHANGED file
    BY <1>8 DEF StartInApply
  <2>2. /\ pc'[c] \in {"autostart", "ok"}
        /\ ~ahead' => ~ahead \/ ~crowd
    BY <1>8, Places DEF StartInApply, Succeed
  <2>3. ~crowd /\ ~stale' /\ running' => live' = file
    BY <1>8 DEF StartInApply, Succeed
  <2>4. crowd => stale'
    BY <1>1 DEF Marks
  <2> QED
    BY <1>1, <1>2, <1>3, <2>1, <2>2, <2>3, <2>4 DEF IInv, OwnView, LiveKept, FileKept, Doing, Late
<1>9. CASE Rollback(c)
  <2>1. pc[c] = "rollback" /\ pc'[c] \in {"autostart", "failed", "broken"}
    BY <1>9, Places DEF Rollback, Fails
  <2>2. ahead' /\ UNCHANGED <<live, running>> /\ (~stale' => ~stale /\ file' = old[c])
    BY <1>9 DEF Rollback, Fails
  <2> QED
    BY <1>1, <1>2, <1>3, <2>1, <2>2 DEF IInv, OwnView, LiveKept, FileKept, Doing, Late
<1> QED
  BY <1>4, <1>5, <1>6, <1>7, <1>8, <1>9 DEF Apply

\* The steps of `caddy reload`, called by ApplyConfig, by the editor or by the button.
LEMMA ReloadStep ==
  ASSUME TypeOK, IInv, NEW c \in Callers \cup Editors, Reload(c)
  PROVE  IInv'
<1> DEFINE Everyone == Callers \cup Editors
<1>1. /\ Alone' /\ HalfExplained' /\ Marks'
      /\ Doing(c) /\ UNCHANGED <<db, crowd>>
      /\ \A d \in Everyone : d # c => pc'[d] = pc[d]
      /\ ~crowd => \A d \in Everyone : d # c => pc[d] \notin Active /\ pc'[d] \notin Active
      /\ ~ahead \/ ~stale => ~crowd
  BY Inside
<1>2. Late \cup {"old", "write", "loading", "list"} \subseteq Active
  BY DEF Late, Active, Applying
<1>3. \A d \in Everyone : d # c => UNCHANGED <<new[d], old[d]>>
  BY DEF Reload, ReloadRead, ReloadLoads, ReloadFails, Succeed, Forget, local, TypeOK
<1>4. Callers \cap Editors = {}
  BY CallersAssumption DEF Callers, boot
<1> SUFFICES OwnView' /\ LiveKept' /\ FileKept'
  BY <1>1 DEF IInv
<1> USE DEF local, disk, caddy, history
<1>5. CASE ReloadRead(c)
  <2>1. pc[c] = "reload" /\ pc'[c] = "loading" /\ new'[c] = file
    BY <1>5, Places DEF ReloadRead, TypeOK
  <2>2. UNCHANGED <<file, live, running, ahead, stale, old>>
    BY <1>5 DEF ReloadRead
  <2> QED
    BY <1>1, <1>2, <1>3, <1>4, <2>1, <2>2 DEF IInv, OwnView, LiveKept, FileKept, Doing, Late
<1>6. CASE ReloadLoads(c)
  <2>1. pc[c] = "loading" /\ live' = new[c] /\ UNCHANGED <<file, running>>
    BY <1>6 DEF ReloadLoads
  <2>2. ~crowd => live' = file'
    BY <2>1 DEF IInv, OwnView
  <2>3. /\ pc'[c] \in {"autostart", "ok"}
        /\ ~ahead' => ~ahead \/ (~crowd /\ c \in Callers)
    <3>1. CASE Goto(c, "ok") /\ UNCHANGED history
      BY <3>1, Places
    <3>2. CASE c \in Callers /\ Succeed(c, TRUE)
      BY <3>2, Places DEF Succeed
    <3> QED
      BY <1>6, <3>1, <3>2 DEF ReloadLoads
  <2>4. crowd => ahead' /\ stale'
    BY <1>1 DEF Marks
  <2> QED
    BY <1>1, <1>2, <1>3, <1>4, <2>1, <2>2, <2>3, <2>4
    DEF IInv, OwnView, LiveKept, FileKept, Doing, Late
<1>7. CASE ReloadFails(c)
  <2>1. pc[c] = "loading" /\ UNCHANGED <<file, live, running, ahead, stale>>
    BY <1>7 DEF ReloadFails
  <2>2. CASE c \in Editors
    <3>1. pc'[c] = "failed"
      BY <1>4, <1>7, <2>2, Places DEF ReloadFails
    <3> QED
      BY <1>1, <1>2, <1>3, <1>4, <2>1, <2>2, <3>1
      DEF IInv, OwnView, LiveKept, FileKept, Doing, Late
  <2>3. CASE c \in Callers
    <3>1. pc'[c] = "rollback" /\ UNCHANGED <<new, old>>
      BY <1>4, <1>7, <2>3, Places DEF ReloadFails
    <3> QED
      BY <1>1, <1>2, <1>3, <1>4, <2>1, <2>3, <3>1
      DEF IInv, OwnView, LiveKept, FileKept, Doing, Late
  <2> QED
    BY <2>2, <2>3
<1> QED
  BY <1>5, <1>6, <1>7 DEF Reload

\* The editor and the Reload button begin.
LEMMA EditStep ==
  ASSUME TypeOK, IInv, NEW e \in Editors, SaveCaddyfile(e) \/ ReloadCaddy(e)
  PROVE  IInv'
<1> DEFINE Everyone == Callers \cup Editors
<1>1. Callers \cap Editors = {} /\ Calls \subseteq Callers
  BY CallersAssumption DEF Callers, boot
<1>2. PICK l \in {"ok", "reload"} : Goto(e, l)
  BY DEF SaveCaddyfile, ReloadCaddy
<1>3. pc'[e] = l /\ \A d \in Everyone : d # e => pc'[d] = pc[d]
  BY <1>2, Places
<1>4. pc[e] = "idle" /\ UNCHANGED <<db, live, running, new, old, target, revived>>
  BY DEF SaveCaddyfile, ReloadCaddy, Begin, disk, caddy, request, local
<1>5. \A d \in Callers : UNCHANGED pc[d]
  BY <1>1, <1>3
<1>6. crowd' = Busy /\ (SaveCaddyfile(e) => ahead' /\ stale')
      /\ (ReloadCaddy(e) => ahead' = (ahead \/ Busy) /\ stale' = (stale \/ Busy) /\ UNCHANGED file)
  BY DEF SaveCaddyfile, ReloadCaddy, Begin, Enter, disk
<1>7. \A d \in Everyone : Doing(d) => Busy
  BY DEF Busy, Doing
<1>8. pc'[e] # "loading" /\ Late \cup {"old", "write", "loading"} \subseteq Active
  BY <1>3 DEF Late, Active, Applying
<1>9. Marks' /\ Alone'
  BY <1>3, <1>4, <1>6, <1>7 DEF Marks, Alone, Doing
<1>10. OwnView'
  BY <1>3, <1>5, <1>6, <1>7, <1>8 DEF OwnView, Doing
<1>11. LiveKept' /\ FileKept'
  BY <1>4, <1>5, <1>6 DEF IInv, LiveKept, FileKept, Doing
<1>12. HalfExplained'
  BY <1>1, <1>4, <1>5 DEF IInv, HalfExplained, Exists
<1> QED
  BY <1>9, <1>10, <1>11, <1>12 DEF IInv

\* Caddy is started or stopped.
LEMMA ProcessStep ==
  ASSUME TypeOK, IInv, AutoStart \/ StartCaddy \/ StopCaddy
  PROVE  IInv'
<1> DEFINE Everyone == Callers \cup Editors
<1>0. boot \in Callers /\ Callers \subseteq Everyone /\ Calls \subseteq Callers /\ boot \notin Calls
  BY CallersAssumption DEF Callers, boot
<1>1. CASE AutoStart
  <2>1. pc[boot] = "autostart" /\ pc'[boot] = "ok" /\ \A d \in Everyone : d # boot => pc'[d] = pc[d]
    BY <1>0, <1>1, Places DEF AutoStart
  <2>2. UNCHANGED <<db, file, auto, target, new, old, crowd, ahead, stale, revived>>
    BY <1>1 DEF AutoStart, disk, request, local, history
  <2>3. live' = file \/ UNCHANGED <<live, running>>
    BY <1>1 DEF AutoStart, caddy
  <2>4. Late \cup {"old", "write", "loading", "autostart"} \subseteq Active
    BY DEF Late, Active, Applying
  <2>5. \A d \in Everyone : Doing(d)' => Doing(d)
    BY <2>1 DEF Doing, Active, Applying
  <2>6. Marks' /\ Alone' /\ OwnView'
    BY <1>0, <2>1, <2>2, <2>5 DEF IInv, Marks, Alone, OwnView, Late
  <2>7. LiveKept'
    <3>1. \A d \in Callers : pc'[d] \in Late => pc[d] \in Late /\ (crowd \/ d = boot)
      BY <1>0, <2>1, <2>4 DEF IInv, Alone, Doing, Late
    <3>2. \A d \in Callers : crowd \/ (pc[d] \notin Late /\ pc'[d] \notin Late)
      BY <1>0, <2>1, <3>1 DEF Late
    <3> QED
      BY <2>2, <2>3, <3>2 DEF IInv, Marks, LiveKept
  <2>8. FileKept'
    BY <1>0, <2>1, <2>2 DEF IInv, FileKept, Doing
  <2>9. HalfExplained'
    BY <1>0, <2>1, <2>2 DEF IInv, HalfExplained, Exists
  <2> QED
    BY <2>6, <2>7, <2>8, <2>9 DEF IInv
<1>2. CASE StartCaddy \/ StopCaddy
  <2>1. UNCHANGED <<db, file, pc, target, new, old, revived>> /\ Interfere
    BY <1>2 DEF StartCaddy, StopCaddy, disk, request, local
  <2>2. live' = file \/ ~running'
    BY <1>2 DEF StartCaddy, StopCaddy
  <2>3. \A d \in Everyone : Doing(d) => Busy
    BY DEF Busy, Doing
  <2>4. Late \cup {"old", "write", "loading"} \subseteq Active
    BY DEF Late, Active, Applying
  <2>5. Marks' /\ Alone' /\ OwnView'
    BY <2>1 DEF IInv, Marks, Alone, OwnView, Interfere, Doing
  <2>6. LiveKept'
    BY <1>0, <2>1, <2>2, <2>3, <2>4 DEF LiveKept, Interfere, Doing
  <2>7. FileKept' /\ HalfExplained'
    BY <2>1 DEF IInv, FileKept, HalfExplained, Interfere, Doing, Exists
  <2> QED
    BY <2>5, <2>6, <2>7 DEF IInv
<1> QED
  BY <1>1, <1>2

\* The panel restarts: nobody is under way but its own start.
LEMMA RestartStep ==
  ASSUME TypeOK, IInv, Restart
  PROVE  IInv'
<1> DEFINE Everyone == Callers \cup Editors
<1>0. boot \in Callers /\ Callers \subseteq Everyone /\ Calls \subseteq Callers /\ boot \notin Calls
  BY CallersAssumption DEF Callers, boot
<1>1. pc'[boot] = "list" /\ \A d \in Everyone \ {boot} :
        pc'[d] = IF Doing(d) THEN "lost" ELSE pc[d]
  BY <1>0 DEF Restart, Doing
<1>2. UNCHANGED <<db, file, live, target, revived>> /\ ~crowd' /\ (running' => running)
      /\ ahead' = (ahead \/ Busy) /\ stale' = (stale \/ Busy)
  <2>1. running' => running
    BY DEF Restart
  <2> QED
    BY <2>1 DEF Restart, disk
<1>3. \A d \in Everyone \ {boot} : ~Doing(d)'
  BY <1>1 DEF Doing, Active, Applying
<1>4. \A d \in Everyone : Doing(d) => Busy
  BY DEF Busy, Doing
<1>5. \A d \in Everyone : pc'[d] \notin Late \cup {"old", "write", "loading"}
  BY <1>0, <1>1, <1>3 DEF Doing, Late, Active, Applying
<1>6. Late \subseteq Active
  BY DEF Late, Active, Applying
<1>7. Marks' /\ Alone' /\ OwnView'
  BY <1>0, <1>2, <1>3, <1>5 DEF Marks, Alone, OwnView, Late
<1>8. LiveKept'
  BY <1>0, <1>2, <1>4, <1>5, <1>6 DEF IInv, LiveKept, Doing
<1>9. FileKept'
  BY <1>0, <1>2, <1>4 DEF IInv, FileKept
<1>10. HalfExplained'
  <2>1. \A d \in Calls : /\ pc'[d] \notin {"toggle", "update", "stripped"}
                         /\ pc[d] \in {"stripped", "refused", "lost"} => pc'[d] \in {"refused", "lost"}
    BY <1>0, <1>1, <1>3 DEF Doing, Active, Applying
  <2> QED
    BY <1>2, <2>1 DEF IInv, HalfExplained, Exists
<1> QED
  BY <1>7, <1>8, <1>9, <1>10 DEF IInv

-----------------------------------------------------------------------------
(* The theorems.                                                           *)

\* Every value has its type, in every state and for any number of hosts and requests.
THEOREM HostTypes == Spec => []TypeOK
BY TypeInit, TypeStep, PTL DEF Spec

\* The panel starts alone, with the file rendered from its database.
LEMMA InvInit == Init => IInv
<1> SUFFICES ASSUME Init
             PROVE  IInv
  OBVIOUS
<1>1. \A c \in Callers \cup Editors : pc[c] = IF c = boot THEN "list" ELSE "idle"
  BY DEF Init
<1>2. \A c \in Callers \cup Editors : Doing(c) => c = boot
  BY <1>1 DEF Doing, Active, Applying
<1>3. \A h \in Hosts : Exists(h) => db[h].whole
  <2>1. ASSUME NEW h \in Hosts
        PROVE  db[h] = Absent \/ db[h].whole
    BY DEF Init
  <2> QED
    BY <2>1 DEF Exists, Absent
<1>4. ~crowd /\ ahead /\ stale
  BY DEF Init
<1>5. Marks /\ Alone /\ OwnView /\ LiveKept /\ FileKept
  BY <1>1, <1>2, <1>4 DEF Marks, Alone, OwnView, LiveKept, FileKept, Late
<1>6. HalfExplained
  BY <1>1, <1>3 DEF HalfExplained, Callers
<1> QED
  BY <1>5, <1>6 DEF IInv

\* Every step keeps the invariant.
LEMMA InvStep == TypeOK /\ IInv /\ [Next]_vars => IInv'
<1> SUFFICES ASSUME TypeOK, IInv, [Next]_vars
             PROVE  IInv'
  OBVIOUS
<1>1. ASSUME NEW c \in Calls, HostChange(c)
      PROVE  IInv'
  BY <1>1, BeginStep, ChangeStep DEF HostChange
<1>2. CASE SetAutoReload \/ UNCHANGED vars
  <2>1. UNCHANGED <<db, file, live, running, pc, target, new, old, crowd, ahead, stale, revived>>
    BY <1>2 DEF SetAutoReload, vars, disk, caddy, request, local, history
  <2> QED
    BY <2>1 DEF IInv, Marks, Alone, OwnView, LiveKept, FileKept, HalfExplained, Doing, Exists
<1> QED
  BY <1>1, <1>2, ApplyStep, ReloadStep, EditStep, ProcessStep, RestartStep DEF Next

\* The types and the invariant together hold in every state.
LEMMA Inductive == Spec => []IInv
BY TypeInit, TypeStep, InvInit, InvStep, PTL DEF Spec

\* Between requests Caddy runs the content of the file, unless requests overlapped, the
\* editor wrote it, auto_reload was off or a rollback failed itself since the last
\* ApplyConfig that loaded it: a failed validation, reload or start is rolled back to
\* what Caddy runs.
THEOREM LiveConfigIsFile == Spec => []LiveIsFile
<1>1. IInv => LiveIsFile
  BY DEF IInv, LiveKept, LiveIsFile, Quiet, Busy, Late, Active, Applying
<1> QED
  BY <1>1, Inductive, PTL

\* Between requests the file is the database's rendering, from one undisturbed success
\* of ApplyConfig on until a request fails.
THEOREM FileIsRendered == Spec => []FileIsDb
<1>1. IInv => FileIsDb
  BY DEF IInv, FileKept, FileIsDb, Quiet, Busy, Doing
<1> QED
  BY <1>1, Inductive, PTL

\* Between requests a host without its upstreams, rules and users is one whose Update
\* refused a user's name or was cut off by a restart, as long as no Toggle has brought
\* a deleted host back.
THEOREM HostsAreWhole == Spec => []NoHalfHost
<1>1. IInv => NoHalfHost
  BY DEF IInv, HalfExplained, NoHalfHost, Quiet, Busy, Callers, Active
<1> QED
  BY <1>1, Inductive, PTL
=============================================================================
