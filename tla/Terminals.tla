------------------------------- MODULE Terminals -------------------------------
(***************************************************************************)
(* plugins/filemanager/terminal.go and Handler.TerminalWS: a websocket     *)
(* connection gets a shell on a pseudo terminal, in one of a few places.   *)
(*                                                                         *)
(* A connection is served by two goroutines: one copies what the shell     *)
(* says to the client, the other waits for what the client says.  The      *)
(* session is closed when both have ended, by the cleanup when it is old,  *)
(* and when the plugin is stopped.                                         *)
(***************************************************************************)
EXTENDS Naturals, FiniteSets

CONSTANTS
  Conns,         \* connections
  MaxSessions    \* maxSessions

ASSUME TermAssumption == IsFiniteSet(Conns) /\ MaxSessions \in Nat

VARIABLES
  term,      \* connection -> [step, place, shell, client, copier, old]
  termOn,    \* the plugin is started
  termCut    \* the plugin was stopped while a session was being created

termVars == <<term, termOn, termCut>>

TermSteps == {"idle", "starting", "registering", "serving", "waiting", "ended"}
Sessions == [step : TermSteps, place : {"free", "reserved", "taken"}, shell : {"none", "runs", "dead"},
             client : {"off", "on", "gone"}, copier : {"none", "copies", "ended"}, old : BOOLEAN]

NoTerm == [step |-> "idle", place |-> "free", shell |-> "none", client |-> "off", copier |-> "none", old |-> FALSE]

TermInit == term = [c \in Conns |-> NoTerm] /\ termOn = TRUE /\ termCut = FALSE

\* The entries of the map, the reserved ones among them.
Places == {c \in Conns : term[c].place # "free"}

CreateLate(c) ==
  /\ term[c].step = "idle" /\ termOn
  /\ term' = [term EXCEPT ![c].step = IF Cardinality(Places) >= MaxSessions THEN "ended" ELSE "starting", ![c].client = "on"]
  /\ UNCHANGED <<termOn, termCut>>

\* Create: a place is reserved under the lock before the shell is started.
Reserve(c) ==
  /\ term[c].step = "idle" /\ termOn
  /\ term' = IF Cardinality(Places) >= MaxSessions
             THEN [term EXCEPT ![c].step = "ended"]
             ELSE [term EXCEPT ![c].step = "starting", ![c].place = "reserved", ![c].client = "on"]
  /\ UNCHANGED <<termOn, termCut>>

StartShell(c) ==
  /\ term[c].step = "starting"
  /\ \/ term' = [term EXCEPT ![c].step = "registering", ![c].shell = "runs"]
     \/ term' = [term EXCEPT ![c].step = "ended", ![c].place = "free"]
  /\ UNCHANGED <<termOn, termCut>>

\* The session takes the place, also one that was taken away meanwhile.
Register(c) ==
  /\ term[c].step = "registering"
  /\ term' = [term EXCEPT ![c].step = "serving", ![c].place = "taken", ![c].copier = "copies"]
  /\ UNCHANGED <<termOn, termCut>>

ShellExits(c) ==
  /\ term[c].shell = "runs" /\ term[c].step = "serving"
  /\ term' = [term EXCEPT ![c].shell = "dead"]
  /\ UNCHANGED <<termOn, termCut>>

ClientGoes(c) ==
  /\ term[c].client = "on"
  /\ term' = [term EXCEPT ![c].client = "gone"]
  /\ UNCHANGED <<termOn, termCut>>

\* Nothing to read any more; or the shell has said something and there is no client to write it
\* to. With a shell that is silent the goroutine waits.
CopierEnds(c) ==
  /\ term[c].copier = "copies" /\ (term[c].shell = "dead" \/ term[c].client = "gone")
  /\ term' = [term EXCEPT ![c].copier = "ended"]
  /\ UNCHANGED <<termOn, termCut>>

LoopEnds(c) ==
  /\ term[c].step = "serving" /\ term[c].client = "gone"
  /\ term' = [term EXCEPT ![c].step = "waiting"]
  /\ UNCHANGED <<termOn, termCut>>

Emptied(t) == [t EXCEPT !.place = "free", !.shell = IF @ = "runs" THEN "dead" ELSE @]

\* The handler returns and closes the session, unless others have.
CloseSession(c) ==
  /\ term[c].step = "waiting" /\ term[c].copier = "ended"
  /\ term' = [term EXCEPT ![c] = [Emptied(@) EXCEPT !.step = "ended"]]
  /\ UNCHANGED <<termOn, termCut>>

Ages(c) ==
  /\ term[c].place = "taken" /\ ~term[c].old
  /\ term' = [term EXCEPT ![c].old = TRUE]
  /\ UNCHANGED <<termOn, termCut>>

CleanupReserved ==
  /\ termOn
  /\ \E c \in Places : term[c].old
  /\ term' = [c \in Conns |-> IF term[c].place = "reserved" /\ term[c].old THEN Emptied(term[c]) ELSE term[c]]
  /\ UNCHANGED <<termOn, termCut>>

\* The loop of Start: what is taken and old is closed, in use or not.
CleanupStale ==
  /\ termOn
  /\ \E c \in Places : term[c].old
  /\ term' = [c \in Conns |-> IF term[c].place = "taken" /\ term[c].old THEN Emptied(term[c]) ELSE term[c]]
  /\ UNCHANGED <<termOn, termCut>>

\* Stop: CloseAll also takes away reserved places; what is being created is not told.
StopTerminals ==
  /\ termOn /\ termOn' = FALSE
  /\ termCut' = (termCut \/ \E c \in Conns : term[c].step \in {"starting", "registering"})
  /\ term' = [c \in Conns |-> IF term[c].place = "taken" THEN Emptied(term[c]) ELSE [term[c] EXCEPT !.place = "free"]]

StartTerminals == ~termOn /\ termOn' = TRUE /\ UNCHANGED <<term, termCut>>

TermNext ==
  \/ \E c \in Conns : \/ Reserve(c) \/ StartShell(c) \/ Register(c) \/ ShellExits(c) \/ ClientGoes(c)
                      \/ CopierEnds(c) \/ LoopEnds(c) \/ CloseSession(c) \/ Ages(c)
  \/ CleanupStale \/ StopTerminals \/ StartTerminals

\* Goroutines go on, time passes and the cleanup's ticker ticks while the plugin is started. A shell
\* need not say anything: of the goroutine that copies only the end of a dead shell is certain.
TermFairness ==
  /\ \A c \in Conns : /\ WF_termVars(StartShell(c)) /\ WF_termVars(Register(c))
                      /\ WF_termVars(LoopEnds(c)) /\ WF_termVars(CloseSession(c)) /\ WF_termVars(Ages(c))
                      /\ WF_termVars(term[c].shell = "dead" /\ CopierEnds(c))
  /\ WF_termVars(CleanupStale)

TermSpec == TermInit /\ [][TermNext]_termVars /\ TermFairness

-----------------------------------------------------------------------------
TermTypeOK ==
  /\ termOn \in BOOLEAN /\ termCut \in BOOLEAN
  /\ term \in [Conns -> Sessions]

\* No more shells than places, whoever connects at the same time, unless the plugin was stopped
\* while one was being started; and a shell that runs is in the map, where it can be closed.
ShellsBounded ==
  /\ ~termCut => Cardinality(Places) <= MaxSessions /\ Cardinality({c \in Conns : term[c].shell = "runs"}) <= MaxSessions
  /\ \A c \in Conns : term[c].shell = "runs" => term[c].place = "taken" \/ term[c].step = "registering"

\* A session whose client has gone gives its place back, as long as the plugin is started (by the
\* handler, or where that waits for a silent shell by the cleanup).
PlacesReturned ==
  \A c \in Conns : (term[c].client = "gone" /\ term[c].place = "taken") ~> (term[c].place = "free" \/ ~termOn)
=============================================================================
