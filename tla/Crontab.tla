-------------------------------- MODULE Crontab --------------------------------
(***************************************************************************)
(* The page of the cronjob plugin that edits the crontab of the panel's    *)
(* user (src/plugins/cronjob/service.go). A page holds the entries it was  *)
(* loaded with and the hash of the file they came from; saving replaces    *)
(* the whole file by the entries, if the file still has that hash. Other   *)
(* programs may run crontab(1) at any time: they do not know crontabMu.    *)
(***************************************************************************)
EXTENDS Naturals, FiniteSets

CONSTANTS CrontabUsers,  \* pages in the browser
          MaxEdits       \* bound on edits outside the panel

ASSUME CrontabAssumption == MaxEdits \in Nat

\* What a line can be: a job, a job commented out, a comment of some words, a comment
\* so long that it has the shape of a schedule and a command.
Lines == {"job", "paused", "note", "prose"}
NoPage == {"none"}

VARIABLES crontab,  \* the file: its lines
          page,     \* per user, the file the page was loaded from, or NoPage
          saver,    \* the saves in progress: per user, "idle", "read" or "install"
          locked,   \* crontabMu is held by a save
          slipped,  \* the file was edited outside the panel since the save has read it
          edits     \* edits outside the panel

crontabVars == <<crontab, page, saver, locked, slipped, edits>>

Files == SUBSET Lines

CrontabTypeOK ==
  /\ crontab \in Files
  /\ page \in [CrontabUsers -> Files \cup {NoPage}]
  /\ saver \in [CrontabUsers -> {"idle", "read", "install"}]
  /\ locked \in BOOLEAN /\ slipped \in BOOLEAN /\ edits \in 0..MaxEdits

CrontabInit ==
  /\ crontab \in {{}, {"job", "note"}, {"paused", "prose"}}
  /\ page = [u \in CrontabUsers |-> NoPage]
  /\ saver = [u \in CrontabUsers |-> "idle"]
  /\ locked = FALSE /\ slipped = FALSE /\ edits = 0

\* parseCrontab keeps the lines that have a schedule and a command; a leading "#" makes
\* the entry a disabled one.
parseCrontabLine(line) == line # "note"
parseCrontab(file) == {line \in file : parseCrontabLine(line)}

\* buildCrontab refuses an empty list and a schedule that does not parse.
buildable(entries) == entries # {} /\ "prose" \notin entries

\* GetCrontab, under the same lock.
GetCrontab(u) ==
  /\ ~locked /\ saver[u] = "idle"
  /\ page' = [page EXCEPT ![u] = crontab]
  /\ UNCHANGED <<crontab, saver, locked, slipped, edits>>

SaveUnlocked(u) ==
  /\ saver[u] = "idle" /\ page[u] # NoPage
  /\ saver' = [saver EXCEPT ![u] = "read"]
  /\ slipped' = FALSE
  /\ UNCHANGED <<crontab, page, locked, edits>>

SaveCrontab(u) ==
  /\ ~locked /\ saver[u] = "idle" /\ page[u] # NoPage
  /\ locked' = TRUE
  /\ saver' = [saver EXCEPT ![u] = "read"]
  /\ slipped' = FALSE
  /\ UNCHANGED <<crontab, page, edits>>

\* The file is read and its hash compared with the page's: another file is a conflict.
CompareHash(u) ==
  /\ saver[u] = "read"
  /\ IF crontab = page[u] THEN saver' = [saver EXCEPT ![u] = "install"] /\ UNCHANGED locked
                          ELSE saver' = [saver EXCEPT ![u] = "idle"] /\ locked' = FALSE
  /\ UNCHANGED <<crontab, page, slipped, edits>>

\* The user has kept, removed, added or toggled entries. The new file is those entries:
\* the lines that were no entries are gone. The page takes the new file.
InstallCrontab(u) ==
  /\ saver[u] = "install"
  /\ \E entries \in SUBSET (parseCrontab(page[u]) \cup {"job", "paused"}) :
       IF buildable(entries)
       THEN crontab' = entries /\ page' = [page EXCEPT ![u] = entries]
       ELSE UNCHANGED <<crontab, page>>
  /\ saver' = [saver EXCEPT ![u] = "idle"] /\ locked' = FALSE
  /\ UNCHANGED <<slipped, edits>>

\* crontab -e, a package, another program.
EditOutside ==
  /\ edits < MaxEdits
  /\ crontab' \in Files \ {crontab}
  /\ slipped' = TRUE /\ edits' = edits + 1
  /\ UNCHANGED <<page, saver, locked>>

CrontabNext ==
  \/ \E u \in CrontabUsers : GetCrontab(u) \/ SaveCrontab(u) \/ CompareHash(u) \/ InstallCrontab(u)
  \/ EditOutside

CrontabSpec == CrontabInit /\ [][CrontabNext]_crontabVars

-----------------------------------------------------------------------------

\* A save replaces only a file whose entries its user has seen: neither another user's
\* save nor an edit outside the panel is overwritten, except an edit that comes between
\* the save's reading and its installing, which no lock of the panel keeps out.
CrontabSeen ==
  [][\A u \in CrontabUsers : saver[u] = "install" /\ saver'[u] = "idle" /\ crontab' # crontab
       => page[u] = crontab \/ slipped]_crontabVars
=============================================================================
