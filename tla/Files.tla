--------------------------------- MODULE Files ---------------------------------
(***************************************************************************)
(* The file manager's changes of the file system and its archives          *)
(* (plugins/filemanager/fileops.go, archive.go, handler.go), and those of  *)
(* the core API (internal/plugin/coreapi.go).                              *)
(*                                                                         *)
(* Requests come at the same time.  An archive is made and taken apart     *)
(* entry by entry, a file is truncated before it is filled, and a failure  *)
(* leaves what has been done.  Reading requests, modes and symbolic links  *)
(* (which archives skip) are left out; one path is removed in one step.    *)
(***************************************************************************)
EXTENDS Naturals, FiniteSets, SequencesExt

CONSTANTS
  FileReqs,      \* requests in progress at a time
  FilePaths,     \* paths that are written, created, renamed: sequences of names below the root
  CorePaths,     \* those of them that the core API allows
  Selections,    \* what is packed together: sequences of paths
  ArchivePaths,  \* where archives are made
  DestPaths,     \* where they are extracted
  Contents       \* what files hold

PathNames ==
  UNION {ToSet(p) : p \in FilePaths \cup ArchivePaths \cup DestPaths \cup UNION {ToSet(s) : s \in Selections}}

\* Paths are lists of names; what is written, created, renamed or packed is below the root.
ASSUME FileAssumption ==
  /\ \A p \in FilePaths \cup ArchivePaths : p \in Seq(PathNames) /\ p # <<>>
  /\ DestPaths \subseteq Seq(PathNames)
  /\ \A s \in Selections : s # <<>> /\ s \in Seq(Seq(PathNames)) /\ <<>> \notin ToSet(s)

VARIABLES
  tree,      \* path -> [kind, data, list, of], of the paths that are there
  fileReq    \* the requests

fileVars == <<tree, fileReq>>

\* A node: an archive lists entries, "open" until it is closed; of is the tree that it was made of
\* where nothing else happened meanwhile (for the properties).
NoTree == <<>>
Node(kind, data) == [kind |-> kind, data |-> data, list |-> <<>>, of |-> NoTree]
Directory == Node("dir", "none")

\* A request: todo is what is left of it, list what it has packed, open the file it writes to, kept
\* the paths of its sources nobody has altered since it began, calm nobody anything at all.
FileRest == [op |-> "none", step |-> "done", todo |-> <<>>, dest |-> <<>>, data |-> "none", list |-> <<>>,
             open |-> {}, sources |-> <<>>, kept |-> {}, calm |-> TRUE, of |-> NoTree]

FileInit == tree = [p \in {} |-> Directory] /\ fileReq = [r \in FileReqs |-> FileRest]

There(p) == p \in DOMAIN tree
IsDir(p) == p = <<>> \/ (There(p) /\ tree[p].kind = "dir")
Within(p) == {q \in DOMAIN tree : IsPrefix(p, q)}
Children(p) == {q \in Within(p) : Len(q) = Len(p) + 1}

\* os.MkdirAll creates all or nothing: where one of the path's directories is a file, those above are there.
Above(p) == {SubSeq(p, 1, n) : n \in 1 .. Len(p)}
CanMkdirAll(p) == \A q \in Above(p) : There(q) => IsDir(q)
MkdirAll(p) ==
  IF CanMkdirAll(p) THEN [q \in DOMAIN tree \cup Above(p) |-> IF There(q) THEN tree[q] ELSE Directory] ELSE tree

\* A tree with a node put in place.
Put(t, p, node) == [q \in DOMAIN t \cup {p} |-> IF q = p THEN node ELSE t[q]]

FileAt(r, op, step) == fileReq[r].op = op /\ fileReq[r].step = step
FileBegin(r, req) == FileAt(r, "none", "done") /\ fileReq' = [fileReq EXCEPT ![r] = req] /\ UNCHANGED tree

\* r leaves the tree new, has altered the paths at or below those of touched, and goes on as req. Files
\* that others have open follow a rename, and are out of sight when they are removed.
Change(r, new, touched, Follow(_), req) ==
  /\ tree' = new
  /\ fileReq' = [q \in FileReqs |->
       IF q = r THEN req
       ELSE [fileReq[q] EXCEPT !.calm = @ /\ (new = tree \/ fileReq[q].step = "done"),
                               !.kept = {p \in @ : \A t \in touched : ~IsPrefix(t, p)},
                               !.open = Follow(@)]]
Stay(open) == open
FileFails(r) == fileReq' = [fileReq EXCEPT ![r] = FileRest] /\ UNCHANGED tree

-----------------------------------------------------------------------------
(* Single files and directories.                                           *)

\* The handlers of Write and Upload; the core API writes in the same way, what it allows.
Fill(r, p, d) == FileBegin(r, [FileRest EXCEPT !.op = "write", !.step = "create", !.dest = p, !.data = d])
WriteFile(r, p, d) == p \in FilePaths /\ Fill(r, p, d)
Upload(r, p, d) == p \in FilePaths /\ Fill(r, p, d)
isPathSafe(p) == \E q \in CorePaths : IsPrefix(q, p)
FileWrite(r, p, d) == isPathSafe(p) /\ Fill(r, p, d)

\* Parents are created, and the file, or it is truncated: what was in it is gone.
CreateFile(r) ==
  LET p == fileReq[r].dest
      made == MkdirAll(Front(p)) IN
  /\ FileAt(r, "write", "create")
  /\ IF CanMkdirAll(Front(p)) /\ (There(p) => ~IsDir(p))
     THEN Change(r, Put(made, p, Node("file", "torn")), {p}, Stay, [fileReq[r] EXCEPT !.step = "fill", !.open = {p}])
     ELSE Change(r, made, {}, Stay, FileRest)

\* The content follows; it is mixed with that of another request that writes to the file, and any part
\* of it may be missing when that fails.
CopyIn(r) ==
  /\ fileReq[r].step = "fill"
  /\ \/ LET new == [p \in DOMAIN tree |->
                      IF p \notin fileReq[r].open THEN tree[p]
                      ELSE Node("file", IF \E q \in FileReqs \ {r} : p \in fileReq[q].open THEN "torn" ELSE fileReq[r].data)]
        IN  Change(r, new, fileReq[r].open, Stay, FileRest)
     \/ FileFails(r)

Mkdir(r, p) ==
  /\ FileAt(r, "none", "done")
  /\ Change(r, MkdirAll(p), {}, Stay, FileRest)

\* The handler removes one path after the other, and stops at the root.
DeleteFiles(r, paths) == FileBegin(r, [FileRest EXCEPT !.op = "delete", !.step = "delete", !.todo = paths])
FileDelete(r, p) == isPathSafe(p) /\ DeleteFiles(r, <<p>>)

RemoveAll(r) ==
  /\ FileAt(r, "delete", "delete")
  /\ LET p == Head(fileReq[r].todo)
         rest == Tail(fileReq[r].todo) IN
     IF p = <<>> THEN FileFails(r)
     ELSE Change(r, [q \in DOMAIN tree \ Within(p) |-> tree[q]], {p}, LAMBDA open : {q \in open : ~IsPrefix(p, q)},
                 IF rest = <<>> THEN FileRest ELSE [fileReq[r] EXCEPT !.todo = rest])

\* os.Rename replaces a file by a file, and no directory.
Moved(old, new, q) == new \o SubSeq(q, Len(old) + 1, Len(q))
RenameIn(r, from, old, new) ==
  LET possible == /\ There(old) /\ ~IsStrictPrefix(old, new)
                  /\ new \in DOMAIN from => tree[old].kind = "file" /\ from[new].kind = "file"
                  /\ Front(new) = <<>> \/ (Front(new) \in DOMAIN from /\ from[Front(new)].kind = "dir")
      stays == {q \in DOMAIN from : ~IsPrefix(old, q) /\ q # new}
      goes == {Moved(old, new, q) : q \in Within(old)}
      Back(q) == Moved(new, old, q) IN
  /\ FileAt(r, "none", "done")
  /\ IF possible /\ old # new
     THEN Change(r, [q \in stays \cup goes |-> IF q \in goes THEN tree[Back(q)] ELSE from[q]], {old, new},
                 LAMBDA open : {IF IsPrefix(old, q) THEN Moved(old, new, q) ELSE q : q \in open \ {new}}, FileRest)
     ELSE Change(r, from, {}, Stay, FileRest)

\* The file manager creates the directories of the new path first, and they stay; the core API does not.
Rename(r, old, new) == CanMkdirAll(Front(new)) /\ RenameIn(r, MkdirAll(Front(new)), old, new)
FileRename(r, old, new) == isPathSafe(old) /\ isPathSafe(new) /\ RenameIn(r, tree, old, new)

-----------------------------------------------------------------------------
(* Archives.                                                               *)

Rel(s, p) == SubSeq(p, Len(s), Len(p))    \* relative to the directory of the source
Entry(s, p, data) == [path |-> Rel(s, p), kind |-> tree[p].kind, data |-> data]
Stored(p) == IF tree[p].data \in {"archive", "open"} THEN "packed" ELSE tree[p].data
Under(sources) == UNION {Within(sources[i]) : i \in DOMAIN sources}
SourceOf(sources, p) == CHOOSE s \in ToSet(sources) : IsPrefix(s, p)

\* The tree that sources make, where no two of its entries have one name and none is the archive itself.
TreeOf(sources, dest) ==
  LET taken == {v \in ToSet(sources) \X DOMAIN tree : IsPrefix(v[1], v[2])}
      Name(v) == Rel(v[1], v[2]) IN
  IF (\E v, w \in taken : v # w /\ Name(v) = Name(w)) \/ (\E s \in ToSet(sources) : IsPrefix(s, dest)) THEN NoTree
  ELSE [e \in {Name(v) : v \in taken} |->
          LET p == (CHOOSE v \in taken : Name(v) = e)[2] IN [kind |-> tree[p].kind, data |-> Stored(p)]]

Compress(r, sources, dest) ==
  FileBegin(r, [FileRest EXCEPT !.op = "pack", !.step = "create", !.sources = sources, !.dest = dest])

\* The archive is created, or truncated, in a directory that has to be there.
CreateArchive(r) ==
  LET req == fileReq[r] IN
  /\ FileAt(r, "pack", "create")
  /\ IF IsDir(Front(req.dest)) /\ (There(req.dest) => ~IsDir(req.dest))
     THEN Change(r, Put(tree, req.dest, Node("file", "open")), {req.dest}, Stay,
                 [req EXCEPT !.step = "walk", !.open = {req.dest}, !.kept = Under(req.sources) \ {req.dest},
                             !.todo = [i \in DOMAIN req.sources |-> [src |-> req.sources[i], path |-> req.sources[i]]],
                             !.of = TreeOf(req.sources, req.dest), !.calm = TRUE])
     ELSE FileFails(r)

\* Closing writes the end of the archive, after an error too: an archive that lacks entries is
\* as readable as a complete one.
CloseArchive(r, list, ok) ==
  LET req == fileReq[r]
      closed == [Node("file", "archive") EXCEPT !.list = list, !.of = IF ok /\ req.calm THEN req.of ELSE NoTree]
      new == [p \in DOMAIN tree |->
                IF p \notin req.open THEN tree[p]
                ELSE IF \E q \in FileReqs \ {r} : p \in fileReq[q].open THEN Node("file", "torn") ELSE closed] IN
  Change(r, new, req.open, Stay, IF ok THEN [req EXCEPT !.step = "ended", !.list = list] ELSE FileRest)

\* filepath.Walk: a path is looked at when its turn comes, a directory's names are read when it is. The
\* walk ends with an error where a path has vanished. The archive itself, inside a source, is
\* stored as far as it has got, if it is stored at all.
VisitEntries(r, entries) ==
  LET req == fileReq[r]
      s == Head(req.todo).src
      p == Head(req.todo).path
      below == SetToSeq(Children(p))
      todo == [i \in DOMAIN below |-> [src |-> s, path |-> below[i]]] \o Tail(req.todo)
      list == req.list \o entries IN
  IF todo = <<>> THEN CloseArchive(r, list, TRUE)
  ELSE fileReq' = [fileReq EXCEPT ![r].todo = todo, ![r].list = list] /\ UNCHANGED tree

VisitFiles(r) ==
  LET t == Head(fileReq[r].todo) IN
  VisitEntries(r, IF IsDir(t.path) THEN <<>> ELSE <<Entry(t.src, t.path, Stored(t.path))>>)

Visit(r) ==
  LET t == Head(fileReq[r].todo) IN
  VisitEntries(r, <<Entry(t.src, t.path, IF t.path \in fileReq[r].open THEN "torn" ELSE Stored(t.path))>>)

Walk(r) ==
  /\ FileAt(r, "pack", "walk")
  /\ \/ There(Head(fileReq[r].todo).path) /\ Visit(r)
     \/ CloseArchive(r, fileReq[r].list, FALSE)

\* An archive that is not closed ends in an error, after the entries that can be read.
Extract(r, a, dest) ==
  /\ There(a) /\ tree[a].data = "archive"
  /\ FileBegin(r, [FileRest EXCEPT !.op = "extract", !.step = "extract", !.todo = tree[a].list, !.dest = dest,
                                   !.of = IF CanMkdirAll(dest) /\ Children(dest) = {} THEN tree[a].of ELSE NoTree])

\* Where an entry goes. A directory that cannot be created is passed over; a file's fails.
PlaceFlat(dest, e) == Append(dest, Last(e.path))
Place(dest, e) == dest \o e.path

ExtractEntry(r) ==
  LET req == fileReq[r]
      e == Head(req.todo)
      p == Place(req.dest, e)
      made == IF e.kind = "dir" THEN MkdirAll(p) ELSE MkdirAll(Front(p))
      rest == [req EXCEPT !.todo = Tail(@), !.step = IF Len(req.todo) = 1 THEN "ended" ELSE @] IN
  /\ FileAt(r, "extract", "extract") /\ req.todo # <<>>
  /\ \/ e.kind = "dir" /\ Change(r, made, {}, Stay, rest)
     \/ /\ e.kind = "file" /\ CanMkdirAll(Front(p)) /\ (There(p) => ~IsDir(p))
        /\ Change(r, Put(made, p, Node("file", e.data)), {p}, Stay, rest)
     \/ FileFails(r)

\* What was packed from an empty selection has no entries.
ExtractNothing(r) ==
  /\ FileAt(r, "extract", "extract") /\ fileReq[r].todo = <<>>
  /\ fileReq' = [fileReq EXCEPT ![r].step = "ended"] /\ UNCHANGED tree

Answer(r) == fileReq[r].step = "ended" /\ FileFails(r)

FilePanelDies ==
  /\ \E r \in FileReqs : fileReq[r].step # "done"
  /\ fileReq' = [r \in FileReqs |-> FileRest] /\ UNCHANGED tree

FileNext ==
  \/ \E r \in FileReqs :
       \/ \E p \in FilePaths, d \in Contents : WriteFile(r, p, d) \/ Upload(r, p, d) \/ FileWrite(r, p, d)
       \/ \E p \in FilePaths : Mkdir(r, p) \/ FileDelete(r, p) \/ DeleteFiles(r, <<p>>)
       \/ \E p \in ArchivePaths, q \in DestPaths \cup {<<>>} : DeleteFiles(r, <<q, p>>)
       \/ \E p, q \in FilePaths : Rename(r, p, q) \/ FileRename(r, p, q)
       \/ CreateFile(r) \/ CopyIn(r) \/ RemoveAll(r)
       \/ \E s \in Selections, a \in ArchivePaths : Compress(r, s, a)
       \/ CreateArchive(r) \/ Walk(r)
       \/ \E a \in ArchivePaths, d \in DestPaths : Extract(r, a, d)
       \/ ExtractEntry(r) \/ ExtractNothing(r) \/ Answer(r)
  \/ FilePanelDies

FileSpec == FileInit /\ [][FileNext]_fileVars

-----------------------------------------------------------------------------
FileTypeOK ==
  /\ \A p \in DOMAIN tree : /\ tree[p].kind \in {"dir", "file"} /\ p # <<>>
                            /\ tree[p].data \in Contents \cup {"none", "torn", "open", "archive", "packed"}
                            /\ IsDir(Front(p))
  /\ \A r \in FileReqs : /\ fileReq[r].op \in {"none", "write", "delete", "pack", "extract"}
                         /\ fileReq[r].step \in {"done", "create", "fill", "delete", "walk", "extract", "ended"}
                         /\ Cardinality(fileReq[r].open) <= 1

\* An archive whose making was answered with success lists everything that was in its sources
\* when it was created and that nobody altered since, whatever else was added, written, moved or removed
\* among it meanwhile.
PackedComplete ==
  \A r \in FileReqs : FileAt(r, "pack", "ended") =>
    \A p \in fileReq[r].kept :
      LET s == SourceOf(fileReq[r].sources, p) IN Contains(fileReq[r].list, Entry(s, p, Stored(p)))

\* What an archive gives back, extracted undisturbed into a directory that was empty or not there, is
\* what it was made of, where nothing happened while it was made: no entry is lost, moved or changed.
GivesBack ==
  \A r \in FileReqs : (FileAt(r, "extract", "ended") /\ fileReq[r].calm /\ fileReq[r].of # NoTree) =>
    LET dest == fileReq[r].dest
        got == {SubSeq(p, Len(dest) + 1, Len(p)) : p \in Within(dest) \ {dest}} IN
    /\ got = DOMAIN fileReq[r].of
    /\ \A e \in got : fileReq[r].of[e] = [kind |-> tree[dest \o e].kind, data |-> tree[dest \o e].data]

FilesSound == PackedComplete /\ GivesBack
=============================================================================
