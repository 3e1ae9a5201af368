------------------------------- MODULE HostParts -------------------------------
(***************************************************************************)
(* A host's upstreams and the routes that refer to them by id              *)
(* (internal/service/host.go, the host operations of                       *)
(* internal/plugin/coreapi.go).                                            *)
(*                                                                         *)
(* Update replaces the upstreams' rows, so that they get new ids, and has  *)
(* to lead the routes to them; Clone and Import copy rows and ids alike.   *)
(* Routes come with imported files only.  Update is a sequence of          *)
(* statements outside a transaction; validation that comes before them     *)
(* refuses without a trace and is left out.                                *)
(***************************************************************************)
EXTENDS Naturals, FiniteSets, SequencesExt, SeqDrop

CONSTANTS
  PartHosts,    \* domains: two hosts never have the same
  PartReqs,     \* requests in progress at a time
  RoutePaths,   \* the paths a host may route
  MaxParts      \* ids given to upstreams, at most

ASSUME PartsAssumption == MaxParts \in Nat

VARIABLES
  partHost,   \* domain -> [there, ups, routes]: the upstreams' ids in their order; path -> [up, pos]
  partIds,    \* the last id given
  partReq,    \* the requests: [step, h, old, n, row, live]
  partMet,    \* two requests have met, or the panel died in one
  partCut     \* hosts whose list was cut below a route, or lost in an update that was refused

partVars == <<partHost, partIds, partReq, partMet, partCut>>

\* A route: the upstream it refers to, 0 for none, and the place in the list it was given.
NoRoute == [up |-> 0, pos |-> 0]
NoParts == [there |-> FALSE, ups |-> <<>>, routes |-> [p \in RoutePaths |-> NoRoute]]
PartDone == [step |-> "done", h |-> "none", old |-> <<>>, n |-> 0, row |-> NoParts, live |-> TRUE]

PartInit ==
  /\ partHost = [h \in PartHosts |-> NoParts] /\ partIds = 0
  /\ partReq = [r \in PartReqs |-> PartDone]
  /\ partMet = FALSE /\ partCut = {}

PartAt(r, step) == partReq[r].step = step
PartBusy == \E r \in PartReqs : ~PartAt(r, "done")

PartBegin(r, req) ==
  /\ PartAt(r, "done")
  /\ partReq' = [partReq EXCEPT ![r] = req]
  /\ partMet' = (partMet \/ PartBusy)

PartEnd(r) == partReq' = [partReq EXCEPT ![r] = PartDone] /\ UNCHANGED partMet

\* n new ids.
Fresh(n) == [i \in 1 .. n |-> partIds + i]
Give(n) == partIds + n <= MaxParts /\ partIds' = partIds + n

\* A list that is copied gives each route the upstream in the place of its old one, or none.
PlaceOf(ups, up) == IF Contains(ups, up) THEN CHOOSE i \in DOMAIN ups : ups[i] = up ELSE 0
Refer(ups, pos) == IF pos \in DOMAIN ups THEN [up |-> ups[pos], pos |-> pos] ELSE NoRoute

\* Create, CreateFromTemplate, and the core API's, whose clone is a new host with the first upstream.
CreateParts(r, h, n) ==
  /\ ~partHost[h].there
  /\ PartBegin(r, PartDone) /\ Give(n)
  /\ partHost' = [partHost EXCEPT ![h] = [NoParts EXCEPT !.there = TRUE, !.ups = Fresh(n)]]
  /\ partCut' = partCut \ {h}

CoreCloneHost(r, h, new) == partHost[h].there /\ CreateParts(r, new, IF partHost[h].ups = <<>> THEN 0 ELSE 1)

\* Deleting takes the parts along only on a connection that checks foreign keys.
DeleteParts(r, h) ==
  /\ partHost[h].there
  /\ PartBegin(r, PartDone)
  /\ \/ partHost' = [partHost EXCEPT ![h] = NoParts]
     \/ partHost' = [partHost EXCEPT ![h].there = FALSE]
  /\ UNCHANGED <<partIds, partCut>>

\* ImportAll, in a transaction: a file with one host takes the place of all hosts, with new rows, and
\* each route goes to the place it has in the file. What requests in progress have read is no more.
ImportParts(r, h, n, pos) ==
  /\ PartAt(r, "done") /\ Give(n)
  /\ partReq' = [k \in PartReqs |-> [partReq[k] EXCEPT !.live = FALSE]]
  /\ partMet' = (partMet \/ PartBusy)
  /\ partHost' = [k \in PartHosts |->
       IF k = h THEN [there |-> TRUE, ups |-> Fresh(n), routes |-> [p \in RoutePaths |-> Refer(Fresh(n), pos[p])]] ELSE NoParts]
  /\ partCut' = {}

\* CloneHost: the host is read, and copied in a transaction.
ReadSource(r, h, new) ==
  /\ partHost[h].there
  /\ PartBegin(r, [PartDone EXCEPT !.step = "clone", !.h = new, !.row = partHost[h]])
  /\ UNCHANGED <<partHost, partIds, partCut>>

CloneIds(row, new) == row.routes
CloneRoutes(row, new) == [p \in RoutePaths |-> Refer(new, PlaceOf(row.ups, row.routes[p].up))]

InsertCopy(r) ==
  LET row == partReq[r].row  h == partReq[r].h IN
  /\ PartAt(r, "clone") /\ PartEnd(r)
  /\ \/ /\ ~partHost[h].there /\ Give(Len(row.ups))
        /\ partHost' = [partHost EXCEPT ![h] =
             [there |-> TRUE, ups |-> Fresh(Len(row.ups)), routes |-> CloneRoutes(row, Fresh(Len(row.ups)))]]
        /\ partCut' = partCut \ {h}
     \/ UNCHANGED <<partHost, partIds, partCut>>

\* Update reads the host, remembers its upstreams in their order and deletes them.
StripParts(r, h, n) ==
  /\ partHost[h].there
  /\ PartBegin(r, [step |-> "save", h |-> h, old |-> partHost[h].ups, n |-> n, row |-> partHost[h], live |-> TRUE])
  /\ partHost' = [partHost EXCEPT ![h].ups = <<>>]
  /\ UNCHANGED <<partIds, partCut>>

\* A password that cannot be hashed, or a user's name that is refused, comes after the deletion.
RefuseParts(r) ==
  /\ PartAt(r, "save") /\ PartEnd(r)
  /\ partCut' = partCut \cup {partReq[r].h}
  /\ UNCHANGED <<partHost, partIds>>

\* Save brings back a row that has gone meanwhile, with the routes that were read; not beside an
\* imported host of the same domain.
Saved(r, ups) ==
  LET h == partReq[r].h IN
  [partHost EXCEPT ![h] = IF @.there THEN [@ EXCEPT !.ups = partHost[h].ups \o ups] ELSE [partReq[r].row EXCEPT !.ups = ups]]

Overtaken(r) == ~partReq[r].live /\ partHost[partReq[r].h].there

SaveParts(r) ==
  LET h == partReq[r].h IN
  /\ PartAt(r, "save")
  /\ IF Overtaken(r)
     THEN PartEnd(r) /\ UNCHANGED <<partHost, partIds>>
     ELSE /\ Give(partReq[r].n)
          /\ partHost' = Saved(r, Fresh(partReq[r].n))
          /\ partReq' = [partReq EXCEPT ![r].step = "remap", ![r].row.ups = Fresh(partReq[r].n)]
          /\ UNCHANGED partMet
  /\ UNCHANGED partCut

\* The routes that referred to the upstream in a place of the old list refer to the one in that place of the new list.
RemapNothing(route, old, new) == route
Remap(route, old, new) ==
  LET i == PlaceOf(old, route.up) IN
  IF i \in DOMAIN new THEN [route EXCEPT !.up = new[i]] ELSE route

RemapRoutes(r) ==
  LET h == partReq[r].h  old == partReq[r].old  new == partReq[r].row.ups IN
  /\ PartAt(r, "remap") /\ PartEnd(r)
  /\ partHost' = IF partReq[r].live
                 THEN [partHost EXCEPT ![h].routes = [p \in RoutePaths |-> Remap(@[p], old, new)]] ELSE partHost
  /\ partCut' = IF \E p \in RoutePaths : partHost[h].routes[p].pos > Len(new) THEN partCut \cup {h} ELSE partCut
  /\ UNCHANGED partIds

\* Toggle and UpdateCertPaths read the host with its parts and save all of it: upstreams that an
\* update has deleted meanwhile come back.
OpenParts(r, h) ==
  /\ partHost[h].there
  /\ PartBegin(r, [PartDone EXCEPT !.step = "toggle", !.h = h, !.row = partHost[h]])
  /\ UNCHANGED <<partHost, partIds, partCut>>

SaveToggled(r) ==
  LET h == partReq[r].h IN
  /\ PartAt(r, "toggle") /\ PartEnd(r)
  /\ partHost' = IF Overtaken(r) THEN partHost
                 ELSE Saved(r, DropFrom(partReq[r].row.ups, Range(partHost[h].ups)))
  /\ UNCHANGED <<partIds, partCut>>

PartPanelDies ==
  /\ PartBusy /\ partMet' = TRUE
  /\ partReq' = [r \in PartReqs |-> PartDone]
  /\ UNCHANGED <<partHost, partIds, partCut>>

PartRequest(r) ==
  \/ \E h \in PartHosts, n \in 0 .. 2 : CreateParts(r, h, n) \/ StripParts(r, h, n)
  \/ \E h \in PartHosts, n \in 0 .. 2, pos \in [RoutePaths -> 0 .. 2] : ImportParts(r, h, n, pos)
  \/ \E h, k \in PartHosts : CoreCloneHost(r, h, k) \/ ReadSource(r, h, k)
  \/ \E h \in PartHosts : DeleteParts(r, h) \/ OpenParts(r, h)
  \/ RefuseParts(r) \/ SaveParts(r) \/ RemapRoutes(r) \/ SaveToggled(r) \/ InsertCopy(r)

PartNext == PartPanelDies \/ \E r \in PartReqs : PartRequest(r)

PartSpec == PartInit /\ [][PartNext]_partVars

-----------------------------------------------------------------------------
PartIdSet == 1 .. MaxParts

PartTypeOK ==
  /\ partIds \in 0 .. MaxParts /\ partMet \in BOOLEAN /\ partCut \subseteq PartHosts
  /\ \A h \in PartHosts : /\ partHost[h].there \in BOOLEAN /\ partHost[h].ups \in Seq(PartIdSet)
                          /\ \A p \in RoutePaths : partHost[h].routes[p] \in [up : {0} \cup PartIdSet, pos : Nat]
  /\ \A r \in PartReqs : partReq[r].step \in {"done", "clone", "save", "remap", "toggle"}

Working(h) == \E r \in PartReqs : partReq[r].h = h /\ ~PartAt(r, "done")

\* No route leads to another host's upstream, whatever requests meet (the renderer looks an id up
\* among the host's own upstreams; an id that is not there is a route that answers nothing).
\* A route leads to the place in the list it was given, over updates that replace the list,
\* clones and imports, unless requests have met, the list was cut below it, or an update failed.
RoutesKept ==
  \A h \in PartHosts : partHost[h].there =>
    \A p \in RoutePaths :
      LET route == partHost[h].routes[p] IN
      /\ \A k \in PartHosts \ {h} : ~Contains(partHost[k].ups, route.up)
      /\ (~partMet /\ h \notin partCut /\ ~Working(h) /\ route.pos # 0) =>
           route.pos \in DOMAIN partHost[h].ups /\ route.up = partHost[h].ups[route.pos]
=============================================================================
