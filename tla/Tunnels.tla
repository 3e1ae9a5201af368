--------------------------------- MODULE Tunnels ---------------------------------
(***************************************************************************)
(* The tunnel plugin (src/plugins/tunnel): rows of Cloudflare tunnels, and *)
(* the ingress rules in the configuration file that a row names. The file  *)
(* belongs to cloudflared: it is read and parsed for every request, and    *)
(* the whole of it is written again from what was read. Nothing is locked. *)
(*                                                                         *)
(* A rule is <<hostname, service>>; cloudflared wants the last one, and no *)
(* other, to be without hostname. Other keys of a rule are dropped when    *)
(* the file is parsed and are left out.                                    *)
(***************************************************************************)
EXTENDS Naturals, Sequences, FiniteSets, SequencesExt, SeqDrop

CONSTANTS TunnelReqs,  \* what serves requests, one at a time each
          TunnelIds, Paths, Services,
          Hostnames, RuleTargets, \* hostnames of rules; their services, "http_status:404" among them
          MaxRules

VARIABLES tunRow,   \* the rows: path and service name
          tunFile,  \* the rules in each path's file
          tunAsked, \* the rules with a hostname that the requests have asked for, per path
          tunBare,  \* files last written by the addition of the fallback rule itself
          tunReq,
          tunMet    \* two requests have met, or the panel died in one

tunnelVars == <<tunRow, tunFile, tunAsked, tunBare, tunReq, tunMet>>

Anything == ""
NotFound == "http_status:404"
Fallback == <<Anything, NotFound>>
ASSUME TunnelAssumption == Paths # {} /\ NotFound \in RuleTargets /\ TunnelIds \subseteq Nat \ {0}

Rules == (Hostnames \cup {Anything}) \X RuleTargets

TunRow == [there : BOOLEAN, path : Paths \cup {Anything}, service : Services \cup {Anything}]
NoTunnel == [there |-> FALSE, path |-> Anything, service |-> Anything]
TunRest == [step |-> "done", id |-> 0, row |-> NoTunnel, rules |-> <<>>, bare |-> FALSE]

Named(rules) == {rules[i] : i \in {j \in DOMAIN rules : rules[j][1] # Anything}}

TunnelTypeOK ==
  /\ tunRow \in [TunnelIds -> TunRow]
  /\ \A p \in Paths : tunFile[p] \in Seq(Rules) /\ tunAsked[p] \subseteq Rules
  /\ tunBare \subseteq Paths
  /\ \A r \in TunnelReqs : /\ tunReq[r].step \in {"done", "insert", "save", "write"}
                           /\ tunReq[r].row \in TunRow /\ tunReq[r].rules \in Seq(Rules)
  /\ tunMet \in BOOLEAN

TunnelInit ==
  /\ \E rows \in {{}} \cup {{i} : i \in TunnelIds} :
       tunRow = [i \in TunnelIds |->
         IF i \in rows THEN [there |-> TRUE, path |-> CHOOSE p \in Paths : TRUE, service |-> Anything] ELSE NoTunnel]
  /\ tunFile = [p \in Paths |-> <<Fallback>>] /\ tunAsked = [p \in Paths |-> {}]
  /\ tunBare = {} /\ tunReq = [r \in TunnelReqs |-> TunRest] /\ tunMet = FALSE

TunAt(r, step) == tunReq[r].step = step
TunBusy == \E r \in TunnelReqs : ~TunAt(r, "done")
TunDone(r) == tunReq' = [tunReq EXCEPT ![r] = TunRest]

TunBegin(r, req) ==
  /\ TunAt(r, "done") /\ tunReq' = [tunReq EXCEPT ![r] = req]
  /\ tunMet' = (tunMet \/ TunBusy)

-----------------------------------------------------------------------------
(* Rows. A service name is checked to be free before the row is written.   *)

FreeService(s, i) == s = Anything \/ \A j \in TunnelIds \ {i} : tunRow[j].there => tunRow[j].service # s

CreateTunnel(r) ==
  /\ \E p \in Paths, s \in Services \cup {Anything} :
       /\ FreeService(s, 0)
       /\ TunBegin(r, [TunRest EXCEPT !.step = "insert", !.row = [there |-> TRUE, path |-> p, service |-> s]])
  /\ UNCHANGED <<tunRow, tunFile, tunAsked, tunBare>>

\* A path is unique in the table, a service name is not.
InsertTunnel(r) ==
  /\ TunAt(r, "insert") /\ TunDone(r)
  /\ IF \E j \in TunnelIds : tunRow[j].there /\ tunRow[j].path = tunReq[r].row.path
     THEN UNCHANGED tunRow
     ELSE \E i \in TunnelIds : ~tunRow[i].there /\ tunRow' = [tunRow EXCEPT ![i] = tunReq[r].row]
  /\ UNCHANGED <<tunFile, tunAsked, tunBare, tunMet>>

UpdateUnchecked(r) ==
  /\ \E i \in TunnelIds, s \in Services \cup {Anything} :
       /\ tunRow[i].there
       /\ TunBegin(r, [TunRest EXCEPT !.step = "save", !.id = i, !.row = [tunRow[i] EXCEPT !.service = s]])
  /\ UNCHANGED <<tunRow, tunFile, tunAsked, tunBare>>

UpdateTunnel(r) ==
  /\ \E i \in TunnelIds, p \in Paths, s \in Services \cup {Anything} :
       /\ tunRow[i].there /\ FreeService(s, i)
       /\ TunBegin(r, [TunRest EXCEPT !.step = "save", !.id = i,
                                      !.row = [there |-> TRUE, path |-> p, service |-> s]])
  /\ UNCHANGED <<tunRow, tunFile, tunAsked, tunBare>>

\* Save inserts a row that has been deleted meanwhile.
SaveTunnel(r) ==
  /\ TunAt(r, "save") /\ TunDone(r)
  /\ LET i == tunReq[r].id  row == tunReq[r].row IN
     IF \E j \in TunnelIds \ {i} : tunRow[j].there /\ tunRow[j].path = row.path
     THEN UNCHANGED tunRow
     ELSE tunRow' = [tunRow EXCEPT ![i] = row]
  /\ UNCHANGED <<tunFile, tunAsked, tunBare, tunMet>>

\* The file stays.
DeleteTunnel(r) ==
  /\ \E i \in TunnelIds : tunRow[i].there /\ tunRow' = [tunRow EXCEPT ![i] = NoTunnel]
  /\ TunAt(r, "done") /\ tunMet' = (tunMet \/ TunBusy)
  /\ UNCHANGED <<tunFile, tunAsked, tunBare, tunReq>>

-----------------------------------------------------------------------------
(* Ingress rules: the file is read, changed in memory and written.         *)

filterFallbackIngress(rules) == DropFrom(rules, {Fallback})
hasFallbackIngress(rules) == Contains(rules, Fallback)

SerializeBare(rules) == filterFallbackIngress(rules)

\* The fallback rule moves to the end; it is added if the rules given have none.
serializeConfig(rules) ==
  filterFallbackIngress(rules) \o (IF hasFallbackIngress(rules) THEN <<>> ELSE <<Fallback>>)

\* A request about rules of the row's file goes on to write them, unless cloudflared refuses
\* the DNS route or the row is deleted.
TunEdit(r, i, rules, bare, asked) ==
  /\ Len(rules) <= MaxRules
  /\ \/ /\ TunBegin(r, [TunRest EXCEPT !.step = "write", !.row = tunRow[i], !.rules = rules, !.bare = bare])
        /\ tunAsked' = [tunAsked EXCEPT ![tunRow[i].path] = asked]
     \/ TunAt(r, "done") /\ UNCHANGED <<tunReq, tunMet, tunAsked>>
  /\ UNCHANGED <<tunRow, tunFile, tunBare>>

\* The fallback rule is filtered and the new one appended, which may itself be the fallback.
AddIngress(r) ==
  \E i \in TunnelIds, item \in Rules :
    /\ tunRow[i].there
    /\ LET p == tunRow[i].path IN
       /\ item[1] # Anything => \A e \in Range(tunFile[p]) : e[1] # item[1]
       /\ TunEdit(r, i, Append(filterFallbackIngress(tunFile[p]), item), item = Fallback,
                  tunAsked[p] \cup Named(<<item>>))

\* A rule is found by its number, which is its place and content in the file.
UpdateIngress(r) ==
  \E i \in TunnelIds, item \in Rules :
    /\ tunRow[i].there
    /\ LET p == tunRow[i].path IN
       \E k \in DOMAIN tunFile[p] :
         /\ item[1] # Anything => \A j \in DOMAIN tunFile[p] \ {k} : tunFile[p][j][1] # item[1]
         /\ TunEdit(r, i, filterFallbackIngress([tunFile[p] EXCEPT ![k] = item]), FALSE,
                    (tunAsked[p] \ {tunFile[p][k]}) \cup Named(<<item>>))

DeleteIngress(r) ==
  \E i \in TunnelIds :
    /\ tunRow[i].there
    /\ LET p == tunRow[i].path IN
       \E k \in DOMAIN tunFile[p] :
         TunEdit(r, i, filterFallbackIngress(RemoveAt(tunFile[p], k)), FALSE, tunAsked[p] \ {tunFile[p][k]})

\* The old content goes to a backup, then the file is written. A failed write is put back,
\* and the request fails.
WriteIngress(r) ==
  /\ TunAt(r, "write") /\ TunDone(r)
  /\ LET p == tunReq[r].row.path IN
     /\ tunFile' = [tunFile EXCEPT ![p] = serializeConfig(tunReq[r].rules)]
     /\ tunBare' = IF tunReq[r].bare THEN tunBare \cup {p} ELSE tunBare \ {p}
  /\ UNCHANGED <<tunRow, tunAsked, tunMet>>

-----------------------------------------------------------------------------
TunPanelDies ==
  /\ TunBusy /\ tunMet' = TRUE
  /\ tunReq' = [r \in TunnelReqs |-> TunRest]
  /\ UNCHANGED <<tunRow, tunFile, tunAsked, tunBare>>

TunnelRows(r) ==
  CreateTunnel(r) \/ InsertTunnel(r) \/ UpdateTunnel(r) \/ SaveTunnel(r) \/ DeleteTunnel(r)

TunnelIngress(r) == AddIngress(r) \/ UpdateIngress(r) \/ DeleteIngress(r) \/ WriteIngress(r)

TunnelNext == TunPanelDies \/ \E r \in TunnelReqs : TunnelRows(r) \/ TunnelIngress(r)

TunnelSpec == TunnelInit /\ [][TunnelNext]_tunnelVars

-----------------------------------------------------------------------------

\* A tunnel's file has exactly the rules with a hostname that were asked for, each hostname
\* once, and ends in a rule for everything else, and no two tunnels have the same service,
\* unless two requests have met or the panel died in one. The file has no last rule after
\* the request that adds just that one.
TunnelWhole ==
  ~tunMet /\ ~TunBusy =>
    /\ \A p \in Paths :
         /\ Named(tunFile[p]) = tunAsked[p]
         /\ \A j, k \in DOMAIN tunFile[p] :
              j # k /\ tunFile[p][j][1] # Anything => tunFile[p][j][1] # tunFile[p][k][1]
         /\ p \notin tunBare => tunFile[p] # <<>> /\ Last(tunFile[p]) = Fallback
    /\ \A i, j \in TunnelIds :
         i # j /\ tunRow[i].there /\ tunRow[j].there =>
           /\ tunRow[i].path # tunRow[j].path
           /\ tunRow[i].service = Anything \/ tunRow[i].service # tunRow[j].service
=============================================================================
