-------------------------------- MODULE PhpSites --------------------------------
(***************************************************************************)
(* The sites of the PHP plugin: a row, a host in Caddy for its domain,     *)
(* and, for a FrankenPHP site, a directory and a container named after the *)
(* slug of the site's name; an FPM site uses a runtime of PhpRuntimes.     *)
(*                                                                         *)
(* Names are unique, slugs are not. A host's row is named after the        *)
(* request that created it; a site's row refers to it by that.             *)
(***************************************************************************)
EXTENDS PhpRuntimes

CONSTANTS SiteReqs,   \* what serves requests about sites, one at a time each
          Domains,
          PhpSlugOf   \* sanitizeName

ASSUME PhpSlugAssumption == DOMAIN PhpSlugOf = PhpNames /\ "none" \notin PhpNames \cup Domains \cup SiteReqs

VARIABLES siteHost,   \* the hosts' rows: the domain, or "none", per creating request
          siteBox,    \* per slug, the name of the site whose directory and container are there
          siteReq,    \* the requests
          siteUnsure  \* sites that two requests, two names of a slug, or a failure have met

siteVars == <<phpVars, siteHost, siteBox, siteReq, siteUnsure>>
siteOwn == <<siteHost, siteBox, siteReq, siteUnsure>>

NoOne == "none"
PhpSlugs == {PhpSlugOf[n] : n \in PhpNames}
SiteSteps == {"box", "host", "row", "unhost", "unserve", "forget", "sync", "done"}

SiteTypeOK ==
  /\ phpSite \in [PhpNames -> [there : BOOLEAN, kind : {"fpm", "franken"},
                               domain : Domains \cup {NoOne}, host : SiteReqs \cup {NoOne}]]
  /\ siteHost \in [SiteReqs -> Domains \cup {NoOne}]
  /\ siteBox \in [PhpSlugs -> PhpNames \cup {NoOne}]
  /\ siteReq \in [SiteReqs -> [step : SiteSteps, name : PhpNames \cup {NoOne}, kind : {"fpm", "franken"},
                               domain : Domains \cup {NoOne}, host : SiteReqs \cup {NoOne}]]
  /\ siteUnsure \subseteq PhpNames

SiteRest == [step |-> "done", name |-> NoOne, kind |-> "fpm", domain |-> NoOne, host |-> NoOne]

SiteInit ==
  /\ PhpInit
  /\ siteHost = [r \in SiteReqs |-> NoOne] /\ siteBox = [s \in PhpSlugs |-> NoOne]
  /\ siteReq = [r \in SiteReqs |-> SiteRest]
  /\ siteUnsure = {}

SiteAt(r, step) == siteReq[r].step = step
SiteGo(r, step) ==
  siteReq' = [siteReq EXCEPT ![r] = IF step = "done" THEN SiteRest ELSE [@ EXCEPT !.step = step]]
SiteSlug(r) == PhpSlugOf[siteReq[r].name]
SameSlug(n) == {m \in PhpNames : PhpSlugOf[m] = PhpSlugOf[n]}
SitesAtWork == {siteReq[r].name : r \in SiteReqs} \ {NoOne}

RuntimeGoing == \E r \in PhpReqs : phpReq[r].op \in {"create", "delete"}

\* A request for n begins; another one at work on n, or on a name with its slug, makes them
\* all unsure, and so does a deletion of the runtime, or a creation that may be undone.
SiteBeginIn(r, step, n, kind, domain, host, doubt) ==
  /\ SiteAt(r, "done")
  /\ siteReq' = [siteReq EXCEPT ![r] = [step |-> step, name |-> n, kind |-> kind,
                                        domain |-> domain, host |-> host]]
  /\ siteUnsure' = siteUnsure \cup (IF SameSlug(n) \cap SitesAtWork # {} THEN SameSlug(n) ELSE {})
                    \cup (IF kind = "fpm" /\ RuntimeGoing THEN {n} ELSE {}) \cup doubt
SiteBegin(r, step, n, kind, domain, host) == SiteBeginIn(r, step, n, kind, domain, host, {})

-----------------------------------------------------------------------------
(* The panel's hosts, as the plugin calls them.                            *)

FreeDomain(d) == \A r \in SiteReqs : siteHost[r] # d

\* CreateHost: a domain that is taken is refused. Caddy may refuse the configuration after
\* the row is there: the row then stays and the caller is told of a failure.
CreateHost(r, d, ok) ==
  /\ siteHost[r] = NoOne
  /\ \/ ok /\ FreeDomain(d) /\ siteHost' = [siteHost EXCEPT ![r] = d]
     \/ ~ok /\ UNCHANGED siteHost
     \/ ~ok /\ FreeDomain(d) /\ siteHost' = [siteHost EXCEPT ![r] = d]

\* The number of a host that is gone is not used again while something refers to it.
UnusedHost(r) ==
  /\ siteHost[r] = NoOne
  /\ \A n \in PhpNames : phpSite[n].host # r
  /\ \A q \in SiteReqs : siteReq[q].host # r

DeleteHost(h) == siteHost' = [h2 \in SiteReqs |-> IF h2 = h THEN NoOne ELSE siteHost[h2]]

-----------------------------------------------------------------------------
(* Creation.                                                               *)

\* The name is free; an FPM site needs its runtime to be running.
CreateSite(r) ==
  /\ UnusedHost(r)
  /\ \E n \in PhpNames, d \in Domains :
       /\ ~phpSite[n].there
       /\ \/ phpRow.there /\ phpCont = "up" /\ SiteBegin(r, "host", n, "fpm", d, NoOne)
          \/ SiteBegin(r, "box", n, "franken", d, NoOne)
  /\ UNCHANGED <<phpVars, siteHost, siteBox>>

\* FrankenPHP: directory and container, in place of those of another site with the slug.
\* A start that fails erases the directory.
StartFranken(r) ==
  /\ SiteAt(r, "box")
  /\ LET n == siteReq[r].name  s == SiteSlug(r) IN
     /\ siteUnsure' = siteUnsure \cup {m \in SameSlug(n) \ {n} : phpSite[m].there \/ m = siteBox[s]}
     /\ \/ siteBox' = [siteBox EXCEPT ![s] = n] /\ SiteGo(r, "host")
        \/ siteBox' = [siteBox EXCEPT ![s] = NoOne] /\ SiteGo(r, "done")
  /\ UNCHANGED <<phpVars, siteHost>>

\* A host that cannot be created takes the container with it, and leaves the directory.
CreateSiteHost(r) ==
  /\ SiteAt(r, "host")
  /\ \/ /\ CreateHost(r, siteReq[r].domain, TRUE)
        /\ siteReq' = [siteReq EXCEPT ![r].step = "row", ![r].host = r]
        /\ UNCHANGED siteBox
     \/ /\ CreateHost(r, siteReq[r].domain, FALSE) /\ SiteGo(r, "done")
        /\ siteBox' = IF siteReq[r].kind = "fpm" THEN siteBox ELSE [siteBox EXCEPT ![SiteSlug(r)] = NoOne]
  /\ UNCHANGED <<phpVars, siteUnsure>>

\* A row of the name refuses the insert: host and container are taken back.
InsertSite(r) ==
  /\ SiteAt(r, "row")
  /\ IF phpSite[siteReq[r].name].there
     THEN SiteGo(r, "unhost") /\ UNCHANGED phpSite
     ELSE /\ phpSite' = [phpSite EXCEPT ![siteReq[r].name] =
               [there |-> TRUE, kind |-> siteReq[r].kind, domain |-> siteReq[r].domain, host |-> siteReq[r].host]]
          /\ SiteGo(r, "done")
  /\ UNCHANGED <<phpRow, phpDir, phpCont, phpReq, phpUnsure, siteHost, siteBox, siteUnsure>>

UndoSite(r) ==
  /\ SiteAt(r, "unhost") /\ DeleteHost(siteReq[r].host)
  /\ siteBox' = IF siteReq[r].kind = "fpm" THEN siteBox ELSE [siteBox EXCEPT ![SiteSlug(r)] = NoOne]
  /\ SiteGo(r, "done")
  /\ UNCHANGED <<phpVars, siteUnsure>>

-----------------------------------------------------------------------------
(* Deletion and update: the row is read first.                             *)

\* A container that does not go down keeps the site; one that does may be another site's of the slug.
DeleteSite(r) ==
  /\ \E n \in PhpNames :
       LET site == phpSite[n]  s == PhpSlugOf[n] IN
       /\ site.there
       /\ \/ /\ site.kind = "fpm" /\ UNCHANGED siteBox
             /\ SiteBegin(r, "unserve", n, site.kind, site.domain, site.host)
          \/ /\ site.kind = "franken" /\ siteBox' = [siteBox EXCEPT ![s] = NoOne]
             /\ SiteBeginIn(r, "unserve", n, site.kind, site.domain, site.host, {siteBox[s]} \ {n, NoOne})
  /\ UNCHANGED <<phpVars, siteHost>>

\* Then the host, then the row.
UnserveSite(r) ==
  /\ SiteAt(r, "unserve") /\ DeleteHost(siteReq[r].host) /\ SiteGo(r, "forget")
  /\ UNCHANGED <<phpVars, siteBox, siteUnsure>>

ForgetSite(r) ==
  /\ SiteAt(r, "forget") /\ SiteGo(r, "done")
  /\ phpSite' = [phpSite EXCEPT ![siteReq[r].name] = NoPhpSite]
  /\ UNCHANGED <<phpRow, phpDir, phpCont, phpReq, phpUnsure, siteHost, siteBox, siteUnsure>>

\* A new domain: the whole row is saved, which inserts one that is gone, then the host.
UpdateSite(r) ==
  /\ \E n \in PhpNames, d \in Domains :
       /\ phpSite[n].there /\ d # phpSite[n].domain
       /\ phpSite' = [phpSite EXCEPT ![n].domain = d]
       /\ SiteBegin(r, "sync", n, phpSite[n].kind, d, phpSite[n].host)
  /\ UNCHANGED <<phpRow, phpDir, phpCont, phpReq, phpUnsure, siteHost, siteBox>>

SyncNothing(r) ==
  /\ SiteAt(r, "sync") /\ SiteGo(r, "done")
  /\ UNCHANGED <<phpVars, siteHost, siteBox, siteUnsure>>

\* UpdateHost refuses a domain that another host has: the row keeps it all the same.
SyncSite(r) ==
  /\ SiteAt(r, "sync") /\ SiteGo(r, "done")
  /\ LET h == siteReq[r].host IN
     IF h # NoOne /\ siteHost[h] # NoOne /\ FreeDomain(siteReq[r].domain)
     THEN siteHost' = [siteHost EXCEPT ![h] = siteReq[r].domain] /\ UNCHANGED siteUnsure
     ELSE UNCHANGED siteHost /\ siteUnsure' = siteUnsure \cup {siteReq[r].name}
  /\ UNCHANGED <<phpVars, siteBox>>

\* The panel dies in the middle of requests.
SitePanelDies ==
  /\ SitesAtWork # {}
  /\ siteUnsure' = siteUnsure \cup UNION {SameSlug(n) : n \in SitesAtWork}
  /\ siteReq' = [r \in SiteReqs |-> SiteRest]
  /\ UNCHANGED <<phpVars, siteHost, siteBox>>

-----------------------------------------------------------------------------
(* What a runtime's deletion means for the sites that are being created.   *)

DeletesRuntime == phpRow.there /\ phpCont' = "none" /\ phpReq' # phpReq

RuntimeMoves ==
  /\ \E r \in PhpReqs : RuntimeRequest(r)
  /\ siteUnsure' = siteUnsure \cup
       {n \in PhpNames : \E q \in SiteReqs : siteReq[q].name = n /\ siteReq[q].kind = "fpm" /\ DeletesRuntime}
  /\ UNCHANGED <<siteHost, siteBox, siteReq>>

SiteNext ==
  \/ RuntimeMoves
  \/ SitePanelDies
  \/ \E r \in SiteReqs :
       \/ CreateSite(r) \/ StartFranken(r) \/ CreateSiteHost(r) \/ InsertSite(r) \/ UndoSite(r)
       \/ DeleteSite(r) \/ UnserveSite(r) \/ ForgetSite(r) \/ UpdateSite(r) \/ SyncSite(r)

SiteSpec == SiteInit /\ [][SiteNext]_siteVars

-----------------------------------------------------------------------------

\* A site that the panel lists is served: its host has its domain and is nobody else's, the
\* runtime it uses has a row, and the directory and the container of its slug are its own.
\* Excepted are sites that two requests have met, or the deletion of the runtime, sites
\* whose slug another name has taken, whose new domain the panel has refused, or whose
\* request the panel's death has cut short.
SitesServed ==
  \A n \in PhpNames :
    phpSite[n].there /\ n \notin siteUnsure \cup SitesAtWork =>
      /\ phpSite[n].host # NoOne /\ siteHost[phpSite[n].host] = phpSite[n].domain
      /\ \A m \in PhpNames \ {n} : phpSite[m].there => phpSite[m].host # phpSite[n].host
      /\ IF phpSite[n].kind = "fpm" THEN phpRow.there ELSE siteBox[PhpSlugOf[n]] = n
=============================================================================
