-------------------------------- MODULE Catalog --------------------------------
(***************************************************************************)
(* What hosts refer to: groups, tags, DNS providers and managed            *)
(* certificates (internal/service/group.go and tag.go, internal/handler/   *)
(* dns_provider.go and certificate.go, and the parts of service/host.go    *)
(* that write the references).                                             *)
(*                                                                         *)
(* Ids are not used again.  The pragma that has foreign keys checked is    *)
(* set on the first connection of the pool: whether a statement is checked *)
(* depends on the connection it gets.  Only a host's group is such a key.  *)
(* A form offers what is there when it is opened, and is sent later.       *)
(***************************************************************************)
EXTENDS Naturals, FiniteSets

CONSTANTS CatHosts, CatGroups, CatTags, Providers, CatCerts, CatReqs, CertDirs, Presets, Customs

VARIABLES
  catHost,    \* the hosts' rows: there, group, dns, cert (ids, or none)
  hostTags,   \* host_tags: <<host, tag>>
  catRows,    \* the other rows that are there: groups, tags, providers
  catUsed,    \* ids given so far
  catDefault, \* the providers whose is_default is true
  catCert,    \* the certificates' rows: the directory of their files, or none
  catFiles,   \* directory -> the files in it: <<certificate, "cert" or "key">>
  catExport,  \* the hosts and their tags as last exported
  templates,  \* the templates' rows
  seeding,    \* the presets that SeedPresets has yet to insert; {} when requests are served
  seedTorn,   \* the panel died in SeedPresets, or an insert failed
  catReq,     \* the requests: step, subject, and the row as it will be saved
  catMet,     \* two requests have met, or the panel died in one
  catOld      \* an import brought back references to rows deleted since the export

tplVars == <<templates, seeding, seedTorn>>
catVars == <<catHost, hostTags, catRows, catUsed, catDefault, catCert, catFiles, catExport, tplVars, catReq, catMet, catOld>>
catHostVars == <<catHost, hostTags>>
catCertVars == <<catCert, catFiles>>

NoRef == "none"
NoHostRow == [there |-> FALSE, group |-> NoRef, dns |-> NoRef, cert |-> NoRef]
CatIdle == [step |-> "done", x |-> NoRef, row |-> NoHostRow, tags |-> {}, flag |-> FALSE]
NoExport == [hosts |-> [h \in CatHosts |-> NoHostRow], tags |-> {}]

HostRow == [there : BOOLEAN, group : CatGroups \cup {NoRef}, dns : Providers \cup {NoRef}, cert : CatCerts \cup {NoRef}]
CatIds == CatGroups \cup CatTags \cup Providers

\* The rows of different tables are told apart, and from no row; no directory is called like none.
ASSUME CatalogAssumption ==
  /\ CatGroups \cap CatTags = {} /\ CatGroups \cap Providers = {} /\ CatTags \cap Providers = {}
  /\ NoRef \notin CatIds \cup CertDirs

CatTypeOK ==
  /\ catHost \in [CatHosts -> HostRow] /\ hostTags \subseteq CatHosts \X CatTags
  /\ catRows \subseteq CatIds /\ catUsed \subseteq CatIds \cup CatHosts \cup CatCerts
  /\ catDefault \subseteq Providers /\ catCert \in [CatCerts -> CertDirs \cup {NoRef}]
  /\ \A d \in CertDirs : catFiles[d] \subseteq CatCerts \X {"cert", "key"}
  /\ \A r \in CatReqs : catReq[r].row \in HostRow /\ catReq[r].tags \subseteq CatTags /\ catReq[r].flag \in BOOLEAN
  /\ templates \subseteq Presets \cup Customs /\ seeding \subseteq Presets
  /\ catMet \in BOOLEAN /\ catOld \in BOOLEAN /\ seedTorn \in BOOLEAN

CatInit ==
  /\ catHost = [h \in CatHosts |-> NoHostRow] /\ hostTags = {}
  /\ catRows = {} /\ catUsed = {} /\ catDefault = {}
  /\ catCert = [c \in CatCerts |-> NoRef] /\ catFiles = [d \in CertDirs |-> {}]
  /\ catExport = NoExport
  /\ templates = {} /\ seeding = Presets /\ seedTorn = FALSE
  /\ catReq = [r \in CatReqs |-> CatIdle] /\ catMet = FALSE /\ catOld = FALSE

\* The id of a row that is there, or one for a row that a request is about to insert.
Ours(x, there) == IF there THEN x \in catUsed ELSE x \notin catUsed /\ \A r \in CatReqs : catReq[r].x # x

CatAt(r, step) == catReq[r].step = step
CatBusy == \E r \in CatReqs : ~CatAt(r, "done")

Begin(r, step, x, row, tags, flag) ==
  /\ CatAt(r, "done")
  /\ catReq' = [catReq EXCEPT ![r] = [step |-> step, x |-> x, row |-> row, tags |-> tags, flag |-> flag]]
  /\ catMet' = (catMet \/ CatBusy)

Step(r, step) == catReq' = [catReq EXCEPT ![r].step = step] /\ UNCHANGED catMet
Done(r) == catReq' = [catReq EXCEPT ![r] = CatIdle] /\ UNCHANGED catMet

\* A request that is over in one statement.
AtOnce(r) == CatAt(r, "done") /\ catMet' = (catMet \/ CatBusy) /\ UNCHANGED catReq

-----------------------------------------------------------------------------
(* Groups and tags: names are unique in the table, so creating is one step. *)

CreateRow(r, id) ==
  /\ id \in (CatGroups \cup CatTags) \ catUsed
  /\ AtOnce(r)
  /\ catRows' = catRows \cup {id} /\ catUsed' = catUsed \cup {id}
  /\ UNCHANGED <<catHostVars, catDefault, catCertVars, catExport, tplVars, catOld>>

\* Delete: the references go first, then the row.
DeleteGroup(r, g) ==
  /\ g \in catRows \cap CatGroups
  /\ Begin(r, "group", g, NoHostRow, {}, FALSE)
  /\ catHost' = [h \in CatHosts |-> IF catHost[h].group = g THEN [catHost[h] EXCEPT !.group = NoRef] ELSE catHost[h]]
  /\ UNCHANGED <<hostTags, catRows, catUsed, catDefault, catCertVars, catExport, tplVars, catOld>>

KeepReferences(r, t) ==
  /\ t \in catRows \cap CatTags
  /\ Begin(r, "tag", t, NoHostRow, {}, FALSE)
  /\ UNCHANGED <<catHostVars, catRows, catUsed, catDefault, catCertVars, catExport, tplVars, catOld>>

DeleteTag(r, t) ==
  /\ t \in catRows \cap CatTags
  /\ Begin(r, "tag", t, NoHostRow, {}, FALSE)
  /\ hostTags' = {p \in hostTags : p[2] # t}
  /\ UNCHANGED <<catHost, catRows, catUsed, catDefault, catCertVars, catExport, tplVars, catOld>>

\* A checked connection refuses to delete a group that a host refers to.
RemoveRow(r) ==
  /\ CatAt(r, "group") \/ CatAt(r, "tag")
  /\ Done(r)
  /\ \/ catRows' = catRows \ {catReq[r].x}
     \/ (\E h \in CatHosts : catHost[h].group = catReq[r].x) /\ UNCHANGED catRows
  /\ UNCHANGED <<catHostVars, catUsed, catDefault, catCertVars, catExport, tplVars, catOld>>

-----------------------------------------------------------------------------
(* Hosts.                                                                  *)

\* The form of a new host, or of one that is there, with what can be chosen now. The form has a
\* certificate, but the request's type has no such field: Update keeps that of the row it has read.
OpenForm(r, h) ==
  /\ Ours(h, catHost[h].there)
  /\ \E g \in (catRows \cap CatGroups) \cup {NoRef}, d \in (catRows \cap Providers) \cup {NoRef},
        tags \in SUBSET (catRows \cap CatTags) :
       Begin(r, "host", h, [there |-> TRUE, group |-> g, dns |-> d, cert |-> catHost[h].cert], tags, FALSE)
  /\ UNCHANGED <<catHostVars, catRows, catUsed, catDefault, catCertVars, catExport, tplVars, catOld>>

\* Create or Save the row; a checked connection refuses a group that is not there.
SaveHost(r) ==
  LET h == catReq[r].x  row == catReq[r].row IN
  /\ CatAt(r, "host")
  /\ \/ /\ Step(r, "tags")
        /\ catHost' = [catHost EXCEPT ![h] = row] /\ catUsed' = catUsed \cup {h}
     \/ /\ row.group \notin catRows \cup {NoRef}
        /\ Done(r) /\ UNCHANGED <<catHost, catUsed>>
  /\ UNCHANGED <<hostTags, catRows, catDefault, catCertVars, catExport, tplVars, catOld>>

\* Sync tag associations: all are replaced, whether the tags are there or not.
SyncTags(r) ==
  LET h == catReq[r].x IN
  /\ CatAt(r, "tags") /\ Done(r)
  /\ hostTags' = {p \in hostTags : p[1] # h} \cup ({h} \X catReq[r].tags)
  /\ UNCHANGED <<catHost, catRows, catUsed, catDefault, catCertVars, catExport, tplVars, catOld>>

\* The tags of a deleted host stay in host_tags.
DeleteCatHost(r, h) ==
  /\ catHost[h].there /\ AtOnce(r)
  /\ catHost' = [catHost EXCEPT ![h] = NoHostRow]
  /\ UNCHANGED <<hostTags, catRows, catUsed, catDefault, catCertVars, catExport, tplVars, catOld>>

\* CloneHost reads the source, then copies it with its tags in a transaction.
Clone(r, h) ==
  /\ catHost[h].there /\ \E n \in CatHosts : Ours(n, FALSE) /\
       Begin(r, "clone", n, catHost[h], {t \in CatTags : <<h, t>> \in hostTags}, FALSE)
  /\ UNCHANGED <<catHostVars, catRows, catUsed, catDefault, catCertVars, catExport, tplVars, catOld>>

InsertClone(r) ==
  LET n == catReq[r].x  row == catReq[r].row IN
  /\ CatAt(r, "clone") /\ Done(r)
  /\ \/ /\ n \notin catUsed /\ catUsed' = catUsed \cup {n}
        /\ catHost' = [catHost EXCEPT ![n] = row]
        /\ hostTags' = hostTags \cup ({n} \X catReq[r].tags)
     \/ UNCHANGED <<catHostVars, catUsed>>
  /\ UNCHANGED <<catRows, catDefault, catCertVars, catExport, tplVars, catOld>>

\* ExportAll. Only an exported file can name a managed certificate, when it is written into it.
Export(r) ==
  /\ AtOnce(r) /\ \E h \in CatHosts : catHost[h].there
  /\ \E c \in {c \in CatCerts : catCert[c] # NoRef} \cup {NoRef} :
       catExport' = [hosts |-> [h \in CatHosts |-> IF catHost[h].there THEN [catHost[h] EXCEPT !.cert = IF c = NoRef THEN @ ELSE c] ELSE NoHostRow],
                     tags |-> {p \in hostTags : catHost[p[1]].there /\ p[2] \in catRows}]
  /\ UNCHANGED <<catHostVars, catRows, catUsed, catDefault, catCertVars, tplVars, catOld>>

\* A host's row refers to a row that is not there; tags are looked up by name.
StaleRow(row) ==
  \/ row.group \notin catRows \cup {NoRef}
  \/ row.dns \notin catRows \cup {NoRef}
  \/ row.cert # NoRef /\ catCert[row.cert] = NoRef

\* ImportAll: one transaction replaces all hosts (here each takes its old id again). A tag that is not there is made again; groups,
\* providers and certificates are taken as they are, unless the connection checks the group.
Import(r) ==
  LET E == catExport.hosts IN
  /\ catExport # NoExport /\ AtOnce(r)
  /\ catHost' = E /\ hostTags' = catExport.tags
  /\ catRows' = catRows \cup {p[2] : p \in catExport.tags}
  /\ catOld' = (catOld \/ \E h \in CatHosts : E[h].there /\ StaleRow(E[h]))
  /\ UNCHANGED <<catUsed, catDefault, catCertVars, catExport, tplVars>>

-----------------------------------------------------------------------------
(* DNS providers.                                                          *)

KeepOthers(r, p, flag) ==
  /\ Ours(p, p \in catRows)
  /\ Begin(r, "provider", p, NoHostRow, {}, flag)
  /\ UNCHANGED <<catHostVars, catRows, catUsed, catDefault, catCertVars, catExport, tplVars, catOld>>

\* A new default first takes the flag from all others; the row, or the row as it was read
\* before, is saved after that. Save inserts a row that has gone meanwhile.
UnsetDefault(r, p, flag) ==
  /\ Ours(p, p \in catRows)
  /\ Begin(r, "provider", p, NoHostRow, {}, flag)
  /\ catDefault' = IF flag THEN {} ELSE catDefault
  /\ UNCHANGED <<catHostVars, catRows, catUsed, catCertVars, catExport, tplVars, catOld>>

SaveProvider(r) ==
  LET p == catReq[r].x IN
  /\ CatAt(r, "provider") /\ Done(r)
  /\ \/ /\ catRows' = catRows \cup {p} /\ catUsed' = catUsed \cup {p}
        /\ catDefault' = IF catReq[r].flag THEN catDefault \cup {p} ELSE catDefault \ {p}
     \/ UNCHANGED <<catRows, catUsed, catDefault>>
  /\ UNCHANGED <<catHostVars, catCertVars, catExport, tplVars, catOld>>

\* Hosts are counted, then the row is deleted.
CountHosts(r, p) ==
  /\ p \in catRows \cap Providers /\ \A h \in CatHosts : catHost[h].dns # p
  /\ Begin(r, "unprovide", p, NoHostRow, {}, FALSE)
  /\ UNCHANGED <<catHostVars, catRows, catUsed, catDefault, catCertVars, catExport, tplVars, catOld>>

DeleteProvider(r) ==
  /\ CatAt(r, "unprovide") /\ Done(r)
  /\ catRows' = catRows \ {catReq[r].x} /\ catDefault' = catDefault \ {catReq[r].x}
  /\ UNCHANGED <<catHostVars, catUsed, catCertVars, catExport, tplVars, catOld>>

-----------------------------------------------------------------------------
(* Managed certificates.                                                   *)

\* Upload: a directory named by the millisecond, the two files, then the row. An upload that
\* fails leaves its files.
WriteCert(r, c, d) ==
  /\ c \notin catUsed /\ \A b \in CatCerts : catCert[b] # d
  /\ Begin(r, "key", c, NoHostRow, {}, FALSE)
  /\ catUsed' = catUsed \cup {c}
  /\ catFiles' = [catFiles EXCEPT ![d] = {f \in @ : f[2] # "cert"} \cup {<<c, "cert">>}]
  /\ UNCHANGED <<catHostVars, catRows, catDefault, catCert, catExport, tplVars, catOld>>

DirOf(c) == CHOOSE d \in CertDirs : <<c, "cert">> \in catFiles[d]

WriteKey(r) ==
  LET c == catReq[r].x IN
  /\ CatAt(r, "key")
  /\ \/ /\ Step(r, "row") /\ \E d \in CertDirs : <<c, "cert">> \in catFiles[d]
        /\ catFiles' = [catFiles EXCEPT ![DirOf(c)] = {f \in @ : f[2] # "key"} \cup {<<c, "key">>}]
     \/ Done(r) /\ UNCHANGED catFiles
  /\ UNCHANGED <<catHostVars, catRows, catUsed, catDefault, catCert, catExport, tplVars, catOld>>

InsertCert(r) ==
  LET c == catReq[r].x IN
  /\ CatAt(r, "row") /\ Done(r)
  /\ \/ /\ \E d \in CertDirs : <<c, "cert">> \in catFiles[d]
        /\ catCert' = [catCert EXCEPT ![c] = DirOf(c)]
     \/ UNCHANGED catCert
  /\ UNCHANGED <<catHostVars, catRows, catUsed, catDefault, catFiles, catExport, tplVars, catOld>>

RemoveUnused(r, c) ==
  /\ catCert[c] # NoRef /\ Begin(r, "uncert", c, NoHostRow, {}, FALSE)
  /\ catFiles' = [catFiles EXCEPT ![catCert[c]] = {}]
  /\ UNCHANGED <<catHostVars, catRows, catUsed, catDefault, catCert, catExport, tplVars, catOld>>

\* Delete: no host may use it; the files go first, then the row.
RemoveFiles(r, c) ==
  /\ \A h \in CatHosts : catHost[h].cert # c
  /\ RemoveUnused(r, c)

DeleteCert(r) ==
  /\ CatAt(r, "uncert") /\ Done(r)
  /\ catCert' = [catCert EXCEPT ![catReq[r].x] = NoRef]
  /\ UNCHANGED <<catHostVars, catRows, catUsed, catDefault, catFiles, catExport, tplVars, catOld>>

-----------------------------------------------------------------------------
(* Templates.                                                              *)

\* SeedPresets, before requests are served: when there is no template at all, the presets are
\* inserted one by one; a failed insert is logged.
SeedPreset ==
  /\ \E t \in seeding :
       /\ seeding' = seeding \ {t}
       /\ \/ templates' = templates \cup {t} /\ UNCHANGED seedTorn
          \/ seedTorn' = TRUE /\ UNCHANGED templates
  /\ UNCHANGED <<catHostVars, catRows, catUsed, catDefault, catCertVars, catExport, catReq, catMet, catOld>>

\* Create: always a custom template, whose names need not differ.
CreateTemplate(r, t) ==
  /\ t \in Customs \ templates /\ AtOnce(r)
  /\ templates' = templates \cup {t}
  /\ UNCHANGED <<catHostVars, catRows, catUsed, catDefault, catCertVars, catExport, seeding, seedTorn, catOld>>

\* SaveAsTemplate, of a host that is there; ImportTemplate: an exported preset comes back as a custom one.
SaveAsTemplate(r, t) == (\E h \in CatHosts : catHost[h].there) /\ CreateTemplate(r, t)
ImportTemplate(r, t) == templates # {} /\ CreateTemplate(r, t)

\* What a template keeps of a host, and a host made from it has: none of the references.
TemplateConfig == [NoHostRow EXCEPT !.there = TRUE]

DeleteAnyTemplate(r, t) ==
  /\ t \in templates /\ AtOnce(r)
  /\ templates' = templates \ {t}
  /\ UNCHANGED <<catHostVars, catRows, catUsed, catDefault, catCertVars, catExport, seeding, seedTorn, catOld>>

\* A preset cannot be deleted.
DeleteTemplate(r, t) == t \notin Presets /\ DeleteAnyTemplate(r, t)

\* The template is read, and the host inserted with what it holds.
FromTemplate(r, h) ==
  /\ templates # {} /\ Ours(h, FALSE) /\ AtOnce(r)
  /\ catHost' = [catHost EXCEPT ![h] = TemplateConfig] /\ catUsed' = catUsed \cup {h}
  /\ UNCHANGED <<hostTags, catRows, catDefault, catCertVars, catExport, tplVars, catOld>>

-----------------------------------------------------------------------------
\* The panel starts again; it looks whether there are templates.
CatPanelDies ==
  /\ CatBusy \/ seeding # {}
  /\ catMet' = (catMet \/ CatBusy) /\ seedTorn' = (seedTorn \/ (templates # {} /\ seeding # {}))
  /\ seeding' = IF templates = {} THEN Presets ELSE {}
  /\ catReq' = [r \in CatReqs |-> CatIdle]
  /\ UNCHANGED <<catHostVars, catRows, catUsed, catDefault, catCertVars, catExport, templates, catOld>>

CatRequest(r) ==
  \/ \E id \in CatGroups \cup CatTags : CreateRow(r, id)
  \/ \E g \in CatGroups : DeleteGroup(r, g)
  \/ \E t \in CatTags : DeleteTag(r, t)
  \/ RemoveRow(r)
  \/ \E h \in CatHosts : OpenForm(r, h) \/ DeleteCatHost(r, h) \/ Clone(r, h)
  \/ SaveHost(r) \/ SyncTags(r) \/ InsertClone(r) \/ Export(r) \/ Import(r)
  \/ \E p \in Providers, flag \in BOOLEAN : UnsetDefault(r, p, flag)
  \/ \E p \in Providers : CountHosts(r, p)
  \/ SaveProvider(r) \/ DeleteProvider(r)
  \/ \E c \in CatCerts, d \in CertDirs : WriteCert(r, c, d)
  \/ \E c \in CatCerts : RemoveFiles(r, c)
  \/ WriteKey(r) \/ InsertCert(r) \/ DeleteCert(r)
  \/ \E t \in Customs : CreateTemplate(r, t) \/ SaveAsTemplate(r, t) \/ ImportTemplate(r, t)
  \/ \E t \in Presets \cup Customs : DeleteTemplate(r, t)
  \/ \E h \in CatHosts : FromTemplate(r, h)

CatNext == CatPanelDies \/ SeedPreset \/ (seeding = {} /\ \E r \in CatReqs : CatRequest(r))

CatSpec == CatInit /\ [][CatNext]_catVars

-----------------------------------------------------------------------------
\* Unless two requests met or the panel died in one, at most one provider is the default; and
\* unless also an import was older than a deletion, a host refers to rows that are there, and
\* the files of its managed certificate are the ones that were uploaded for it. When requests are
\* served all presets are there, unless their first insertion was torn.
CatalogSound ==
  /\ seeding = {} /\ ~seedTorn => Presets \subseteq templates
  /\ ~catMet => Cardinality(catDefault) <= 1
  /\ (~catMet /\ ~catOld) =>
       \A h \in CatHosts : catHost[h].there =>
         /\ catHost[h].group \in catRows \cup {NoRef} /\ catHost[h].dns \in catRows \cup {NoRef}
         /\ \A t \in CatTags : <<h, t>> \in hostTags => t \in catRows
         /\ catHost[h].cert # NoRef => {catHost[h].cert} \X {"cert", "key"} \subseteq catFiles[catCert[catHost[h].cert]]
=============================================================================
