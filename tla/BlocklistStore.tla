--------------------------- MODULE BlocklistStore ---------------------------
(***************************************************************************)
(* The blocklist tables and everybody who writes them: the dataplane's     *)
(* periodic refresh (refreshBlocklists, blocklist.Engine.UpdateSource),    *)
(* the control plane's admin handlers and the background refreshes they    *)
(* start, the configuration import and the first-run setup, and the        *)
(* offline bundle seeded when the dataplane starts.                        *)
(* Each repository call is one transaction; nothing else is atomic, and a  *)
(* refresh writes back the whole source row it read before its download.   *)
(*                                                                         *)
(* A downloaded list is a batch: the address it came from and the version  *)
(* of its content. The ETag of a version is the version, 0 is no ETag. An  *)
(* address stands for the URL and the format of a source together.         *)
(***************************************************************************)
EXTENDS Naturals, FiniteSets

CONSTANTS
  Sources,        \* source ids an administrator manages
  Bundled,        \* id of the embedded offline bundle
  Dataplane,      \* the dataplane's refresh goroutine
  Background,     \* background refreshes of the control plane
  MaxVersion,     \* bound: versions a remote list goes through
  MaxAdmin        \* bound: admin requests during a behaviour

ASSUME BlocklistAssumption ==
  /\ Bundled \notin Sources /\ Dataplane \notin Background
  /\ MaxVersion \in Nat \ {0} /\ MaxAdmin \in Nat

Ids   == Sources \cup {Bundled}
Tasks == Background \cup {Dataplane}
Urls  == {"url1", "url2"}             \* http:// or https:// addresses
Embedded == "embedded"                \* the bundle's empty address
NoTag == 0

NoRow == [exists |-> FALSE, enabled |-> FALSE, url |-> Embedded, etag |-> NoTag]
Rows  == [exists : BOOLEAN, enabled : BOOLEAN, url : Urls \cup {Embedded},
          etag : 0 .. MaxVersion]
Batch(url, ver) == [url |-> url, ver |-> ver]
Batches == [url : Urls \cup {Embedded}, ver : 0 .. MaxVersion]

VARIABLES
  row,       \* row[s]: BlocklistSource
  batches,   \* batches[s]: snapshots of s whose entries are in the table
  remote,    \* version the remote lists have now
  listed,    \* listed[s]: copy of the row in the dataplane's ListSources result
  pc,        \* pc[t]: "idle", "fetch" or "save"
  src,       \* src[t]: source the refresh t works on
  copy,      \* copy[t]: its copy of the row
  got,       \* got[t]: version it downloaded
  admin,     \* admin handler: "idle", "save" or "clear" (inside UpdateBlocklist)
  asrc,      \* its source
  arow,      \* its copy of the row, edited
  aold,      \* the row as it read it
  requests,  \* admin requests so far
  wanted,    \* history, wanted[s]: "disabled" or "deleted" if the last admin
             \* request on s did just that and no step of it failed, else "kept"
  calm,      \* history, calm[s]: no refresh of s overlapped an admin request
  imported,  \* history: sources an import switched on or re-addressed, or
             \* switched off, and no other request has edited since
  loaded,    \* history: some snapshot has been stored
  reseeded   \* history: the bundle was stored although loaded

tableVars == <<row, batches>>
taskVars  == <<pc, src, copy, got>>
adminVars == <<admin, asrc, arow, aold, requests>>
histVars  == <<wanted, calm, imported, loaded, reseeded>>
vars      == <<tableVars, remote, listed, taskVars, adminVars, histVars>>

(* Some refresh holds a copy of the row of s. *)
CopyHeld(s) ==
  listed[s].exists \/ \E t \in Tasks : pc[t] # "idle" /\ src[t] = s

(* A new installation: no sources, and the bundle not seeded yet. *)
Init ==
  /\ row = [s \in Ids |-> NoRow]
  /\ batches = [s \in Ids |-> {}]
  /\ remote = 1
  /\ listed = [s \in Ids |-> NoRow]
  /\ pc = [t \in Tasks |-> "idle"]
  /\ src = [t \in Tasks |-> Bundled]
  /\ copy = [t \in Tasks |-> NoRow]
  /\ got = [t \in Tasks |-> NoTag]
  /\ admin = "idle" /\ asrc = Bundled /\ arow = NoRow /\ aold = NoRow
  /\ requests = 0
  /\ wanted = [s \in Ids |-> "kept"]
  /\ calm = [s \in Ids |-> TRUE]
  /\ imported = {}
  /\ loaded = FALSE
  /\ reseeded = FALSE

-----------------------------------------------------------------------------
(* A goroutine enters Engine.UpdateSource with the row copy r. *)
StartRefresh(t, s, r) ==
  /\ pc' = [pc EXCEPT ![t] = "fetch"]
  /\ src' = [src EXCEPT ![t] = s]
  /\ copy' = [copy EXCEPT ![t] = r]
  /\ got' = [got EXCEPT ![t] = NoTag]

EndRefresh(t) ==
  /\ pc' = [pc EXCEPT ![t] = "idle"]
  /\ src' = [src EXCEPT ![t] = Bundled]
  /\ copy' = [copy EXCEPT ![t] = NoRow]
  /\ got' = [got EXCEPT ![t] = NoTag]

(* UpdateSource after the download: the source's entries after a 200. The
   earlier snapshots' entries stay. *)
Stored(t) == batches[src[t]] \cup {Batch(copy[t].url, got[t])}

(* refreshBlocklists: read all rows; the disabled ones are skipped. *)
ListSources ==
  /\ pc[Dataplane] = "idle" /\ \A s \in Ids : ~listed[s].exists
  /\ \E s \in Ids : row[s].enabled
  /\ listed' = [s \in Ids |-> IF row[s].enabled THEN row[s] ELSE NoRow]
  /\ calm' = [s \in Ids |-> calm[s] /\ ~(row[s].enabled /\ admin # "idle" /\ asrc = s)]
  /\ UNCHANGED <<tableVars, remote, taskVars, adminVars, wanted, imported, loaded, reseeded>>

(* The loop's next source. *)
RefreshNext(s) ==
  /\ pc[Dataplane] = "idle" /\ listed[s].exists
  /\ StartRefresh(Dataplane, s, listed[s])
  /\ listed' = [listed EXCEPT ![s] = NoRow]
  /\ UNCHANGED <<tableVars, remote, adminVars, histVars>>

(* fetcher.Fetch: 304 when the ETag still matches, and errors (always, for the
   bundle's empty address), end the refresh with nothing written; so does a
   parse error. *)
NotModified(t) == copy[t].etag = remote

Fetch(t) ==
  /\ pc[t] = "fetch"
  /\ \/ ~NotModified(t) /\ copy[t].url \in Urls /\ pc' = [pc EXCEPT ![t] = "save"]
        /\ got' = [got EXCEPT ![t] = remote] /\ UNCHANGED <<src, copy>>
     \/ EndRefresh(t)
  /\ UNCHANGED <<tableVars, remote, listed, adminVars, histVars>>

(* SaveSnapshotWithEntries: one transaction that appends the entries and saves
   the whole row copy with its new ETag, inserting the row if it is gone. *)
SaveSnapshot(t) ==
  /\ pc[t] = "save"
  /\ batches' = [batches EXCEPT ![src[t]] = Stored(t)]
  /\ row' = [row EXCEPT ![src[t]] = [copy[t] EXCEPT !.etag = got[t]]]
  /\ loaded' = TRUE
  /\ EndRefresh(t)
  /\ UNCHANGED <<remote, listed, adminVars, wanted, calm, imported, reseeded>>

(* The transaction is rolled back. *)
SaveErr(t) ==
  /\ pc[t] = "save"
  /\ EndRefresh(t)
  /\ UNCHANGED <<tableVars, remote, listed, adminVars, histVars>>

(* The publisher changes the lists. *)
RemoteChange ==
  /\ remote < MaxVersion
  /\ remote' = remote + 1
  /\ UNCHANGED <<tableVars, listed, taskVars, adminVars, histVars>>

-----------------------------------------------------------------------------
(* The check of isHTTPURL on the address a request carries. *)
RequestedUrls == Urls \cup {"noHTTP"}
IsHTTPURL(url) == url \in Urls

(* CreateBlocklist: a duplicate id is refused; the first download runs in the
   background and may outlive the request. *)
CreateBlocklist(s, t) ==
  /\ admin = "idle" /\ requests < MaxAdmin /\ pc[t] = "idle"
  /\ ~row[s].exists
  /\ \E url \in RequestedUrls :
       LET r == [exists |-> TRUE, enabled |-> TRUE, url |-> url, etag |-> NoTag]
       IN  IsHTTPURL(url) /\ row' = [row EXCEPT ![s] = r] /\ StartRefresh(t, s, r)
  /\ requests' = requests + 1
  /\ wanted' = [wanted EXCEPT ![s] = "kept"]
  /\ calm' = [calm EXCEPT ![s] = @ /\ ~CopyHeld(s)]
  /\ UNCHANGED <<batches, remote, listed, admin, asrc, arow, aold, imported, loaded, reseeded>>

(* Setup: each source chosen at the first run is created; its first download
   is left to the dataplane. A duplicate or a refused address is a warning. *)
SetupSource(s) ==
  /\ admin = "idle" /\ requests < MaxAdmin /\ ~row[s].exists
  /\ \E url \in Urls :
       row' = [row EXCEPT ![s] = [exists |-> TRUE, enabled |-> TRUE, url |-> url, etag |-> NoTag]]
  /\ requests' = requests + 1
  /\ wanted' = [wanted EXCEPT ![s] = "kept"]
  /\ calm' = [calm EXCEPT ![s] = @ /\ ~CopyHeld(s)]
  /\ UNCHANGED <<batches, remote, listed, taskVars, admin, asrc, arow, aold, imported,
                 loaded, reseeded>>

(* ImportConfig: the document's sources are upserted by id in one transaction.
   The columns of the document replace those of the row, the ETag is not one of
   them, and neither the entries nor a refresh are touched. *)
Upserted(old, enabled, url) ==
  [exists |-> TRUE, enabled |-> enabled, url |-> url, etag |-> old.etag]

ImportConfig(s) ==
  /\ admin = "idle" /\ requests < MaxAdmin
  /\ \E enabled \in BOOLEAN, url \in Urls :
       LET new == Upserted(row[s], enabled, url)
       IN  /\ row' = [row EXCEPT ![s] = new]
           /\ imported' = IF row[s].exists /\ new # row[s] THEN imported \cup {s} ELSE imported
  /\ requests' = requests + 1
  /\ wanted' = [wanted EXCEPT ![s] = "kept"]
  /\ calm' = [calm EXCEPT ![s] = @ /\ ~CopyHeld(s)]
  /\ UNCHANGED <<batches, remote, listed, taskVars, admin, asrc, arow, aold, loaded, reseeded>>

(* UpdateBlocklist: read the row and apply the requested edits to the copy. A
   source that is (re-)enabled or whose URL changed loses its ETag. A request
   need not carry an address. *)
NeedsRefresh(old, new) == new.enabled /\ (~old.enabled \/ old.url # new.url)

EditedTag_Kept(old, new) == old.etag
EditedTag(old, new) == IF NeedsRefresh(old, new) THEN NoTag ELSE old.etag

UpdateRead(s) ==
  /\ admin = "idle" /\ requests < MaxAdmin /\ row[s].exists
  /\ \E enabled \in BOOLEAN, url \in RequestedUrls \cup {row[s].url} :
       LET new == [row[s] EXCEPT !.enabled = enabled, !.url = url]
       IN  (url = row[s].url \/ IsHTTPURL(url)) /\ arow' = [new EXCEPT !.etag = EditedTag(row[s], new)]
  /\ aold' = row[s]
  /\ asrc' = s
  /\ admin' = "save"
  /\ requests' = requests + 1
  /\ wanted' = [wanted EXCEPT ![s] = "kept"]
  /\ calm' = [calm EXCEPT ![s] = @ /\ ~CopyHeld(s)]
  /\ UNCHANGED <<tableVars, remote, listed, taskVars, imported, loaded, reseeded>>

(* repo.UpdateSource: save the whole row. *)
UpdateSave ==
  /\ admin = "save"
  /\ row' = [row EXCEPT ![asrc] = arow]
  /\ admin' = "clear"
  /\ imported' = IF NeedsRefresh(aold, arow) THEN imported \ {asrc} ELSE imported
  /\ UNCHANGED <<batches, remote, listed, taskVars, asrc, arow, aold, requests,
                 wanted, calm, loaded, reseeded>>

(* The save fails: the request is answered with an error. *)
UpdateErr ==
  /\ admin = "save"
  /\ admin' = "idle" /\ asrc' = Bundled /\ arow' = NoRow /\ aold' = NoRow
  /\ UNCHANGED <<tableVars, remote, listed, taskVars, requests, histVars>>

(* A source that was just disabled, or needs a refresh, loses its entries. *)
Clears_OnlyRefresh(old, new) == NeedsRefresh(old, new)
Clears(old, new) == NeedsRefresh(old, new) \/ (old.enabled /\ ~new.enabled)

(* Reconcile the entries (DeleteEntriesBySource), start the refresh, answer. A
   failed delete is only logged. *)
UpdateClear(t) ==
  /\ admin = "clear" /\ pc[t] = "idle"
  /\ \/ /\ batches' = IF Clears(aold, arow) THEN [batches EXCEPT ![asrc] = {}] ELSE batches
        /\ wanted' = [wanted EXCEPT ![asrc] =
                        IF aold.enabled /\ ~arow.enabled THEN "disabled" ELSE "kept"]
     \/ Clears(aold, arow) /\ UNCHANGED <<batches, wanted>>
  /\ IF NeedsRefresh(aold, arow)
     THEN StartRefresh(t, asrc, arow)
     ELSE UNCHANGED taskVars
  /\ admin' = "idle" /\ asrc' = Bundled /\ arow' = NoRow /\ aold' = NoRow
  /\ UNCHANGED <<row, remote, listed, requests, calm, imported, loaded, reseeded>>

(* DeleteBlocklist: one transaction for the row, the entries, the snapshots. *)
Cascade_RowOnly(s) == batches[s]
Cascade(s) == {}

DeleteBlocklist(s) ==
  /\ admin = "idle" /\ requests < MaxAdmin /\ row[s].exists
  /\ row' = [row EXCEPT ![s] = NoRow]
  /\ batches' = [batches EXCEPT ![s] = Cascade(s)]
  /\ requests' = requests + 1
  /\ wanted' = [wanted EXCEPT ![s] = "deleted"]
  /\ calm' = [calm EXCEPT ![s] = @ /\ ~CopyHeld(s)]
  /\ imported' = imported \ {s}
  /\ UNCHANGED <<remote, listed, taskVars, admin, asrc, arow, aold, loaded, reseeded>>

(* The control plane dies: its handler and background refreshes are gone. *)
ControlplaneCrash ==
  /\ admin # "idle" \/ \E t \in Background : pc[t] # "idle"
  /\ pc' = [t \in Tasks |-> IF t \in Background THEN "idle" ELSE pc[t]]
  /\ src' = [t \in Tasks |-> IF t \in Background THEN Bundled ELSE src[t]]
  /\ copy' = [t \in Tasks |-> IF t \in Background THEN NoRow ELSE copy[t]]
  /\ got' = [t \in Tasks |-> IF t \in Background THEN NoTag ELSE got[t]]
  /\ admin' = "idle" /\ asrc' = Bundled /\ arow' = NoRow /\ aold' = NoRow
  /\ UNCHANGED <<tableVars, remote, listed, requests, histVars>>

(* The dataplane starts (again): bundle.SeedIfEmpty stores the embedded list
   under a disabled source when no snapshot is stored. *)
NoSnapshots == \A s \in Ids : batches[s] = {}

DataplaneStart ==
  /\ listed' = [s \in Ids |-> NoRow]
  /\ EndRefresh(Dataplane)
  /\ IF NoSnapshots
     THEN /\ row' = [row EXCEPT ![Bundled] = [NoRow EXCEPT !.exists = TRUE]]
          /\ batches' = [batches EXCEPT ![Bundled] = {Batch(Embedded, NoTag)}]
          /\ loaded' = TRUE
          /\ reseeded' = (reseeded \/ loaded)
     ELSE UNCHANGED <<row, batches, loaded, reseeded>>
  /\ UNCHANGED <<remote, adminVars, wanted, calm, imported>>

TaskStep(t) == Fetch(t) \/ SaveSnapshot(t) \/ SaveErr(t)

Next ==
  \/ ListSources
  \/ \E s \in Ids : RefreshNext(s)
  \/ \E t \in Tasks : TaskStep(t)
  \/ RemoteChange
  \/ \E s \in Sources, t \in Background : CreateBlocklist(s, t)
  \/ \E s \in Sources : SetupSource(s)
  \/ \E s \in Ids : ImportConfig(s) \/ UpdateRead(s) \/ DeleteBlocklist(s)
  \/ UpdateSave \/ UpdateErr
  \/ \E t \in Background : UpdateClear(t)
  \/ ControlplaneCrash
  \/ DataplaneStart

Spec == Init /\ [][Next]_vars

-----------------------------------------------------------------------------
(* Every variable has its type. *)
TypeOK ==
  /\ row \in [Ids -> Rows] /\ listed \in [Ids -> Rows]
  /\ batches \in [Ids -> SUBSET Batches]
  /\ remote \in 1 .. MaxVersion
  /\ pc \in [Tasks -> {"idle", "fetch", "save"}]
  /\ src \in [Tasks -> Ids] /\ copy \in [Tasks -> Rows]
  /\ got \in [Tasks -> 0 .. MaxVersion]
  /\ admin \in {"idle", "save", "clear"} /\ asrc \in Ids
  /\ arow \in Rows /\ aold \in Rows /\ requests \in 0 .. MaxAdmin
  /\ wanted \in [Ids -> {"kept", "disabled", "deleted"}]
  /\ calm \in [Ids -> BOOLEAN] /\ imported \subseteq Ids
  /\ loaded \in BOOLEAN /\ reseeded \in BOOLEAN

(* The entries the dataplane blocks on always belong to a source an
   administrator can see, and so can remove, however refreshes, edits, deletes
   and crashes interleave. *)
NoOrphanEntries == \A s \in Ids : batches[s] # {} => row[s].exists

Quiet(s) == calm[s] /\ ~(admin # "idle" /\ asrc = s)

(* Requests that no refresh overlapped and of which no step failed have the
   effect asked for: a deleted source is gone, a disabled one blocks nothing,
   and neither comes back with a later refresh, crash or restart. *)
AdminWishHolds ==
  \A s \in Sources : Quiet(s) =>
    /\ wanted[s] = "deleted" => ~row[s].exists
    /\ wanted[s] = "disabled" => ~row[s].enabled /\ batches[s] = {}

(* A conditional download may be answered 304 only if the content it stands
   for is in the table: an enabled source's ETag belongs to stored entries
   downloaded from its present address, unless an import edited its row. *)
TagHasEntries(s) ==
  row[s].enabled /\ row[s].etag # NoTag => Batch(row[s].url, row[s].etag) \in batches[s]
TagHasEntriesWhenQuiet ==
  \A s \in Sources : Quiet(s) /\ s \notin imported => TagHasEntries(s)

-----------------------------------------------------------------------------
(* What the comments promise and the code does not keep.                     *)

(* "the dataplane's live blocklist view stops matching those domains": a
   deleted source stays deleted. *)
DeletedStaysDeleted ==
  \A s \in Sources : wanted[s] = "deleted" => batches[s] = {}

(* "Disabled: drop its entries so the dataplane stops blocking them." *)
DisabledBlocksNothing ==
  \A s \in Sources :
    wanted[s] = "disabled" /\ ~(admin # "idle" /\ asrc = s) => batches[s] = {}

(* "Drop the stored ETag so the conditional fetch does not short-circuit with
   304": once its requests and refreshes are over, an enabled source is never
   left without the entries of its ETag, for the next download would be answered
   304. *)
TagAlwaysHasEntries ==
  \A s \in Sources :
    ~(admin # "idle" /\ asrc = s) /\ ~CopyHeld(s) => TagHasEntries(s)

(* ImportConfig "applies it": a source that was disabled and comes back with an
   imported document, or comes back with another address, has the entries its
   ETag stands for. Its row keeps the ETag of the entries that were dropped, and
   every later download is answered 304. *)
ImportedIsFetched == \A s \in Sources : Quiet(s) => TagHasEntries(s)

(* A source imported as disabled blocks nothing, as one an administrator
   disabled: the import leaves its entries in the table. *)
ImportedOffBlocksNothing ==
  \A s \in Sources : s \in imported /\ row[s].exists /\ ~row[s].enabled => batches[s] = {}

(* Entries are removed when a source is "re-fetched so the dataplane's live
   blocklist view [...] reflects the change immediately": what is blocked is
   one version of the list. *)
OneVersionBlocked == \A s \in Sources : Cardinality(batches[s]) <= 1

(* "a count of zero means no blocklist data has ever been loaded". *)
SeedsOnlyNewInstall == ~reseeded
=============================================================================
