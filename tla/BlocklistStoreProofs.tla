------------------------ MODULE BlocklistStoreProofs ------------------------
(***************************************************************************)
(* Safety of BlocklistStore for any number of sources, background          *)
(* refreshes, list versions and admin requests. The properties speak of    *)
(* the tables alone; the invariants below follow the copies of the rows    *)
(* that refreshes and admin requests carry from a read to a later write.   *)
(***************************************************************************)
EXTENDS BlocklistStore, TLAPS

-----------------------------------------------------------------------------
(* The copies: a row that is gone is the empty row, every copy somebody may
   write back is of a row that existed, and of an enabled one if a refresh
   holds it. An edited copy has the ETag that its edit calls for. *)
CopyInv ==
  /\ \A s \in Ids : row[s].exists \/ row[s] = NoRow
  /\ \A s \in Ids : listed[s].exists => listed[s].enabled
  /\ \A t \in Tasks : pc[t] # "idle" => copy[t].exists /\ copy[t].enabled
  /\ admin # "idle" => /\ arow.exists /\ aold.exists
                       /\ arow.etag = EditedTag(aold, arow)

(* Two versions of a row that differ in the ETag at most. *)
Same(r1, r2) == r1.exists = r2.exists /\ r1.enabled = r2.enabled /\ r1.url = r2.url

(* While no refresh of s overlaps a request on s: what a refresh writes back
   is the row but for its ETag, and a request finds the row as it read it. *)
CalmInv(s) ==
  /\ listed[s].exists => Same(listed[s], row[s])
  /\ \A t \in Tasks : pc[t] # "idle" /\ src[t] = s => Same(copy[t], row[s])
  /\ admin # "idle" /\ asrc = s =>
       /\ ~CopyHeld(s) /\ wanted[s] = "kept"
       /\ row[s] = IF admin = "save" THEN aold ELSE arow

(* What the last request asked for holds, also while the next one runs. *)
WishInv(s) ==
  /\ wanted[s] = "deleted" => ~row[s].exists
  /\ wanted[s] = "disabled" => ~row[s].enabled /\ batches[s] = {}

SourceInv(s) ==
  calm[s] => CalmInv(s) /\ WishInv(s) /\ (s \notin imported => TagHasEntries(s))

BlockInv ==
  TypeOK /\ CopyInv /\ NoOrphanEntries /\ \A s \in Sources : SourceInv(s)

-----------------------------------------------------------------------------
(* The row of a deleted or a missing source, and the seeded one. *)
LEMMA EmptyRow ==
  /\ NoRow \in Rows /\ ~NoRow.exists /\ ~NoRow.enabled /\ NoRow.etag = NoTag
  /\ [NoRow EXCEPT !.exists = TRUE] \in Rows
  /\ [NoRow EXCEPT !.exists = TRUE].exists /\ ~[NoRow EXCEPT !.exists = TRUE].enabled
<1>1. NoRow \in Rows /\ NoRow.exists = FALSE /\ NoRow.enabled = FALSE /\ NoRow.etag = NoTag
  BY BlocklistAssumption DEF NoRow, Rows, NoTag
<1>2. ASSUME NEW r \in Rows
      PROVE  /\ [r EXCEPT !.exists = TRUE] \in Rows /\ [r EXCEPT !.exists = TRUE].exists
             /\ [r EXCEPT !.exists = TRUE].enabled = r.enabled
  BY DEF Rows
<1>3. QED
  BY <1>1, <1>2

(* A row saved with another ETag is a row. *)
LEMMA TaggedRow ==
  ASSUME NEW r \in Rows, NEW v \in 0 .. MaxVersion
  PROVE  /\ [r EXCEPT !.etag = v] \in Rows
         /\ Same([r EXCEPT !.etag = v], r) /\ [r EXCEPT !.etag = v].etag = v
  BY DEF Rows, Same

(* A row that CreateBlocklist or Setup inserts. *)
LEMMA CreatedRow ==
  ASSUME NEW u \in Urls
  PROVE  [exists |-> TRUE, enabled |-> TRUE, url |-> u, etag |-> NoTag] \in Rows
  BY BlocklistAssumption DEF Rows, NoTag

(* A row that ImportConfig writes. *)
LEMMA UpsertedRow ==
  ASSUME NEW r \in Rows, NEW e \in BOOLEAN, NEW u \in Urls
  PROVE  /\ Upserted(r, e, u) \in Rows /\ Upserted(r, e, u).exists
         /\ Upserted(r, e, u).etag = r.etag
  BY DEF Rows, Upserted

(* The edited copy of UpdateBlocklist. *)
LEMMA EditedRow ==
  ASSUME NEW s \in Ids, TypeOK, UpdateRead(s)
  PROVE  /\ arow' \in Rows /\ arow'.exists = row[s].exists
         /\ arow'.etag = EditedTag(row[s], arow')
<1>1. PICK e \in BOOLEAN, u \in RequestedUrls \cup {row[s].url} :
        /\ u = row[s].url \/ IsHTTPURL(u)
        /\ arow' = [[row[s] EXCEPT !.enabled = e, !.url = u] EXCEPT !.etag =
                      EditedTag(row[s], [row[s] EXCEPT !.enabled = e, !.url = u])]
  BY DEF UpdateRead
<1> DEFINE new == [row[s] EXCEPT !.enabled = e, !.url = u]
<1>2. row[s] \in Rows
  BY DEF TypeOK
<1>3. new \in Rows /\ new.exists = row[s].exists
  BY <1>1, <1>2 DEF Rows, IsHTTPURL
<1>4. EditedTag(row[s], new) \in 0 .. MaxVersion
  BY <1>2, BlocklistAssumption DEF EditedTag, NoTag, Rows
<1>5. arow' = [new EXCEPT !.etag = EditedTag(row[s], new)]
  BY <1>1
<1> HIDE DEF new
<1>6. arow' \in Rows /\ Same(arow', new) /\ arow'.etag = EditedTag(row[s], new)
  BY <1>3, <1>4, <1>5, TaggedRow
<1>7. QED
  BY <1>3, <1>6 DEF EditedTag, NeedsRefresh, Same

(* Every transaction and every step of a refresh preserves the types. *)
LEMMA TypeStep == TypeOK /\ [Next]_vars => TypeOK'
<1> SUFFICES ASSUME TypeOK, [Next]_vars PROVE TypeOK'
  OBVIOUS
<1> USE BlocklistAssumption, EmptyRow DEF TypeOK, tableVars, taskVars, adminVars, histVars,
    StartRefresh, EndRefresh
<1>0. NoTag \in 0 .. MaxVersion /\ Bundled \in Ids /\ Sources \subseteq Ids
      /\ Background \subseteq Tasks /\ Dataplane \in Tasks
  BY DEF NoTag, Ids, Tasks
<1>1. CASE ListSources
  BY <1>0, <1>1 DEF ListSources
<1>2. ASSUME NEW s \in Ids, RefreshNext(s) PROVE TypeOK'
  BY <1>0, <1>2 DEF RefreshNext
<1>3. ASSUME NEW t \in Tasks, Fetch(t) PROVE TypeOK'
  BY <1>0, <1>3 DEF Fetch
<1>4. ASSUME NEW t \in Tasks, SaveSnapshot(t) PROVE TypeOK'
  <2>1. [copy[t] EXCEPT !.etag = got[t]] \in Rows
    BY TaggedRow
  <2>2. Stored(t) \in SUBSET Batches
    BY DEF Stored, Batch, Batches, Rows
  <2>3. row' \in [Ids -> Rows] /\ batches' \in [Ids -> SUBSET Batches]
    BY <1>4, <2>1, <2>2 DEF SaveSnapshot
  <2>4. QED
    BY <1>0, <1>4, <2>3 DEF SaveSnapshot
<1>5. ASSUME NEW t \in Tasks, SaveErr(t) PROVE TypeOK'
  BY <1>0, <1>5 DEF SaveErr
<1>6. CASE RemoteChange
  BY <1>6 DEF RemoteChange
<1>7. ASSUME NEW s \in Sources, NEW t \in Background, CreateBlocklist(s, t) PROVE TypeOK'
  <2>1. PICK u \in Urls :
          LET r == [exists |-> TRUE, enabled |-> TRUE, url |-> u, etag |-> NoTag]
          IN  row' = [row EXCEPT ![s] = r] /\ StartRefresh(t, s, r)
    BY <1>7 DEF CreateBlocklist, IsHTTPURL
  <2>2. row' \in [Ids -> Rows] /\ copy' \in [Tasks -> Rows]
    BY <1>0, <2>1, CreatedRow
  <2>3. calm' \in [Ids -> BOOLEAN] /\ wanted' \in [Ids -> {"kept", "disabled", "deleted"}]
    BY <1>7 DEF CreateBlocklist
  <2>4. requests' \in 0 .. MaxAdmin
    BY <1>7 DEF CreateBlocklist
  <2>5. /\ pc' \in [Tasks -> {"idle", "fetch", "save"}] /\ src' \in [Tasks -> Ids]
        /\ got' \in [Tasks -> 0 .. MaxVersion]
    BY <1>0, <2>1
  <2>6. QED
    BY <1>7, <2>2, <2>3, <2>4, <2>5 DEF CreateBlocklist
<1>8. ASSUME NEW s \in Sources, SetupSource(s) PROVE TypeOK'
  <2>1. row' \in [Ids -> Rows]
    BY <1>0, <1>8, CreatedRow DEF SetupSource
  <2>2. calm' \in [Ids -> BOOLEAN] /\ wanted' \in [Ids -> {"kept", "disabled", "deleted"}]
    BY <1>8 DEF SetupSource
  <2>3. requests' \in 0 .. MaxAdmin
    BY <1>8 DEF SetupSource
  <2>4. QED
    BY <1>8, <2>1, <2>2, <2>3 DEF SetupSource
<1>9. ASSUME NEW s \in Ids, ImportConfig(s) PROVE TypeOK'
  <2>1. row' \in [Ids -> Rows] /\ imported' \subseteq Ids
    <3>1. PICK e \in BOOLEAN, u \in Urls :
            /\ row' = [row EXCEPT ![s] = Upserted(row[s], e, u)]
            /\ imported' = imported \cup {s} \/ imported' = imported
      BY <1>9 DEF ImportConfig
    <3>2. Upserted(row[s], e, u) \in Rows
      BY UpsertedRow
    <3>3. QED
      BY <3>1, <3>2
  <2>2. calm' \in [Ids -> BOOLEAN] /\ wanted' \in [Ids -> {"kept", "disabled", "deleted"}]
    BY <1>9 DEF ImportConfig
  <2>3. requests' \in 0 .. MaxAdmin
    BY <1>9 DEF ImportConfig
  <2>4. QED
    BY <1>9, <2>1, <2>2, <2>3 DEF ImportConfig
<1>10. ASSUME NEW s \in Ids, UpdateRead(s) PROVE TypeOK'
  <2>1. arow' \in Rows /\ aold' \in Rows
    BY <1>10, EditedRow DEF UpdateRead
  <2>2. calm' \in [Ids -> BOOLEAN] /\ wanted' \in [Ids -> {"kept", "disabled", "deleted"}]
    BY <1>10 DEF UpdateRead
  <2>3. requests' \in 0 .. MaxAdmin
    BY <1>10 DEF UpdateRead
  <2>4. QED
    BY <1>10, <2>1, <2>2, <2>3 DEF UpdateRead
<1>11. ASSUME NEW s \in Ids, DeleteBlocklist(s) PROVE TypeOK'
  <2>1. row' \in [Ids -> Rows] /\ batches' \in [Ids -> SUBSET Batches]
    BY <1>11 DEF DeleteBlocklist, Cascade
  <2>2. /\ calm' \in [Ids -> BOOLEAN] /\ wanted' \in [Ids -> {"kept", "disabled", "deleted"}]
        /\ imported' \subseteq Ids
    BY <1>11 DEF DeleteBlocklist
  <2>3. requests' \in 0 .. MaxAdmin
    BY <1>11 DEF DeleteBlocklist
  <2>4. QED
    BY <1>11, <2>1, <2>2, <2>3 DEF DeleteBlocklist
<1>12. CASE UpdateSave
  BY <1>12 DEF UpdateSave
<1>13. CASE UpdateErr
  BY <1>0, <1>13 DEF UpdateErr
<1>14. ASSUME NEW t \in Background, UpdateClear(t) PROVE TypeOK'
  <2>1. batches' \in [Ids -> SUBSET Batches]
    BY <1>14 DEF UpdateClear
  <2>2. wanted' \in [Ids -> {"kept", "disabled", "deleted"}]
    BY <1>14 DEF UpdateClear
  <2>3. /\ pc' \in [Tasks -> {"idle", "fetch", "save"}] /\ src' \in [Tasks -> Ids]
        /\ copy' \in [Tasks -> Rows] /\ got' \in [Tasks -> 0 .. MaxVersion]
    BY <1>0, <1>14 DEF UpdateClear
  <2>4. QED
    BY <1>0, <1>14, <2>1, <2>2, <2>3 DEF UpdateClear
<1>15. CASE ControlplaneCrash
  BY <1>0, <1>15 DEF ControlplaneCrash
<1>16. CASE DataplaneStart
  <2>1. row' \in [Ids -> Rows] /\ batches' \in [Ids -> SUBSET Batches]
    <3>1. {Batch(Embedded, NoTag)} \in SUBSET Batches
      BY <1>0 DEF Batch, Batches
    <3>2. CASE NoSnapshots
      <4>1. /\ row' = [row EXCEPT ![Bundled] = [NoRow EXCEPT !.exists = TRUE]]
            /\ batches' = [batches EXCEPT ![Bundled] = {Batch(Embedded, NoTag)}]
        BY <1>16, <3>2 DEF DataplaneStart
      <4>2. QED
        BY <1>0, <3>1, <4>1
    <3>3. CASE ~NoSnapshots
      BY <1>16, <3>3 DEF DataplaneStart
    <3>4. QED
      BY <3>2, <3>3
  <2>2. loaded' \in BOOLEAN /\ reseeded' \in BOOLEAN
    BY <1>16 DEF DataplaneStart
  <2>3. QED
    BY <1>0, <1>16, <2>1, <2>2 DEF DataplaneStart
<1>17. CASE UNCHANGED vars
  BY <1>17 DEF vars
<1>18. QED
  BY <1>1, <1>2, <1>3, <1>4, <1>5, <1>6, <1>7, <1>8, <1>9, <1>10, <1>11, <1>12, <1>13,
     <1>14, <1>15, <1>16, <1>17 DEF Next, TaskStep

(* No step leaves a copy of a row that did not exist to be written back. *)
LEMMA CopyStep == TypeOK /\ CopyInv /\ [Next]_vars => CopyInv'
<1> SUFFICES ASSUME TypeOK, CopyInv, [Next]_vars PROVE CopyInv'
  OBVIOUS
<1>0. /\ row \in [Ids -> Rows] /\ listed \in [Ids -> Rows] /\ copy \in [Tasks -> Rows]
      /\ pc \in [Tasks -> {"idle", "fetch", "save"}] /\ src \in [Tasks -> Ids]
      /\ got \in [Tasks -> 0 .. MaxVersion] /\ asrc \in Ids
      /\ Sources \subseteq Ids /\ Background \subseteq Tasks /\ Dataplane \in Tasks
      /\ Bundled \in Ids
  BY DEF TypeOK, Ids, Tasks
<1> USE <1>0, BlocklistAssumption, EmptyRow DEF CopyInv, tableVars, taskVars, adminVars,
    histVars, StartRefresh, EndRefresh
<1>1. CASE ListSources
  BY <1>1 DEF ListSources
<1>2. ASSUME NEW s \in Ids, RefreshNext(s) PROVE CopyInv'
  BY <1>2 DEF RefreshNext
<1>3. ASSUME NEW t \in Tasks, Fetch(t) PROVE CopyInv'
  BY <1>3 DEF Fetch
<1>4. ASSUME NEW t \in Tasks, SaveSnapshot(t) PROVE CopyInv'
  <2>1. [copy[t] EXCEPT !.etag = got[t]].exists
    BY <1>4, TaggedRow DEF SaveSnapshot, Same
  <2>2. \A s \in Ids : row'[s].exists \/ row'[s] = NoRow
    BY <1>4, <2>1 DEF SaveSnapshot
  <2>3. QED
    BY <1>4, <2>2 DEF SaveSnapshot
<1>5. ASSUME NEW t \in Tasks, SaveErr(t) PROVE CopyInv'
  BY <1>5 DEF SaveErr
<1>6. CASE RemoteChange
  BY <1>6 DEF RemoteChange
<1>7. ASSUME NEW s \in Sources, NEW t \in Background, CreateBlocklist(s, t) PROVE CopyInv'
  <2>1. PICK u \in Urls :
          LET r == [exists |-> TRUE, enabled |-> TRUE, url |-> u, etag |-> NoTag]
          IN  row' = [row EXCEPT ![s] = r] /\ StartRefresh(t, s, r)
    BY <1>7 DEF CreateBlocklist, IsHTTPURL
  <2>2. \A x \in Ids : row'[x].exists \/ row'[x] = NoRow
    BY <2>1
  <2>3. \A x \in Tasks : pc'[x] # "idle" => copy'[x].exists /\ copy'[x].enabled
    BY <2>1
  <2>4. QED
    BY <1>7, <2>2, <2>3 DEF CreateBlocklist
<1>8. ASSUME NEW s \in Sources, SetupSource(s) PROVE CopyInv'
  <2>1. \A x \in Ids : row'[x].exists \/ row'[x] = NoRow
    BY <1>8 DEF SetupSource
  <2>2. QED
    BY <1>8, <2>1 DEF SetupSource
<1>9. ASSUME NEW s \in Ids, ImportConfig(s) PROVE CopyInv'
  <2>1. PICK e \in BOOLEAN, u \in Urls : row' = [row EXCEPT ![s] = Upserted(row[s], e, u)]
    BY <1>9 DEF ImportConfig
  <2>2. \A x \in Ids : row'[x].exists \/ row'[x] = NoRow
    BY <2>1, UpsertedRow
  <2>3. QED
    BY <1>9, <2>2 DEF ImportConfig
<1>10. ASSUME NEW s \in Ids, UpdateRead(s) PROVE CopyInv'
  <2>1. arow'.exists /\ aold'.exists /\ arow'.etag = EditedTag(aold', arow')
    BY <1>10, EditedRow DEF UpdateRead
  <2>2. QED
    BY <1>10, <2>1 DEF UpdateRead, EditedTag, NeedsRefresh
<1>11. ASSUME NEW s \in Ids, DeleteBlocklist(s) PROVE CopyInv'
  BY <1>11 DEF DeleteBlocklist
<1>12. CASE UpdateSave
  BY <1>12 DEF UpdateSave
<1>13. CASE UpdateErr
  BY <1>13 DEF UpdateErr
<1>14. ASSUME NEW t \in Background, UpdateClear(t) PROVE CopyInv'
  BY <1>14 DEF UpdateClear, NeedsRefresh
<1>15. CASE ControlplaneCrash
  BY <1>15 DEF ControlplaneCrash
<1>16. CASE DataplaneStart
  <2>1. \A x \in Ids : row'[x].exists \/ row'[x] = NoRow
    <3>1. row' = [row EXCEPT ![Bundled] = [NoRow EXCEPT !.exists = TRUE]] \/ row' = row
      BY <1>16 DEF DataplaneStart
    <3>2. QED
      BY <3>1
  <2>2. QED
    BY <1>16, <2>1 DEF DataplaneStart
<1>17. CASE UNCHANGED vars
  BY <1>17 DEF vars
<1>18. QED
  BY <1>1, <1>2, <1>3, <1>4, <1>5, <1>6, <1>7, <1>8, <1>9, <1>10, <1>11, <1>12, <1>13,
     <1>14, <1>15, <1>16, <1>17 DEF Next, TaskStep

(* Entries appear only in the transaction that saves their source's row, and a
   row goes only with its entries. *)
LEMMA OrphanStep ==
  TypeOK /\ CopyInv /\ NoOrphanEntries /\ [Next]_vars => NoOrphanEntries'
<1> SUFFICES ASSUME TypeOK, CopyInv, NoOrphanEntries, [Next]_vars PROVE NoOrphanEntries'
  OBVIOUS
<1>0. /\ row \in [Ids -> Rows] /\ batches \in [Ids -> SUBSET Batches]
      /\ copy \in [Tasks -> Rows] /\ got \in [Tasks -> 0 .. MaxVersion]
      /\ src \in [Tasks -> Ids] /\ asrc \in Ids /\ Sources \subseteq Ids /\ Bundled \in Ids
  BY DEF TypeOK, Ids
<1> USE <1>0 DEF NoOrphanEntries, tableVars
<1>1. CASE ListSources \/ RemoteChange \/ UpdateErr \/ ControlplaneCrash
  BY <1>1 DEF ListSources, RemoteChange, UpdateErr, ControlplaneCrash
<1>2. ASSUME NEW s \in Ids, RefreshNext(s) \/ UpdateRead(s) PROVE NoOrphanEntries'
  BY <1>2 DEF RefreshNext, UpdateRead
<1>3. ASSUME NEW t \in Tasks, Fetch(t) \/ SaveErr(t) PROVE NoOrphanEntries'
  BY <1>3 DEF Fetch, SaveErr
<1>4. ASSUME NEW t \in Tasks, SaveSnapshot(t) PROVE NoOrphanEntries'
  <2>1. [copy[t] EXCEPT !.etag = got[t]].exists
    BY <1>4, TaggedRow DEF SaveSnapshot, Same, CopyInv
  <2>2. QED
    BY <1>4, <2>1 DEF SaveSnapshot
<1>5. ASSUME NEW s \in Sources, NEW t \in Background, CreateBlocklist(s, t)
      PROVE  NoOrphanEntries'
  <2>1. /\ UNCHANGED batches /\ row'[s].exists
        /\ \A x \in Ids \ {s} : row'[x] = row[x]
    BY <1>5 DEF CreateBlocklist
  <2>2. QED
    BY <2>1
<1>6. ASSUME NEW s \in Sources, SetupSource(s) PROVE NoOrphanEntries'
  <2>1. /\ UNCHANGED batches /\ row'[s].exists
        /\ \A x \in Ids \ {s} : row'[x] = row[x]
    BY <1>6 DEF SetupSource
  <2>2. QED
    BY <2>1
<1>7. ASSUME NEW s \in Ids, ImportConfig(s) PROVE NoOrphanEntries'
  <2>1. /\ UNCHANGED batches /\ row'[s].exists
        /\ \A x \in Ids \ {s} : row'[x] = row[x]
    BY <1>7, UpsertedRow DEF ImportConfig
  <2>2. QED
    BY <2>1
<1>8. ASSUME NEW s \in Ids, DeleteBlocklist(s) PROVE NoOrphanEntries'
  BY <1>8 DEF DeleteBlocklist, Cascade
<1>9. CASE UpdateSave
  BY <1>9 DEF UpdateSave, CopyInv
<1>10. ASSUME NEW t \in Background, UpdateClear(t) PROVE NoOrphanEntries'
  BY <1>10 DEF UpdateClear
<1>11. CASE DataplaneStart
  <2>1. \/ /\ row' = [row EXCEPT ![Bundled] = [NoRow EXCEPT !.exists = TRUE]]
           /\ batches' = [batches EXCEPT ![Bundled] = {Batch(Embedded, NoTag)}]
        \/ UNCHANGED <<row, batches>>
    BY <1>11 DEF DataplaneStart
  <2>2. QED
    BY <2>1, EmptyRow
<1>12. CASE UNCHANGED vars
  BY <1>12 DEF vars
<1>13. QED
  BY <1>1, <1>2, <1>3, <1>4, <1>5, <1>6, <1>7, <1>8, <1>9, <1>10, <1>11, <1>12
     DEF Next, TaskStep

-----------------------------------------------------------------------------
(* A step that writes nothing of s, and takes up no copy of its row. *)
Untouched(s) ==
  /\ row'[s] = row[s] /\ batches'[s] = batches[s] /\ wanted'[s] = wanted[s]
  /\ calm'[s] => calm[s]
  /\ s \notin imported' => s \notin imported
  /\ listed'[s].exists => listed'[s] = listed[s]
  /\ \A t \in Tasks : pc'[t] # "idle" /\ src'[t] = s =>
                        pc[t] # "idle" /\ src[t] = s /\ copy'[t] = copy[t]
  /\ admin' # "idle" /\ asrc' = s => UNCHANGED <<admin, asrc, arow, aold>>

LEMMA UntouchedStep ==
  ASSUME NEW s \in Sources, SourceInv(s), Untouched(s)
  PROVE  SourceInv(s)'
<1> SUFFICES ASSUME calm'[s]
             PROVE  CalmInv(s)' /\ WishInv(s)' /\ (s \notin imported' => TagHasEntries(s)')
  BY DEF SourceInv
<1>1. CalmInv(s) /\ WishInv(s) /\ (s \notin imported => TagHasEntries(s))
  BY DEF SourceInv, Untouched
<1>2. CalmInv(s)'
  <2>1. listed'[s].exists => Same(listed'[s], row'[s])
    BY <1>1 DEF CalmInv, Untouched, Same
  <2>2. \A t \in Tasks : pc'[t] # "idle" /\ src'[t] = s => Same(copy'[t], row'[s])
    BY <1>1 DEF CalmInv, Untouched, Same
  <2>3. CopyHeld(s)' => CopyHeld(s)
    BY DEF Untouched, CopyHeld
  <2>4. QED
    BY <1>1, <2>1, <2>2, <2>3 DEF CalmInv, Untouched, Same
<1>3. WishInv(s)'
  BY <1>1 DEF WishInv, Untouched
<1>4. s \notin imported' => TagHasEntries(s)'
  BY <1>1 DEF TagHasEntries, Untouched
<1>5. QED
  BY <1>2, <1>3, <1>4

(* The steps of a refresh of s: its download, and its one transaction. *)
LEMMA RefreshStep ==
  ASSUME NEW s \in Sources, TypeOK, CopyInv, SourceInv(s), NEW t \in Tasks, TaskStep(t)
  PROVE  SourceInv(s)'
<1>0. /\ row \in [Ids -> Rows] /\ copy \in [Tasks -> Rows] /\ batches \in [Ids -> SUBSET Batches]
      /\ pc \in [Tasks -> {"idle", "fetch", "save"}] /\ src \in [Tasks -> Ids]
      /\ got \in [Tasks -> 0 .. MaxVersion] /\ s \in Ids /\ s # Bundled
  BY BlocklistAssumption DEF TypeOK, Ids
<1> USE <1>0 DEF tableVars, taskVars, adminVars, histVars, EndRefresh
<1>1. CASE Fetch(t)
  <2>1. Untouched(s)
    BY <1>1 DEF Fetch, Untouched
  <2>2. QED
    BY <2>1, UntouchedStep
<1>2. CASE SaveErr(t)
  <2>1. Untouched(s)
    BY <1>2 DEF SaveErr, Untouched
  <2>2. QED
    BY <2>1, UntouchedStep
<1>3. CASE SaveSnapshot(t) /\ src[t] # s
  <2>1. Untouched(s)
    BY <1>3 DEF SaveSnapshot, Untouched
  <2>2. QED
    BY <2>1, UntouchedStep
<1>4. CASE SaveSnapshot(t) /\ src[t] = s
  <2> SUFFICES ASSUME calm[s] PROVE SourceInv(s)'
    BY <1>4 DEF SaveSnapshot, SourceInv
  <2> DEFINE new == [copy[t] EXCEPT !.etag = got[t]]
  <2>1. new \in Rows /\ Same(new, copy[t]) /\ new.etag = got[t]
    BY TaggedRow
  <2>2. row'[s] = new /\ batches'[s] = batches[s] \cup {Batch(copy[t].url, got[t])}
    BY <1>4 DEF SaveSnapshot, Stored
  <2>3. /\ UNCHANGED <<listed, admin, asrc, arow, aold, wanted, calm>>
        /\ pc[t] # "idle"
        /\ \A x \in Tasks : pc'[x] # "idle" /\ src'[x] = s =>
                              pc[x] # "idle" /\ src[x] = s /\ copy'[x] = copy[x]
    BY <1>4 DEF SaveSnapshot
  <2> HIDE DEF new
  <2>4. CalmInv(s) /\ WishInv(s)
    BY DEF SourceInv
  <2>5. Same(copy[t], row[s]) /\ copy[t].exists /\ copy[t].enabled
    BY <1>4, <2>3, <2>4 DEF CalmInv, CopyInv
  <2>6. Same(new, row[s])
    BY <2>1, <2>5 DEF Same
  <2>7. CalmInv(s)'
    <3>1. ~(admin # "idle" /\ asrc = s)
      BY <1>4, <2>3, <2>4 DEF CalmInv, CopyHeld
    <3>2. listed'[s].exists => Same(listed'[s], row'[s])
      BY <2>2, <2>3, <2>4, <2>6 DEF CalmInv, Same
    <3>3. \A x \in Tasks : pc'[x] # "idle" /\ src'[x] = s => Same(copy'[x], row'[s])
      BY <2>2, <2>3, <2>4, <2>6 DEF CalmInv, Same
    <3>4. QED
      BY <2>3, <3>1, <3>2, <3>3 DEF CalmInv
  <2>8. WishInv(s)'
    BY <2>2, <2>3, <2>4, <2>5, <2>6 DEF WishInv, Same
  <2>9. TagHasEntries(s)'
    BY <2>1, <2>2 DEF TagHasEntries, Same
  <2>10. QED
    BY <2>7, <2>8, <2>9 DEF SourceInv
<1>5. QED
  BY <1>1, <1>2, <1>3, <1>4 DEF TaskStep

(* The refresh loop reads the rows and takes up their copies one by one. *)
LEMMA LoopStep ==
  ASSUME NEW s \in Sources, TypeOK, CopyInv, SourceInv(s),
         ListSources \/ (\E x \in Ids : RefreshNext(x)) \/ DataplaneStart
  PROVE  SourceInv(s)'
<1>0. /\ row \in [Ids -> Rows] /\ listed \in [Ids -> Rows] /\ copy \in [Tasks -> Rows]
      /\ pc \in [Tasks -> {"idle", "fetch", "save"}] /\ src \in [Tasks -> Ids]
      /\ calm \in [Ids -> BOOLEAN] /\ batches \in [Ids -> SUBSET Batches]
      /\ s \in Ids /\ s # Bundled /\ Dataplane \in Tasks
  BY BlocklistAssumption DEF TypeOK, Ids, Tasks
<1> USE <1>0, EmptyRow DEF tableVars, taskVars, adminVars, histVars
<1>1. CASE ListSources
  <2> SUFFICES ASSUME calm'[s] PROVE SourceInv(s)'
    BY DEF SourceInv
  <2>1. /\ calm[s] /\ (row[s].enabled => ~(admin # "idle" /\ asrc = s))
        /\ listed'[s] = IF row[s].enabled THEN row[s] ELSE NoRow
        /\ UNCHANGED <<row, batches, pc, src, copy, admin, asrc, arow, aold, wanted, imported>>
    BY <1>1 DEF ListSources
  <2>2. CalmInv(s) /\ WishInv(s) /\ (s \notin imported => TagHasEntries(s))
    BY <2>1 DEF SourceInv
  <2>3. listed'[s].exists => row[s].enabled /\ listed'[s] = row[s]
    BY <2>1
  <2>4. CalmInv(s)'
    BY <2>1, <2>2, <2>3 DEF CalmInv, CopyHeld, Same
  <2>5. WishInv(s)' /\ (s \notin imported' => TagHasEntries(s)')
    BY <2>1, <2>2 DEF WishInv, TagHasEntries
  <2>6. QED
    BY <2>4, <2>5 DEF SourceInv
<1>2. ASSUME NEW x \in Ids, RefreshNext(x) PROVE SourceInv(s)'
  <2>1. CASE x # s
    <3>1. Untouched(s)
      BY <1>2, <2>1 DEF RefreshNext, StartRefresh, Untouched
    <3>2. QED
      BY <3>1, UntouchedStep
  <2>2. CASE x = s
    <3> SUFFICES ASSUME calm[s] PROVE SourceInv(s)'
      BY <1>2 DEF SourceInv, RefreshNext
    <3>1. /\ listed[s].exists /\ listed'[s] = NoRow
          /\ pc'[Dataplane] = "fetch" /\ src'[Dataplane] = s /\ copy'[Dataplane] = listed[s]
          /\ \A t \in Tasks \ {Dataplane} :
               pc'[t] = pc[t] /\ src'[t] = src[t] /\ copy'[t] = copy[t]
          /\ UNCHANGED <<row, batches, admin, asrc, arow, aold, wanted, calm, imported>>
      BY <1>2, <2>2 DEF RefreshNext, StartRefresh
    <3>2. CalmInv(s) /\ WishInv(s) /\ (s \notin imported => TagHasEntries(s))
      BY DEF SourceInv
    <3>3. CalmInv(s)'
      <4>1. ~(admin # "idle" /\ asrc = s)
        BY <3>1, <3>2 DEF CalmInv, CopyHeld
      <4>2. \A t \in Tasks : pc'[t] # "idle" /\ src'[t] = s => Same(copy'[t], row'[s])
        BY <3>1, <3>2 DEF CalmInv
      <4>3. QED
        BY <3>1, <4>1, <4>2 DEF CalmInv
    <3>4. WishInv(s)' /\ (s \notin imported' => TagHasEntries(s)')
      BY <3>1, <3>2 DEF WishInv, TagHasEntries
    <3>5. QED
      BY <3>3, <3>4 DEF SourceInv
  <2>3. QED
    BY <2>1, <2>2
<1>3. CASE DataplaneStart
  <2>1. Untouched(s)
    BY <1>3 DEF DataplaneStart, EndRefresh, Untouched
  <2>2. QED
    BY <2>1, UntouchedStep
<1>4. QED
  BY <1>1, <1>2, <1>3

(* A request that writes the row of s in one transaction. *)
LEMMA RequestStep ==
  ASSUME NEW s \in Sources, TypeOK, CopyInv, SourceInv(s),
         \/ \E x \in Sources, t \in Background : CreateBlocklist(x, t)
         \/ \E x \in Sources : SetupSource(x)
         \/ \E x \in Ids : ImportConfig(x) \/ DeleteBlocklist(x)
  PROVE  SourceInv(s)'
<1>0. /\ row \in [Ids -> Rows] /\ listed \in [Ids -> Rows] /\ copy \in [Tasks -> Rows]
      /\ pc \in [Tasks -> {"idle", "fetch", "save"}] /\ src \in [Tasks -> Ids]
      /\ calm \in [Ids -> BOOLEAN] /\ batches \in [Ids -> SUBSET Batches]
      /\ wanted \in [Ids -> {"kept", "disabled", "deleted"}] /\ s \in Ids
      /\ Sources \subseteq Ids /\ Background \subseteq Tasks
  BY DEF TypeOK, Ids, Tasks
<1> USE <1>0, EmptyRow DEF tableVars, taskVars, adminVars, histVars
<1>1. ASSUME NEW x \in Sources, NEW t \in Background, CreateBlocklist(x, t)
      PROVE  SourceInv(s)'
  <2>1. PICK u \in Urls :
          LET r == [exists |-> TRUE, enabled |-> TRUE, url |-> u, etag |-> NoTag]
          IN  row' = [row EXCEPT ![x] = r] /\ StartRefresh(t, x, r)
    BY <1>1 DEF CreateBlocklist, IsHTTPURL
  <2>2. CASE x # s
    <3>1. Untouched(s)
      BY <1>1, <2>1, <2>2 DEF CreateBlocklist, StartRefresh, Untouched
    <3>2. QED
      BY <3>1, UntouchedStep
  <2>3. CASE x = s
    <3> SUFFICES ASSUME calm'[s] PROVE SourceInv(s)'
      BY DEF SourceInv
    <3>1. ~CopyHeld(s) /\ admin' = "idle" /\ wanted'[s] = "kept" /\ UNCHANGED listed
      BY <1>1, <2>3 DEF CreateBlocklist
    <3>2. /\ copy'[t] = row'[s] /\ row'[s].etag = NoTag
          /\ \A y \in Tasks \ {t} : pc'[y] = pc[y] /\ src'[y] = src[y]
      BY <2>1, <2>3 DEF StartRefresh
    <3>3. \A y \in Tasks : pc'[y] # "idle" /\ src'[y] = s => y = t
      BY <3>1, <3>2 DEF CopyHeld
    <3>4. CalmInv(s)'
      BY <3>1, <3>2, <3>3 DEF CalmInv, CopyHeld, Same
    <3>5. WishInv(s)' /\ TagHasEntries(s)'
      BY <3>1, <3>2 DEF WishInv, TagHasEntries
    <3>6. QED
      BY <3>4, <3>5 DEF SourceInv
  <2>4. QED
    BY <2>2, <2>3
<1>2. ASSUME NEW x \in Sources, SetupSource(x) PROVE SourceInv(s)'
  <2>1. CASE x # s
    <3>1. Untouched(s)
      BY <1>2, <2>1 DEF SetupSource, Untouched
    <3>2. QED
      BY <3>1, UntouchedStep
  <2>2. CASE x = s
    <3> SUFFICES ASSUME calm'[s] PROVE SourceInv(s)'
      BY DEF SourceInv
    <3>1. /\ ~CopyHeld(s) /\ admin' = "idle" /\ wanted'[s] = "kept"
          /\ row'[s].etag = NoTag /\ UNCHANGED <<listed, pc, src, copy>>
      <4>1. PICK u \in Urls :
              row' = [row EXCEPT ![s] = [exists |-> TRUE, enabled |-> TRUE, url |-> u,
                                         etag |-> NoTag]]
        BY <1>2, <2>2 DEF SetupSource
      <4>2. row'[s].etag = NoTag
        BY <4>1
      <4>3. QED
        BY <1>2, <2>2, <4>2 DEF SetupSource
    <3>2. CalmInv(s)' /\ WishInv(s)' /\ TagHasEntries(s)'
      BY <3>1 DEF CalmInv, CopyHeld, WishInv, TagHasEntries
    <3>3. QED
      BY <3>2 DEF SourceInv
  <2>3. QED
    BY <2>1, <2>2
<1>3. ASSUME NEW x \in Ids, ImportConfig(x) PROVE SourceInv(s)'
  <2>1. PICK e \in BOOLEAN, u \in Urls :
          LET new == Upserted(row[x], e, u)
          IN  /\ row' = [row EXCEPT ![x] = new]
              /\ imported' = IF row[x].exists /\ new # row[x] THEN imported \cup {x}
                             ELSE imported
    BY <1>3 DEF ImportConfig
  <2>2. CASE x # s
    <3>1. Untouched(s)
      BY <1>3, <2>1, <2>2 DEF ImportConfig, Untouched
    <3>2. QED
      BY <3>1, UntouchedStep
  <2>3. CASE x = s
    <3> SUFFICES ASSUME calm'[s] PROVE SourceInv(s)'
      BY DEF SourceInv
    <3>1. /\ ~CopyHeld(s) /\ admin' = "idle" /\ wanted'[s] = "kept" /\ calm[s]
          /\ UNCHANGED <<listed, pc, src, copy, batches>>
      BY <1>3, <2>3 DEF ImportConfig
    <3>2. CalmInv(s)' /\ WishInv(s)'
      BY <3>1 DEF CalmInv, CopyHeld, WishInv
    <3>3. ASSUME s \notin imported' PROVE TagHasEntries(s)'
      <4>1. s \notin imported /\ (~row[s].exists \/ row'[s] = row[s])
        BY <2>1, <2>3, <3>3
      <4>2. CASE row'[s] = row[s]
        BY <3>1, <4>1, <4>2 DEF SourceInv, TagHasEntries
      <4>3. CASE ~row[s].exists
        <5>1. row[s].etag = NoTag
          BY <4>3 DEF CopyInv
        <5>2. row'[s].etag = NoTag
          BY <2>1, <2>3, <5>1, UpsertedRow
        <5>3. QED
          BY <5>2 DEF TagHasEntries
      <4>4. QED
        BY <4>1, <4>2, <4>3
    <3>4. QED
      BY <3>2, <3>3 DEF SourceInv
  <2>4. QED
    BY <2>2, <2>3
<1>4. ASSUME NEW x \in Ids, DeleteBlocklist(x) PROVE SourceInv(s)'
  <2>1. CASE x # s
    <3>1. Untouched(s)
      BY <1>4, <2>1 DEF DeleteBlocklist, Untouched
    <3>2. QED
      BY <3>1, UntouchedStep
  <2>2. CASE x = s
    <3> SUFFICES ASSUME calm'[s] PROVE SourceInv(s)'
      BY DEF SourceInv
    <3>1. /\ ~CopyHeld(s) /\ admin' = "idle" /\ wanted'[s] = "deleted"
          /\ row'[s] = NoRow /\ UNCHANGED <<listed, pc, src, copy>>
      BY <1>4, <2>2 DEF DeleteBlocklist
    <3>2. CalmInv(s)' /\ WishInv(s)' /\ TagHasEntries(s)'
      BY <3>1 DEF CalmInv, CopyHeld, WishInv, TagHasEntries
    <3>3. QED
      BY <3>2 DEF SourceInv
  <2>3. QED
    BY <2>1, <2>2
<1>5. QED
  BY <1>1, <1>2, <1>3, <1>4

(* UpdateBlocklist from its read to its answer: three steps, between which the
   row may be read and the process may die. *)
LEMMA UpdateStep ==
  ASSUME NEW s \in Sources, TypeOK, CopyInv, SourceInv(s),
         \/ \E x \in Ids : UpdateRead(x)
         \/ UpdateSave \/ UpdateErr
         \/ \E t \in Background : UpdateClear(t)
         \/ ControlplaneCrash
  PROVE  SourceInv(s)'
<1>0. /\ row \in [Ids -> Rows] /\ listed \in [Ids -> Rows] /\ copy \in [Tasks -> Rows]
      /\ pc \in [Tasks -> {"idle", "fetch", "save"}] /\ src \in [Tasks -> Ids]
      /\ calm \in [Ids -> BOOLEAN] /\ batches \in [Ids -> SUBSET Batches]
      /\ wanted \in [Ids -> {"kept", "disabled", "deleted"}] /\ s \in Ids /\ asrc \in Ids
      /\ arow \in Rows /\ aold \in Rows /\ admin \in {"idle", "save", "clear"}
      /\ Background \subseteq Tasks
  BY DEF TypeOK, Ids, Tasks
<1> USE <1>0 DEF tableVars, taskVars, adminVars, histVars
<1>1. ASSUME NEW x \in Ids, UpdateRead(x) PROVE SourceInv(s)'
  <2>1. CASE x # s
    <3>1. Untouched(s)
      BY <1>1, <2>1 DEF UpdateRead, Untouched
    <3>2. QED
      BY <3>1, UntouchedStep
  <2>2. CASE x = s
    <3> SUFFICES ASSUME calm'[s] PROVE SourceInv(s)'
      BY DEF SourceInv
    <3>1. /\ ~CopyHeld(s) /\ calm[s] /\ admin' = "save" /\ aold' = row[s]
          /\ wanted'[s] = "kept"
          /\ UNCHANGED <<row, batches, listed, pc, src, copy, imported>>
      BY <1>1, <2>2 DEF UpdateRead
    <3>2. CalmInv(s)' /\ WishInv(s)'
      BY <3>1 DEF CalmInv, CopyHeld, WishInv
    <3>3. s \notin imported' => TagHasEntries(s)'
      BY <3>1 DEF SourceInv, TagHasEntries
    <3>4. QED
      BY <3>2, <3>3 DEF SourceInv
  <2>3. QED
    BY <2>1, <2>2
<1>2. CASE UpdateSave
  <2>1. CASE asrc # s
    <3>1. Untouched(s)
      BY <1>2, <2>1 DEF UpdateSave, Untouched
    <3>2. QED
      BY <3>1, UntouchedStep
  <2>2. CASE asrc = s
    <3> SUFFICES ASSUME calm[s] PROVE SourceInv(s)'
      BY <1>2 DEF SourceInv, UpdateSave
    <3>1. /\ admin = "save" /\ admin' = "clear" /\ row'[s] = arow
          /\ imported' = IF NeedsRefresh(aold, arow) THEN imported \ {s} ELSE imported
          /\ UNCHANGED <<batches, listed, pc, src, copy, asrc, arow, aold, wanted>>
      BY <1>2, <2>2 DEF UpdateSave
    <3>2. CalmInv(s) /\ WishInv(s) /\ (s \notin imported => TagHasEntries(s))
      BY DEF SourceInv
    <3>3. ~CopyHeld(s) /\ row[s] = aold /\ wanted[s] = "kept"
      BY <2>2, <3>1, <3>2 DEF CalmInv
    <3>4. CalmInv(s)' /\ WishInv(s)'
      BY <3>1, <3>3 DEF CalmInv, CopyHeld, WishInv
    <3>5. s \notin imported' => TagHasEntries(s)'
      BY <3>1, <3>2, <3>3 DEF CopyInv, TagHasEntries, EditedTag, NeedsRefresh
    <3>6. QED
      BY <3>4, <3>5 DEF SourceInv
  <2>3. QED
    BY <2>1, <2>2
<1>3. CASE UpdateErr
  <2>1. Untouched(s)
    BY <1>3 DEF UpdateErr, Untouched
  <2>2. QED
    BY <2>1, UntouchedStep
<1>4. ASSUME NEW t \in Background, UpdateClear(t) PROVE SourceInv(s)'
  <2>1. CASE asrc # s
    <3>1. Untouched(s)
      BY <1>4, <2>1 DEF UpdateClear, StartRefresh, Untouched
    <3>2. QED
      BY <3>1, UntouchedStep
  <2>2. CASE asrc = s
    <3> SUFFICES ASSUME calm[s] PROVE SourceInv(s)'
      BY <1>4 DEF SourceInv, UpdateClear
    <3>1. admin = "clear" /\ admin' = "idle" /\ UNCHANGED <<row, listed, imported>>
      BY <1>4 DEF UpdateClear
    <3>2. CalmInv(s) /\ WishInv(s) /\ (s \notin imported => TagHasEntries(s))
      BY DEF SourceInv
    <3>3. ~CopyHeld(s) /\ row[s] = arow /\ wanted[s] = "kept"
      BY <2>2, <3>1, <3>2 DEF CalmInv
    <3>4. /\ \A y \in Tasks \ {t} : pc'[y] = pc[y] /\ src'[y] = src[y]
          /\ pc'[t] # "idle" => copy'[t] = arow
      BY <1>4 DEF UpdateClear, StartRefresh
    <3>5. \A y \in Tasks : pc'[y] # "idle" /\ src'[y] = s => y = t
      BY <3>3, <3>4 DEF CopyHeld
    <3>6. CalmInv(s)'
      BY <3>1, <3>3, <3>4, <3>5 DEF CalmInv, CopyHeld, Same
    <3>7. \/ /\ batches'[s] = IF Clears(aold, arow) THEN {} ELSE batches[s]
             /\ wanted'[s] = IF aold.enabled /\ ~arow.enabled THEN "disabled" ELSE "kept"
          \/ batches'[s] = batches[s] /\ wanted'[s] = wanted[s]
      BY <1>4, <2>2 DEF UpdateClear
    <3>8. WishInv(s)'
      BY <3>1, <3>3, <3>7 DEF WishInv, Clears
    <3>9. s \notin imported' => TagHasEntries(s)'
      BY <3>1, <3>2, <3>3, <3>7
         DEF CopyInv, TagHasEntries, Clears, EditedTag, NeedsRefresh
    <3>10. QED
      BY <3>6, <3>8, <3>9 DEF SourceInv
  <2>3. QED
    BY <2>1, <2>2
<1>5. CASE ControlplaneCrash
  <2>1. Untouched(s)
    BY <1>5 DEF ControlplaneCrash, Untouched
  <2>2. QED
    BY <2>1, UntouchedStep
<1>6. QED
  BY <1>1, <1>2, <1>3, <1>4, <1>5

-----------------------------------------------------------------------------
(* The inductive invariant of the blocklist store. *)
LEMMA BlockInvariant == Spec => []BlockInv
<1>1. Init => BlockInv
  <2> SUFFICES ASSUME Init PROVE BlockInv
    OBVIOUS
  <2>1. TypeOK
    <3>1. /\ row \in [Ids -> Rows] /\ listed \in [Ids -> Rows] /\ copy \in [Tasks -> Rows]
          /\ batches \in [Ids -> SUBSET Batches] /\ arow \in Rows /\ aold \in Rows
      BY EmptyRow DEF Init
    <3>2. /\ pc \in [Tasks -> {"idle", "fetch", "save"}] /\ src \in [Tasks -> Ids]
          /\ admin \in {"idle", "save", "clear"} /\ asrc \in Ids
      BY DEF Init, Ids
    <3>3. /\ got \in [Tasks -> 0 .. MaxVersion] /\ remote \in 1 .. MaxVersion
          /\ requests \in 0 .. MaxAdmin
      BY BlocklistAssumption DEF Init, NoTag
    <3>4. /\ wanted \in [Ids -> {"kept", "disabled", "deleted"}] /\ calm \in [Ids -> BOOLEAN]
          /\ imported \subseteq Ids /\ loaded \in BOOLEAN /\ reseeded \in BOOLEAN
      BY DEF Init
    <3>5. QED
      BY <3>1, <3>2, <3>3, <3>4 DEF TypeOK
  <2>2. CopyInv /\ NoOrphanEntries
    BY EmptyRow DEF Init, CopyInv, NoOrphanEntries
  <2>3. ASSUME NEW s \in Sources PROVE SourceInv(s)
    <3>1. s \in Ids
      BY DEF Ids
    <3>2. QED
      BY <3>1, EmptyRow
         DEF Init, SourceInv, CalmInv, CopyHeld, WishInv, TagHasEntries
  <2>4. QED
    BY <2>1, <2>2, <2>3 DEF BlockInv
<1>2. BlockInv /\ [Next]_vars => BlockInv'
  <2> SUFFICES ASSUME BlockInv, [Next]_vars PROVE BlockInv'
    OBVIOUS
  <2>1. TypeOK /\ CopyInv /\ NoOrphanEntries
    BY DEF BlockInv
  <2>2. TypeOK' /\ CopyInv' /\ NoOrphanEntries'
    BY <2>1, TypeStep, CopyStep, OrphanStep
  <2>3. ASSUME NEW s \in Sources PROVE SourceInv(s)'
    <3>1. SourceInv(s)
      BY DEF BlockInv
    <3>2. CASE RemoteChange \/ UNCHANGED vars
      <4>1. Untouched(s)
        BY <3>2 DEF RemoteChange, Untouched, vars, tableVars, taskVars, adminVars, histVars
      <4>2. QED
        BY <3>1, <4>1, UntouchedStep
    <3>3. CASE \E t \in Tasks : TaskStep(t)
      BY <2>1, <3>1, <3>3, RefreshStep
    <3>4. CASE ListSources \/ (\E x \in Ids : RefreshNext(x)) \/ DataplaneStart
      BY <2>1, <3>1, <3>4, LoopStep
    <3>5. CASE \/ \E x \in Sources, t \in Background : CreateBlocklist(x, t)
               \/ \E x \in Sources : SetupSource(x)
               \/ \E x \in Ids : ImportConfig(x) \/ DeleteBlocklist(x)
      BY <2>1, <3>1, <3>5, RequestStep
    <3>6. CASE \/ \E x \in Ids : UpdateRead(x)
               \/ UpdateSave \/ UpdateErr
               \/ \E t \in Background : UpdateClear(t)
               \/ ControlplaneCrash
      BY <2>1, <3>1, <3>6, UpdateStep
    <3>7. QED
      BY <3>2, <3>3, <3>4, <3>5, <3>6 DEF Next
  <2>4. QED
    BY <2>2, <2>3 DEF BlockInv
<1>3. QED
  BY <1>1, <1>2, PTL DEF Spec

(* Type correctness of the blocklist tables and of the copies of their rows. *)
THEOREM BlocklistTypeCorrect == Spec => []TypeOK
<1>1. BlockInv => TypeOK
  BY DEF BlockInv
<1>2. QED
  BY <1>1, BlockInvariant, PTL

(* SaveSnapshotWithEntries writes entries and row in one transaction and
   DeleteSource removes both: no entries are left that belong to no source,
   however many refreshes, edits, deletes and crashes interleave. *)
THEOREM EntriesHaveSource == Spec => []NoOrphanEntries
<1>1. BlockInv => NoOrphanEntries
  BY DEF BlockInv
<1>2. QED
  BY <1>1, BlockInvariant, PTL

(* A delete or a disable that no refresh overlapped has its effect and keeps it:
   no refresh of UpdateSource, crash or restart brings the source back. *)
THEOREM WishIsKept == Spec => []AdminWishHolds
<1>1. BlockInv => AdminWishHolds
  BY DEF BlockInv, SourceInv, WishInv, AdminWishHolds, Quiet
<1>2. QED
  BY <1>1, BlockInvariant, PTL

(* UpdateBlocklist's reset of the ETag works when no refresh overlaps it and no
   import went before: the next conditional download is not answered 304 while
   the entries are missing, also after a failed delete or a crash between the
   save of the row and the removal of the entries. *)
THEOREM TagIsBacked == Spec => []TagHasEntriesWhenQuiet
<1>1. BlockInv => TagHasEntriesWhenQuiet
  BY DEF BlockInv, SourceInv, TagHasEntriesWhenQuiet, Quiet
<1>2. QED
  BY <1>1, BlockInvariant, PTL
=============================================================================
