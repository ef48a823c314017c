----------------------------- MODULE PolicyStore -----------------------------
(* How a policy edit travels: the HTTP handlers of the control plane write the
   policies table and reload the control plane's own policy engine
   (cmd/controlplane/handlers/policies.go); the dataplane polls the table every
   five seconds (reloadPolicies, cmd/dataplane/main.go) and swaps the result into
   the engine that decides queries.

   A policy is a record of two fields, standing for the fields a PATCH may set
   one at a time. The policies of the dataplane's file never change and are left
   out: a snapshot is the part of it that came from the table. Handlers run
   concurrently, one goroutine per request; a step is one SQL statement or one
   swap of a snapshot. *)
EXTENDS Naturals, FiniteSets

CONSTANTS
  Handlers,     \* request goroutines of the control plane
  Ids,          \* policy IDs
  MaxRequests   \* bound: mutating requests

ASSUME StoreAssumption == MaxRequests \in Nat

Values == {0, 1}                                 \* values of a field
Rows   == [action : Values, priority : Values]
NoRow  == [action |-> 2, priority |-> 2]         \* no row with this ID
Fields == {"action", "priority"}
Tables == [Ids -> Rows \cup {NoRow}]
Empty  == [i \in Ids |-> NoRow]

VARIABLES
  db,           \* the policies table
  cpSnap,       \* the snapshot of the control plane's engine
  dpSnap,       \* the snapshot of the dataplane's engine
  pc, id,       \* per handler: next step, policy edited
  field,        \* the field an update sets
  row,          \* the row an update read and edited
  list,         \* the rows a reload has listed
  poll,         \* the dataplane's poll: "idle", "ok" or "err"
  polled,       \* the rows the poll listed
  requests,     \* number of requests so far
  calm,         \* history: no two requests ever overlapped
  listErr,      \* history: a reload of the control plane failed to list
  imported,     \* history: an import since the control plane's last reload
  settled       \* history: IDs not written since the last poll listed the table

hVars   == <<pc, id, field, row, list>>
dpVars  == <<dpSnap, poll, polled>>
vars    == <<db, cpSnap, dpVars, hVars, requests, calm, listErr, imported, settled>>

Labels  == {"idle", "write", "list", "load"}
AllIdle == \A h \in Handlers : pc[h] = "idle"

Init ==
  /\ db = Empty /\ cpSnap = Empty /\ dpSnap = Empty
  /\ pc = [h \in Handlers |-> "idle"]
  /\ id \in [Handlers -> Ids]
  /\ field = [h \in Handlers |-> "action"]
  /\ row = [h \in Handlers |-> NoRow]
  /\ list = [h \in Handlers |-> Empty]
  /\ poll = "idle" /\ polled = Empty
  /\ requests = 0
  /\ calm = TRUE /\ listErr = FALSE /\ imported = FALSE
  /\ settled = Ids

Goto(h, label) == pc' = [pc EXCEPT ![h] = label]

(* A request for policy i is taken up. *)
Request(h, i) ==
  /\ pc[h] = "idle"
  /\ requests < MaxRequests
  /\ requests' = requests + 1
  /\ id' = [id EXCEPT ![h] = i]
  /\ calm' = (calm /\ AllIdle)

(* The table changes: the polled copy of the ID is out of date. *)
Write(i, r) ==
  /\ db' = [db EXCEPT ![i] = r]
  /\ settled' = settled \ {i}

-----------------------------------------------------------------------------
(* CreatePolicy: validated, then inserted; an ID in use is an SQL error, and any
   SQL error is answered without a write. *)
CreatePolicy(h, i, r) ==
  /\ Request(h, i)
  /\ \/ db[i] = NoRow /\ Write(i, r) /\ Goto(h, "list")
     \/ UNCHANGED <<db, settled, pc>>
  /\ UNCHANGED <<cpSnap, dpVars, field, row, list, listErr, imported>>

(* UpdatePolicy reads the row and sets the field the request carries ... *)
UpdateRead(h, i, f, v) ==
  /\ Request(h, i)
  /\ IF db[i] # NoRow
       THEN /\ field' = [field EXCEPT ![h] = f]
            /\ row' = [row EXCEPT ![h] = [db[i] EXCEPT ![f] = v]]
            /\ Goto(h, "write")
       ELSE UNCHANGED <<field, row, pc>>
  /\ UNCHANGED <<db, cpSnap, dpVars, list, listErr, imported, settled>>

(* ... and saves it whole: gorm's Save writes every column, and inserts the row
   when it is gone. *)
UpdateWrite(h) ==
  /\ pc[h] = "write"
  /\ Write(id[h], row[h])
  /\ Goto(h, "list")
  /\ UNCHANGED <<cpSnap, dpVars, id, field, row, list, requests, calm, listErr, imported>>

UpdateErr(h) ==
  /\ pc[h] = "write"
  /\ row' = [row EXCEPT ![h] = NoRow]
  /\ Goto(h, "idle")
  /\ UNCHANGED <<db, cpSnap, dpVars, id, field, list, requests, calm, listErr, imported, settled>>

DeletePolicy(h, i) ==
  /\ Request(h, i)
  /\ \/ db[i] # NoRow /\ Write(i, NoRow) /\ Goto(h, "list")
     \/ UNCHANGED <<db, settled, pc>>
  /\ UNCHANGED <<cpSnap, dpVars, field, row, list, listErr, imported>>

(* ImportConfig: the document's policies are upserted in one transaction, which
   may be rolled back; the control plane's engine is not reloaded. *)
ImportConfig(h, i, doc) ==
  /\ Request(h, i)
  /\ \/ /\ db' = [j \in Ids |-> IF doc[j] = NoRow THEN db[j] ELSE doc[j]]
        /\ settled' = settled \ {j \in Ids : doc[j] # NoRow}
        /\ imported' = TRUE
     \/ UNCHANGED <<db, settled, imported>>
  /\ UNCHANGED <<cpSnap, dpVars, pc, field, row, list, listErr>>

(* reloadPolicyEngine lists the table ... *)
Reload(h) ==
  /\ pc[h] = "list"
  /\ list' = [list EXCEPT ![h] = db]
  /\ Goto(h, "load")
  /\ UNCHANGED <<db, cpSnap, dpVars, id, field, row, requests, calm, listErr, imported, settled>>

ReloadErr(h) ==
  /\ pc[h] = "list"
  /\ listErr' = TRUE
  /\ Goto(h, "idle")
  /\ UNCHANGED <<db, cpSnap, dpVars, id, field, row, list, requests, calm, imported, settled>>

(* ... and loads what it listed; the handler answers. *)
Loaded(h) == list[h]

ReloadSwap(h) ==
  /\ pc[h] = "load"
  /\ cpSnap' = Loaded(h)
  /\ list' = [list EXCEPT ![h] = Empty]
  /\ row' = [row EXCEPT ![h] = NoRow]
  /\ Goto(h, "idle")
  /\ imported' = FALSE
  /\ UNCHANGED <<db, dpVars, id, field, requests, calm, listErr, settled>>

-----------------------------------------------------------------------------
(* The dataplane's ticker: reloadPolicies lists the table, or fails to ... *)
Listed_Cached == dpSnap
Listed == db

PollList ==
  /\ poll = "idle"
  /\ poll' = "ok" /\ polled' = Listed
  /\ settled' = Ids
  /\ UNCHANGED <<db, cpSnap, dpSnap, hVars, requests, calm, listErr, imported>>

RowsAfterErr == Empty

PollErr ==
  /\ poll = "idle"
  /\ poll' = "err" /\ polled' = RowsAfterErr
  /\ UNCHANGED <<db, cpSnap, dpSnap, hVars, requests, calm, listErr, imported, settled>>

(* ... and replaces the snapshot: with the rows listed, or with none of them
   after an error, when only the policies of the file are loaded. *)
Merged_KeepsOld == [i \in Ids |-> IF polled[i] = NoRow THEN dpSnap[i] ELSE polled[i]]
Merged == polled

PollLoad ==
  /\ poll # "idle"
  /\ dpSnap' = Merged
  /\ poll' = "idle" /\ polled' = Empty
  /\ UNCHANGED <<db, cpSnap, hVars, requests, calm, listErr, imported, settled>>

-----------------------------------------------------------------------------
HandlerStep(h) == UpdateWrite(h) \/ UpdateErr(h) \/ Reload(h) \/ ReloadErr(h) \/ ReloadSwap(h)

Next ==
  \/ \E h \in Handlers, i \in Ids :
       \/ \E r \in Rows : CreatePolicy(h, i, r)
       \/ \E f \in Fields, v \in Values : UpdateRead(h, i, f, v)
       \/ DeletePolicy(h, i)
       \/ \E doc \in Tables \ {Empty} : ImportConfig(h, i, doc)
  \/ \E h \in Handlers : HandlerStep(h)
  \/ PollList \/ PollErr \/ PollLoad

Spec == Init /\ [][Next]_vars

(* Handlers run to their end; the ticker keeps firing and the goroutine it wakes
   runs. A read of the table is not refused for ever: SQLite's reader fails only
   while a writer holds the file (strong fairness of PollList). *)
FairSpec ==
  /\ Spec
  /\ \A h \in Handlers : WF_vars(HandlerStep(h))
  /\ SF_vars(PollList) /\ WF_vars(PollLoad)

-----------------------------------------------------------------------------
(* Every variable has its type; a poll holds rows only between a list that
   succeeded and its load. *)
TypeOK ==
  /\ db \in Tables /\ cpSnap \in Tables /\ dpSnap \in Tables /\ polled \in Tables
  /\ pc \in [Handlers -> Labels] /\ id \in [Handlers -> Ids]
  /\ field \in [Handlers -> Fields] /\ row \in [Handlers -> Rows \cup {NoRow}]
  /\ list \in [Handlers -> Tables]
  /\ poll \in {"idle", "ok", "err"} /\ requests \in 0 .. MaxRequests
  /\ calm \in BOOLEAN /\ listErr \in BOOLEAN /\ imported \in BOOLEAN /\ settled \subseteq Ids
  /\ poll # "ok" => polled = Empty

(* With one edit at a time and no failed reload, the control plane's engine
   agrees with the table whenever no request is running, an import's rows apart:
   they wait for the next edit. *)
AppliedWhenCalm == calm /\ ~listErr /\ ~imported /\ AllIdle => cpSnap = db

(* What a poll is about to load is the table, for every policy that was not
   written after it was listed: no edit is undone by an older list. *)
PollIsCurrent == poll = "ok" => \A i \in settled : polled[i] = db[i]

(* The two engines load what the table holds, the control plane's when edits
   come one at a time, the dataplane's always. *)
SnapshotsFollowTable == AppliedWhenCalm /\ PollIsCurrent

(* When the edits are over, the dataplane's snapshot is the table, again and
   again: a failed poll empties it, and a later one restores it. *)
DataplaneCatchesUp == []<>(~AllIdle \/ dpSnap = db)

-----------------------------------------------------------------------------
(* What comments in the repository say, and the code does not do. *)

(* "rebuilds the in-process policy snapshot from storage so mutations take
   effect immediately": once every request is answered and none failed to list,
   the control plane's snapshot is the table. Two reloads may finish in the
   order opposite to their lists. *)
MutationsTakeEffect == ~listErr /\ ~imported /\ AllIdle => cpSnap = db

(* ImportConfig "applies it atomically (all-or-nothing) via the real repositories
   and reloads the engine": the control plane's policy engine is left as it was. *)
ImportReloads == calm /\ ~listErr /\ AllIdle => cpSnap = db

(* "a nil value means "leave unchanged"": an update changes the field it carries
   and no other. Save writes back the columns as they were read. *)
PatchLeavesOthersUnchanged ==
  [][\A h \in Handlers : pc[h] = "write" /\ pc'[h] = "list" =>
       \A f \in Fields \ {field[h]} : db'[id[h]][f] = db[id[h]][f]]_vars
=============================================================================
