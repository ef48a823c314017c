--------------------------- MODULE ConfigTransfer ---------------------------
(***************************************************************************)
(* Export and import of the configuration                                  *)
(* (cmd/controlplane/handlers/config.go). An export reads three tables one *)
(* after the other while other handlers write them; an import validates a  *)
(* document and upserts it in one transaction. The push that follows an    *)
(* import is in PlaneSync, what it leaves out in PolicyStore and           *)
(* BlocklistStore.                                                         *)
(*                                                                         *)
(* An entry of a document is its id and the columns of the document that   *)
(* matter: a policy's action stands for its name, domains, priority and so *)
(* on, a source's address for its name and format too. "other" is an       *)
(* action the engine does not know, or a missing name.                     *)
(***************************************************************************)
EXTENDS Naturals, FiniteSets

CONSTANTS
  PolicyIds,
  SourceIds,
  Bundle,         \* the one of the embedded list's source, which has no address
  MaxEdits        \* bound: writes of the other handlers

Actions     == {"BLOCK", "ALLOW"}
PolicyRows  == [action : Actions, on : BOOLEAN]
SourceRows  == [url : {"http", ""}, on : BOOLEAN]
NoRow       == [on |-> FALSE]

VARIABLES
  policies,     \* policies[i]: the stored policy, or NoRow
  sources,      \* sources[s]: the stored source, or NoRow
  settings,     \* SystemState: the two switches, as one
  edits,
  exporting,    \* the export: "idle", "sources" or "settings" is read next
  part1, part2, \* what it has read
  doc,          \* the last exported document
  intact,       \* history: no write since the export in doc, or running, began
  applied       \* history: the document imported last, no edit since

tables == <<policies, sources, settings>>
vars   == <<tables, edits, exporting, part1, part2, doc, intact, applied>>

NoDoc == [version |-> ""]
Stored(table) == {i \in DOMAIN table : table[i] # NoRow}

PolicyEntries == {[id |-> i, action |-> policies[i].action, on |-> policies[i].on] : i \in Stored(policies)}
SourceEntries == {[id |-> s, url |-> sources[s].url, on |-> sources[s].on] : s \in Stored(sources)}

Document(ps, ss, on) == [version |-> "1", policies |-> ps, sources |-> ss, on |-> on]

(* The dataplane has seeded the embedded list, or a download came first. *)
Init ==
  /\ policies = [i \in PolicyIds |-> NoRow]
  /\ \E seeded \in {NoRow, [url |-> "", on |-> FALSE]} :
       sources = [s \in SourceIds |-> IF s = Bundle THEN seeded ELSE NoRow]
  /\ settings = TRUE
  /\ edits = 0
  /\ exporting = "idle" /\ part1 = {} /\ part2 = {}
  /\ doc = NoDoc /\ intact = FALSE /\ applied = NoDoc

-----------------------------------------------------------------------------
(* A write by one of the other handlers. *)
Edited ==
  /\ edits < MaxEdits /\ edits' = edits + 1
  /\ intact' = FALSE /\ applied' = NoDoc
  /\ UNCHANGED <<exporting, part1, part2, doc>>

(* A policy is created enabled. *)
EditPolicy(i) ==
  /\ \E r \in PolicyRows \cup {NoRow} :
       /\ r # NoRow /\ policies[i] = NoRow => r.on
       /\ policies' = [policies EXCEPT ![i] = r]
  /\ Edited /\ UNCHANGED <<sources, settings>>

(* An administrator cannot give a source an empty address. *)
EditSource(s) ==
  /\ \E r \in SourceRows \cup {NoRow} :
       /\ r # NoRow /\ r.url = "" => sources[s] # NoRow /\ sources[s].url = ""
       /\ sources' = [sources EXCEPT ![s] = r]
  /\ Edited /\ UNCHANGED <<policies, settings>>

EditSettings ==
  /\ settings' = ~settings
  /\ Edited /\ UNCHANGED <<policies, sources>>

-----------------------------------------------------------------------------
(* buildExport: Policies.List, then Blocklist.ListSources, then
   SystemState.Get, each its own read. *)
ExportPolicies ==
  /\ exporting = "idle"
  /\ part1' = PolicyEntries
  /\ exporting' = "sources"
  /\ intact' = TRUE
  /\ UNCHANGED <<tables, edits, part2, doc, applied>>

ExportSources ==
  /\ exporting = "sources"
  /\ part2' = SourceEntries
  /\ exporting' = "settings"
  /\ UNCHANGED <<tables, edits, part1, doc, intact, applied>>

ExportSettings ==
  /\ exporting = "settings"
  /\ doc' = Document(part1, part2, settings)
  /\ exporting' = "idle" /\ part1' = {} /\ part2' = {}
  /\ UNCHANGED <<tables, edits, intact, applied>>

(* A read fails: the export is answered with an error. *)
ExportErr ==
  /\ exporting # "idle"
  /\ exporting' = "idle" /\ part1' = {} /\ part2' = {}
  /\ intact' = FALSE
  /\ UNCHANGED <<tables, edits, doc, applied>>

-----------------------------------------------------------------------------
(* The documents that are posted: an export as it is, with an entry added,
   replaced or repeated under its id, with a section emptied, of another
   version. *)
WithVersion(v)    == [doc EXCEPT !.version = v]
WithPolicy(i, a)  == [doc EXCEPT !.policies = @ \cup {[id |-> i, action |-> a, on |-> FALSE]}]
WithSources(ss)   == [doc EXCEPT !.sources = ss]
OneSource(s, u)   == {[id |-> s, url |-> u, on |-> TRUE]}

OtherPolicies == {WithPolicy(i, a) : i \in PolicyIds, a \in Actions \cup {"other"}}
OtherSources  == {WithSources(OneSource(s, u)) : s \in SourceIds, u \in {"http", "ftp"}}
Posted == {doc, WithVersion("2"), WithVersion(""), WithSources({})} \cup OtherPolicies \cup OtherSources

UniqueIds(entries) == \A e, f \in entries : e.id = f.id => e = f

(* validateConfig, called before anything is written. *)
ValidateConfig(d) ==
  /\ d.version = "1"
  /\ UniqueIds(d.policies) /\ \A e \in d.policies : e.action \in Actions
  /\ UniqueIds(d.sources)  /\ \A e \in d.sources : e.url = "http"

(* What gorm's Create stores for a policy's enabled column: a false is the zero
   value of a column whose tag has a default, and becomes that default, true. *)
CreatedOn(on) == TRUE

(* applyConfig: upsert by id; a row that is not in the document stays. *)
Row_OnlyNew(table, i, new) == IF table[i] = NoRow THEN new ELSE table[i]
Row(table, i, new) == new

ApplyConfig(d) ==
  /\ policies' = [i \in PolicyIds |->
       IF \E e \in d.policies : e.id = i
       THEN LET e == CHOOSE e \in d.policies : e.id = i
            IN  Row(policies, i, [action |-> e.action, on |-> CreatedOn(e.on)])
       ELSE policies[i]]
  /\ sources' = [s \in SourceIds |->
       IF \E e \in d.sources : e.id = s
       THEN LET e == CHOOSE e \in d.sources : e.id = s
            IN  Row(sources, s, [url |-> e.url, on |-> e.on])
       ELSE sources[s]]
  /\ settings' = d.on

(* ImportConfig: a dry run ends after the validation, and so does a document
   that does not pass it; an SQL error rolls the whole transaction back. *)
ImportConfig(d) ==
  /\ doc # NoDoc /\ ValidateConfig(d)
  /\ ApplyConfig(d)
  /\ intact' = FALSE /\ applied' = d
  /\ UNCHANGED <<edits, exporting, part1, part2, doc>>

Next ==
  \/ \E i \in PolicyIds : EditPolicy(i)
  \/ \E s \in SourceIds : EditSource(s)
  \/ EditSettings
  \/ ExportPolicies \/ ExportSources \/ ExportSettings \/ ExportErr
  \/ doc # NoDoc /\ \E d \in Posted : ImportConfig(d)

Spec == Init /\ [][Next]_vars

-----------------------------------------------------------------------------
(* "export -> import -> export round-trips": whatever was edited between the
   two, an export that no write disturbed shows every entry of the document
   imported before it, the sources and switches as they were and an enabled
   policy enabled; RoundTripIsExact is about the disabled ones. *)
RoundTripHolds ==
  exporting = "idle" /\ intact /\ applied # NoDoc =>
    /\ \A e \in applied.policies : \E f \in doc.policies :
         f.id = e.id /\ f.action = e.action /\ (e.on => f.on)
    /\ applied.sources \subseteq doc.sources
    /\ doc.on = applied.on
    /\ UniqueIds(doc.policies) /\ UniqueIds(doc.sources)

-----------------------------------------------------------------------------
(* What the comments promise and the code does not keep.                     *)

(* "export -> import -> export round-trips byte-for-byte": what was exported can
   be imported. The entry of the embedded list has no address and is refused. *)
ExportIsImportable == doc # NoDoc => ValidateConfig(doc)

(* "round-trips byte-for-byte", the disabled policies included. *)
RoundTripIsExact ==
  exporting = "idle" /\ intact /\ applied # NoDoc => applied.policies \subseteq doc.policies

(* "dumps the current policies, blocklist sources and key settings as a single
   versioned JSON document": a document shows a state the tables were in. Here,
   the state now, unless something was written after the export was answered. *)
ExportIsOneState ==
  [][exporting = "settings" /\ doc' # doc => doc' = Document(PolicyEntries, SourceEntries, settings)]_vars
=============================================================================
