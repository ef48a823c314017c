--------------------------- MODULE CategoryToggle ---------------------------
(***************************************************************************)
(* The category and collection switches of the control plane               *)
(* (cmd/controlplane/handlers/categories.go, collections.go): a toggle     *)
(* clears the aggregated entries, aggregates the feeds again when it       *)
(* enables, and only then writes the enabled flag. Each database call is a *)
(* transaction of its own and requests run concurrently.                   *)
(***************************************************************************)
EXTENDS Naturals, FiniteSets

CONSTANTS
  Categories, Collections,  \* names in the catalog, switched alike
  Feeds,                    \* the feeds of a category, or a collection's bundle
  Togglers,                 \* request goroutines
  MaxToggles                \* bound on the requests

Switches == Categories \cup Collections

VARIABLES
  row,       \* the switch's row: "absent", or its enabled flag
  entries,   \* entries[n][f]: stored copies of feed f's domains under n's source
  req,       \* req[t]: where t's request is
  toggles,   \* requests begun
  last       \* history: the last request to return for each switch

toggleVars == <<row, entries, req, toggles, last>>

Free == [at |-> "free", name |-> "none", enable |-> FALSE, alone |-> TRUE, cleared |-> FALSE,
         given |-> {}]
NeverToggled == [ok |-> FALSE, enable |-> FALSE, alone |-> FALSE, given |-> {}]

(* One stored copy of the domains of each of these feeds. *)
Once(feeds) == [f \in Feeds |-> IF f \in feeds THEN 1 ELSE 0]
NoEntries == Once({})

Init ==
  /\ row = [n \in Switches |-> "absent"]
  /\ entries = [n \in Switches |-> NoEntries]
  /\ req = [t \in Togglers |-> Free]
  /\ toggles = 0
  /\ last = [n \in Switches |-> NeverToggled]

Overlaps(t, n) == \E u \in Togglers \ {t} : req[u].at # "free" /\ req[u].name = n

(* The request returns; history: alone means that nothing overlapped it and
   its clear did not fail. *)
Return(t, ok) ==
  /\ req' = [req EXCEPT ![t] = Free]
  /\ last' = [last EXCEPT ![req[t].name] =
               [ok |-> ok, enable |-> req[t].enable, alone |-> req[t].alone /\ req[t].cleared,
                given |-> req[t].given]]

(* ToggleCategory, ToggleCollection: EnsureExists seeds the row, or fails. *)
EnsureExists(t, n, enable) ==
  /\ req[t] = Free /\ toggles < MaxToggles
  /\ toggles' = toggles + 1
  /\ row' = [row EXCEPT ![n] = IF @ = "absent" THEN "off" ELSE @]
  /\ req' = [u \in Togglers |->
               IF u = t THEN [at |-> "clear", name |-> n, enable |-> enable,
                              alone |-> ~Overlaps(t, n), cleared |-> FALSE, given |-> {}]
               ELSE IF req[u].name = n THEN [req[u] EXCEPT !.alone = FALSE] ELSE req[u]]
  /\ UNCHANGED <<entries, last>>

EnsureErr(t) ==
  /\ req[t] = Free /\ toggles < MaxToggles
  /\ toggles' = toggles + 1
  /\ UNCHANGED <<row, entries, req, last>>

(* DeleteEntriesBySource; an error is logged and the request goes on. *)
Cleared_OnlyToDisable(t) == IF req[t].enable THEN entries[req[t].name] ELSE NoEntries
Cleared(t) == NoEntries

Goto(t, ok) ==
  req' = [req EXCEPT ![t].at = IF req[t].enable THEN "aggregate" ELSE "set", ![t].cleared = ok]

Clear(t) ==
  /\ req[t].at = "clear"
  /\ entries' = [entries EXCEPT ![req[t].name] = Cleared(t)]
  /\ Goto(t, TRUE)
  /\ UNCHANGED <<row, toggles, last>>

ClearErr(t) ==
  /\ req[t].at = "clear"
  /\ Goto(t, FALSE)
  /\ UNCHANGED <<row, entries, toggles, last>>

(* AggregateFeeds over the feeds that could be fetched and parsed, at least
   one. A feed that is empty, or answered with 304, counts as fetched and gives
   no domain, so a category may end up with none; StoreDomains takes the whole
   bundle. The entries are added to what is there. *)
Giving(n) == IF n \in Categories THEN SUBSET Feeds ELSE {Feeds}

Aggregate(t) ==
  LET n == req[t].name
  IN /\ req[t].at = "aggregate"
     /\ \E given \in Giving(n) :
          /\ entries' = [entries EXCEPT ![n] = [f \in Feeds |-> @[f] + Once(given)[f]]]
          /\ req' = [req EXCEPT ![t].at = "set", ![t].given = given]
     /\ UNCHANGED <<row, toggles, last>>

(* Every feed failed, or the transaction did: the flag is not written. *)
AggregateErr(t) ==
  /\ req[t].at = "aggregate"
  /\ Return(t, FALSE)
  /\ UNCHANGED <<row, entries, toggles>>

(* SetEnabled. *)
Flag(t) == IF req[t].enable THEN "on" ELSE "off"

SetEnabled(t) ==
  /\ req[t].at = "set"
  /\ row' = [row EXCEPT ![req[t].name] = Flag(t)]
  /\ Return(t, TRUE)
  /\ UNCHANGED <<entries, toggles>>

SetErr(t) ==
  /\ req[t].at = "set"
  /\ Return(t, FALSE)
  /\ UNCHANGED <<row, entries, toggles>>

Next ==
  \E t \in Togglers :
    \/ Clear(t) \/ ClearErr(t) \/ Aggregate(t) \/ AggregateErr(t) \/ SetEnabled(t) \/ SetErr(t)
    \/ EnsureErr(t) \/ \E n \in Switches, enable \in BOOLEAN : EnsureExists(t, n, enable)

-----------------------------------------------------------------------------
Quiet(n) == \A t \in Togglers : req[t].name # n

(* A request that reported success, and that no other request for the switch
   overlapped, leaves flag and entries as asked, whatever failures and races
   came before it: on with the domains of the feeds that gave it any, each
   stored once, or off with nothing left that blocks. *)
SuccessIsApplied ==
  \A n \in Switches :
    Quiet(n) /\ last[n].ok /\ last[n].alone =>
      /\ row[n] = IF last[n].enable THEN "on" ELSE "off"
      /\ entries[n] = Once(IF last[n].enable THEN last[n].given ELSE {})

(* "disabling drops those entries so the dataplane stops blocking them. The
   toggle state is persisted either way": a switch at rest blocks exactly when
   it is on. Failed and overlapping requests break it. *)
BlocksIffOn == \A n \in Switches : Quiet(n) => (row[n] = "on" <=> entries[n] # NoEntries)
=============================================================================
