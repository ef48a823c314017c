------------------------------ MODULE NrdFeed ------------------------------
(***************************************************************************)
(* The newly-registered-domain feed of internal/nrd/checker.go: one        *)
(* goroutine refreshes the set with conditional requests; the query path   *)
(* reads the set at any moment (QueryPipeline).                            *)
(***************************************************************************)
EXTENDS Naturals

CONSTANT MaxVersion   \* bound: versions the feed's publisher puts out

NoTag == 0            \* no ETag known, or none sent
Waiting == [at |-> "wait", body |-> [version |-> 0, tag |-> NoTag, parses |-> FALSE]]

VARIABLES
  feed,       \* the published feed: its version, its ETag, and whether it parses
  nrdSet,     \* Checker.set, by the version it was parsed from; 0 is empty
  etag,       \* Checker.etag
  refresh     \* where Refresh is, with the body and tag it fetched

nrdVars == <<feed, nrdSet, etag, refresh>>

Init ==
  /\ feed = [version |-> 1, tag |-> 1, parses |-> TRUE]
  /\ nrdSet = 0 /\ etag = NoTag
  /\ refresh = Waiting

Publish ==
  /\ feed.version < MaxVersion
  /\ \E tagged, parses \in BOOLEAN :
       feed' = [version |-> feed.version + 1, parses |-> parses,
                tag |-> IF tagged THEN feed.version + 1 ELSE NoTag]
  /\ UNCHANGED <<nrdSet, etag, refresh>>

(* Refresh: the conditional fetch, which fails, is answered 304, ... *)
FetchErr == refresh = Waiting /\ UNCHANGED nrdVars

NotModified_AnyTag == etag # NoTag
NotModified == etag # NoTag /\ etag = feed.tag

Fetch304 == refresh = Waiting /\ NotModified /\ UNCHANGED nrdVars

(* ... or returns a body and its tag. *)
Fetch200 ==
  /\ refresh = Waiting /\ ~NotModified
  /\ refresh' = [at |-> "load", body |-> feed]
  /\ UNCHANGED <<feed, nrdSet, etag>>

(* load: the body is parsed and the set swapped; an error keeps set and tag. *)
TagAfterError == etag

LoadErr ==
  /\ refresh.at = "load" /\ ~refresh.body.parses
  /\ etag' = TagAfterError
  /\ refresh' = Waiting
  /\ UNCHANGED <<feed, nrdSet>>

Load ==
  /\ refresh.at = "load" /\ refresh.body.parses
  /\ nrdSet' = refresh.body.version
  /\ refresh' = [refresh EXCEPT !.at = "tag"]
  /\ UNCHANGED <<feed, etag>>

StoredTag == refresh.body.tag

StoreTag ==
  /\ refresh.at = "tag"
  /\ etag' = StoredTag
  /\ refresh' = Waiting
  /\ UNCHANGED <<feed, nrdSet>>

Next == Publish \/ FetchErr \/ Fetch304 \/ Fetch200 \/ LoadErr \/ Load \/ StoreTag

-----------------------------------------------------------------------------
(* A feed that no longer changes and parses is in force in the end, and stays,
   whatever failed fetches and unparsable versions came before. *)
FeedTakesEffect == <>[]feed.parses => <>[](nrdSet = feed.version)
=============================================================================
