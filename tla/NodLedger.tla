----------------------------- MODULE NodLedger -----------------------------
(***************************************************************************)
(* The newly-observed-domain ledger of internal/dnsengine/nod.go: a        *)
(* bounded record of when each domain was first seen. observe holds the    *)
(* mutex throughout.                                                       *)
(***************************************************************************)
EXTENDS Integers, FiniteSets

CONSTANTS
  NodDomains, NodWindow, MaxFirstSeen,  \* the domains, nodLedger.window and maxEntries
  MaxTime                               \* bound on the clock

VARIABLES
  clock,
  firstSeen,   \* nodLedger.firstSeen: a function from the domains in the ledger
  ever,        \* history: when each domain was really first seen
  aged,        \* history: the domains observe has reported as not new
  evicted,     \* history: the domains the ledger has dropped
  isNew        \* history: the last call's domain and result

nodVars == <<firstSeen, ever, aged, evicted, isNew>>

NeverSeen == -1

Init ==
  /\ clock = 0
  /\ firstSeen = [d \in {} |-> 0]
  /\ ever = [d \in NodDomains |-> NeverSeen]
  /\ aged = {} /\ evicted = {}
  /\ isNew = [domain |-> "none", new |-> FALSE]

(* evictIfFullLocked: the oldest first-seen entry, the map's order between
   equals. *)
OldestFirst_Latest(d) == \A e \in DOMAIN firstSeen : firstSeen[d] >= firstSeen[e]
OldestFirst(d) == \A e \in DOMAIN firstSeen : firstSeen[d] <= firstSeen[e]
EvictIfFull ==
  IF Cardinality(DOMAIN firstSeen) < MaxFirstSeen THEN {{}}
  ELSE {{d} : d \in {d \in DOMAIN firstSeen : OldestFirst(d)}}

(* observe, first sight. *)
FirstSight(d) ==
  /\ d \notin DOMAIN firstSeen
  /\ \E gone \in EvictIfFull :
       /\ firstSeen' = [e \in (DOMAIN firstSeen \ gone) \cup {d} |->
                          IF e = d THEN clock ELSE firstSeen[e]]
       /\ evicted' = evicted \cup gone
  /\ ever' = [ever EXCEPT ![d] = IF @ = NeverSeen THEN clock ELSE @]
  /\ isNew' = [domain |-> d, new |-> TRUE]
  /\ UNCHANGED <<clock, aged>>

(* observe, a domain in the ledger: new while within the window. *)
StillNew(d) == clock - firstSeen[d] < NodWindow

SeenAgain(d) ==
  /\ d \in DOMAIN firstSeen
  /\ isNew' = [domain |-> d, new |-> StillNew(d)]
  /\ aged' = IF StillNew(d) THEN aged ELSE aged \cup {d}
  /\ UNCHANGED <<clock, firstSeen, ever, evicted>>

Tick == clock < MaxTime /\ clock' = clock + 1 /\ UNCHANGED nodVars

Next == Tick \/ \E d \in NodDomains : FirstSight(d) \/ SeenAgain(d)

-----------------------------------------------------------------------------
(* A domain the ledger never dropped is new exactly during the window after it
   was really first seen, so once old it stays old. Past the ledger's limit
   that stops: the first one dropped is the one known for longest. *)
NewMatchesFirstSight ==
  isNew' # isNew /\ isNew'.domain \notin evicted =>
    /\ isNew'.new <=> clock - ever'[isNew'.domain] < NodWindow
    /\ isNew'.new => isNew'.domain \notin aged

(* What the ledger drops, it drops for a domain seen for the first time, and
   never one younger than any it keeps. *)
DropsOldestFirst ==
  /\ Cardinality(DOMAIN firstSeen') <= MaxFirstSeen
  /\ \A d \in DOMAIN firstSeen \ DOMAIN firstSeen' :
       /\ Cardinality(DOMAIN firstSeen) = MaxFirstSeen
       /\ \A e \in DOMAIN firstSeen' : firstSeen[d] <= firstSeen'[e]

(* Every call of observe tells new from known, and the ledger forgets in order. *)
LedgerTellsNew == [][NewMatchesFirstSight /\ DropsOldestFirst]_<<clock, nodVars>>
=============================================================================
