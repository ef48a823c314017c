---------------------------- MODULE AnswerCache ----------------------------
(***************************************************************************)
(* The serve-stale cache of internal/dnsengine/cache.go, as the engine     *)
(* uses it: Put after a successful exchange, GetStale when every upstream  *)
(* failed. Each call holds the cache's mutex from its first look at the    *)
(* clock to its return, so a call is one step.                             *)
(***************************************************************************)
EXTENDS Integers, FiniteSets, Sequences, SequencesExt

CONSTANTS
  Names,       \* question names, type and class included
  Messages,    \* upstream replies: [body, ttls], ttls the answer's record TTLs
  MaxEntries,  \* answerCache.max
  StaleFor,    \* answerCache.staleFor
  MaxTime      \* bound on the clock

VARIABLES
  clock,
  ll,       \* the list, front first: [key, body, expiresAt]
  items,    \* the keys of the map into the list
  lastPut,  \* history: the last reply Put kept for each name, and when
  recent,   \* history: <<m, n>> when m was used after the last use of n
  served    \* history: the last answer GetStale handed out

cacheVars == <<ll, items, lastPut, recent, served>>

Nothing == [body |-> "none", ttls |-> {}, at |-> 0]
NotServed == [name |-> "none", body |-> "none", at |-> 0]

(* A question as it arrives: a name in some spelling. *)
Questions == [name : Names, upper : BOOLEAN]

(* cacheKey lower-cases the name. *)
CacheKey(q) == q.name

(* minTTL: 0 for an answer without records. *)
MinTTL(msg) == IF msg.ttls = {} THEN 0 ELSE CHOOSE t \in msg.ttls : \A u \in msg.ttls : t <= u

Keys(list) == {list[i].key : i \in DOMAIN list}

(* The element of the list that items holds for a key. *)
Element(list, k) == CHOOSE i \in DOMAIN list : list[i].key = k
Entry(k) == ll[Element(ll, k)]

(* PushFront, or the entry replaced and MoveToFront. *)
ToFront_Stays(item, list) ==
  [i \in DOMAIN list |-> IF list[i].key = item.key THEN item ELSE list[i]]
ToFront(item, list) == <<item>> \o RemoveAt(list, Element(list, item.key))

(* evictOldest takes the back of the list. *)
EvictOldest(list) == Front(list)

Used(n) == {p \in recent : p[2] # n} \cup {<<n, m>> : m \in Names \ {n}}

Init ==
  /\ clock = 0
  /\ ll = <<>> /\ items = {}
  /\ lastPut = [n \in Names |-> Nothing]
  /\ recent = {}
  /\ served = NotServed

(* Put: an answer with TTL 0, or without records, is not kept. *)
Put(q, msg) ==
  LET ttl  == MinTTL(msg)
      item == [key |-> CacheKey(q), body |-> msg.body, expiresAt |-> clock + ttl]
      list == IF CacheKey(q) \in items THEN ToFront(item, ll) ELSE <<item>> \o ll
      full == CacheKey(q) \notin items /\ Len(list) > MaxEntries
  IN /\ ttl # 0
     /\ ll' = IF full THEN EvictOldest(list) ELSE list
     /\ items' = (items \cup {CacheKey(q)}) \ (IF full THEN {Last(list).key} ELSE {})
     /\ lastPut' = [lastPut EXCEPT ![q.name] = [body |-> msg.body, ttls |-> msg.ttls, at |-> clock]]
     /\ recent' = Used(q.name)
     /\ UNCHANGED <<clock, served>>

(* GetStale within the retention window: the entry, which moves to the front. *)
Retained(k) == clock <= Entry(k).expiresAt + StaleFor

GetStaleHit(q) ==
  LET k == CacheKey(q)
  IN /\ k \in items /\ Retained(k)
     /\ ll' = ToFront(Entry(k), ll)
     /\ served' = [name |-> q.name, body |-> Entry(k).body, at |-> clock]
     /\ recent' = Used(q.name)
     /\ UNCHANGED <<clock, items, lastPut>>

(* GetStale past the window: the entry is removed and the call misses. *)
GetStaleExpired(q) ==
  LET k == CacheKey(q)
  IN /\ k \in items /\ ~Retained(k)
     /\ ll' = RemoveAt(ll, Element(ll, k))
     /\ items' = items \ {k}
     /\ UNCHANGED <<clock, lastPut, recent, served>>

Tick == clock < MaxTime /\ clock' = clock + 1 /\ UNCHANGED cacheVars

Next ==
  \/ \E q \in Questions : GetStaleHit(q) \/ GetStaleExpired(q) \/ \E m \in Messages : Put(q, m)
  \/ Tick

-----------------------------------------------------------------------------
(* StaleFor has passed since a record of the last reply for n expired. *)
PastRetention(n) == \E t \in lastPut[n].ttls : clock > lastPut[n].at + t + StaleFor

(* A stale answer is the one last received for that name, in whatever spelling
   it was asked, and no older than StaleFor past the lowest of its TTLs. *)
ServesLatest ==
  served' # served =>
    /\ served'.body = lastPut[served'.name].body
    /\ ~PastRetention(served'.name)

(* An answer leaves the cache only past its retention, or to make room and
   then as the one unused for longest. *)
DropsLeastRecent ==
  \A n \in items \ items' :
    \/ PastRetention(n)
    \/ /\ Cardinality(items) = MaxEntries /\ items' \ items # {}
       /\ \A m \in items' : <<m, n>> \in recent'

(* Put, GetStale and eviction keep the map and the list in step, within the
   bound, and serve and drop the right answers. *)
CacheIsLRU ==
  [][/\ items' = Keys(ll') /\ Cardinality(items') = Len(ll') /\ Len(ll') <= MaxEntries
     /\ ServesLatest /\ DropsLeastRecent]_<<clock, cacheVars>>
=============================================================================
