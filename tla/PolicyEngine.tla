----------------------------- MODULE PolicyEngine -----------------------------
(* policy.Engine (internal/policy): the snapshot LoadPolicies builds and swaps
   in, and the two questions the query path asks of it: Evaluate and
   IsExplicitlyAllowed, with schedules (schedule.go) and client scopes (scope.go).

   A domain name is a sequence of labels. A pattern is a name with its star:
   "none" (an exact name), "lead" ("*.name") or "other" (a star elsewhere, which
   the snapshot drops). The regexes of a policy are the set of names they match,
   its client ranges the set of clients they contain. Instants are counted in
   minutes of a week of Days days of DayLen minutes. *)
EXTENDS Integers, FiniteSets, Sequences

CONSTANTS
  Domains,      \* the names asked for
  Clients,      \* client addresses
  Policies,     \* the policies an operator may write, see PolicyType
  MaxPolicies,  \* bound: policies in one snapshot
  Days, DayLen  \* days in a week, minutes in a day

Unknown == "unknown"                 \* a client address that does not parse
Week    == 0 .. Days * DayLen - 1
NoTime  == -1                        \* schedule without a time window
Always  == [days |-> {}, start |-> NoTime, end |-> NoTime, zone |-> 0]
NoPolicy == [id |-> 0]

Suffix(d, i) == SubSeq(d, i, Len(d))                    \* strings.Join(parts[i:], ".")
AllNames     == UNION {{Suffix(d, i) : i \in 1 .. Len(d)} : d \in Domains}

PolicyType ==
  [id : Nat \ {0}, priority : Int, action : {"BLOCK", "ALLOW", "REDIRECT"},
   domains : SUBSET [star : {"none", "lead", "other"}, name : AllNames],
   regexes : SUBSET Domains, scoped : BOOLEAN, scope : SUBSET Clients,
   sched : [days : SUBSET (0 .. Days - 1), start : 0 .. DayLen - 1, end : 0 .. DayLen - 1,
            zone : Nat] \cup {[Always EXCEPT !.days = D] : D \in SUBSET (0 .. Days - 1)}]

(* A name has a label, the policies are of their type, and no address is that of
   a client that cannot be identified. *)
ASSUME PolicyAssumption ==
  /\ Days \in Nat \ {0} /\ DayLen \in Nat \ {0} /\ MaxPolicies \in Nat
  /\ \A d \in Domains : Len(d) \in Nat \ {0}
  /\ Policies \subseteq PolicyType /\ Unknown \notin Clients

VARIABLES
  pols,         \* the policies of the snapshot, in the order they were loaded
  bloom,        \* the names the Bloom filter reports present
  now           \* the engine's clock

engineVars == <<pols, bloom, now>>

-----------------------------------------------------------------------------
(* compiledSchedule.active: the instant is moved to the policy's zone, a fixed
   offset here; the day of week is the local one; a window may cross midnight. *)
InWindow_EndIncluded(m, s, e) == IF s <= e THEN m >= s /\ m <= e ELSE m >= s \/ m <= e
InWindow(m, s, e) == IF s <= e THEN m >= s /\ m < e ELSE m >= s \/ m < e

Active(sched, t) ==
  LET local == (t + sched.zone) % (Days * DayLen) IN
  /\ sched.days # {} => local \div DayLen \in sched.days
  /\ sched.start # NoTime => InWindow(local % DayLen, sched.start, sched.end)

(* filterActive: the positions of a list that stay. *)
FilterActive(ps) == {i \in DOMAIN ps : Active(ps[i].sched, now)}

(* matchesClient: the parsed ranges are kept per policy ID (clientNets). *)
ClientNets(id) == UNION {pols[i].scope : i \in {j \in DOMAIN pols : pols[j].id = id}}

MatchesClient(p, c) == ~p.scoped \/ c \in ClientNets(p.id)

(* buildSnapshot: exact names go to a map, "*.name" to the wildcard list. *)
Exact(p, n)    == [star |-> "none", name |-> n] \in p.domains
Wildcard(p, d) == \E i \in 1 .. Len(d) : [star |-> "lead", name |-> Suffix(d, i)] \in p.domains

(* The strings added to the Bloom filter: every exact name, and the wildcard
   patterns (which no lookup asks for). *)
BloomNames(ps) == {n \in AllNames : \E i \in DOMAIN ps : Exact(ps[i], n)}

-----------------------------------------------------------------------------
(* pickHighestPriorityScoped: the loop over the candidates, the policies of a list
   at some positions, keeps the best policy in scope so far. *)
Supersedes_TieToLast(p, best) == p.priority >= best.priority
Supersedes(p, best) ==
  p.priority > best.priority \/ (p.priority = best.priority /\ p.id < best.id)

Keep(best, p, c) ==
  IF MatchesClient(p, c) /\ (best = NoPolicy \/ Supersedes(p, best)) THEN p ELSE best

BestSoFar(ps, at, c) ==
  LET best[i \in 0 .. Len(ps)] ==
        IF i = 0 THEN NoPolicy
        ELSE IF i \in at THEN Keep(best[i - 1], ps[i], c) ELSE best[i - 1]
  IN  best

PickHighest(ps, at, c) == BestSoFar(ps, at, c)[Len(ps)]

(* The levels at which Evaluate looks for an exact rule: the name and its parent
   domains but the last label, skipping what the Bloom filter excludes. *)
Levels(d) == {i \in 1 .. Len(d) - 1 : Suffix(d, i) \in bloom}
ExactAt(d, i) == {j \in DOMAIN pols : Exact(pols[j], Suffix(d, i))} \cap FilterActive(pols)

(* The candidates of matchDynamic: the wildcard rules, then the regex rules. *)
Rules == pols \o pols
Dynamic(d) ==
  {j \in DOMAIN Rules : IF j <= Len(pols) THEN Wildcard(Rules[j], d) ELSE d \in Rules[j].regexes}
  \cap FilterActive(Rules)

(* The first level with an active policy in scope decides, the wildcard and
   regex rules only when there is none. *)
Evaluate(d, c) ==
  LET hits == {i \in Levels(d) : PickHighest(pols, ExactAt(d, i), c) # NoPolicy}
  IN  IF hits # {}
        THEN PickHighest(pols, ExactAt(d, CHOOSE i \in hits : \A j \in hits : i <= j), c)
        ELSE PickHighest(Rules, Dynamic(d), c)

HasScopedAllow(ps, at, c) ==
  \E i \in at : MatchesClient(ps[i], c) /\ ps[i].action = "ALLOW"

AllowSurface(d, c) ==
  \/ \E i \in Levels(d) : HasScopedAllow(pols, ExactAt(d, i), c)
  \/ HasScopedAllow(Rules, Dynamic(d), c)

IsExplicitlyAllowed(d, c) == AllowSurface(d, c)

-----------------------------------------------------------------------------
EngineInit ==
  /\ pols = <<>> /\ bloom = {}
  /\ now \in Week

(* LoadPolicies: a new snapshot is built and swapped in. The Bloom filter may
   report any further name as present. *)
LoadPolicies(ps, falsePositives) ==
  /\ pols' = ps
  /\ bloom' = BloomNames(ps) \cup falsePositives
  /\ UNCHANGED now

(* Time passes, by any amount. *)
Clock(t) == now' = t /\ UNCHANGED <<pols, bloom>>

EngineNext ==
  \/ \E n \in 0 .. MaxPolicies : \E ps \in [1 .. n -> Policies], fp \in SUBSET AllNames :
       LoadPolicies(ps, fp)
  \/ \E t \in Week : Clock(t)

EngineSpec == EngineInit /\ [][EngineNext]_engineVars

-----------------------------------------------------------------------------
(* Every variable has its type, and the Bloom filter excludes no exact name. *)
EngineTypeOK ==
  /\ pols \in Seq(PolicyType) /\ bloom \subseteq AllNames /\ now \in Week
  /\ \A i \in DOMAIN pols : {n \in AllNames : Exact(pols[i], n)} \subseteq bloom

UniqueIDs == \A i, j \in DOMAIN pols : pols[i].id = pols[j].id => i = j
Asked     == Domains \X (Clients \cup {Unknown})

(* When a policy applies, said without the snapshot: it matches the name, its
   schedule is on, and the client is in its own ranges. *)
Matches(p, d) ==
  \/ \E i \in 1 .. Len(d) - 1 : Exact(p, Suffix(d, i))
  \/ Wildcard(p, d) \/ d \in p.regexes
Applies(p, d, c) == Matches(p, d) /\ Active(p.sched, now) /\ (p.scoped => c \in p.scope)

(* How close a rule is: the level of its nearest exact name, or beyond all. *)
Rank(p, d) ==
  LET at == {i \in 1 .. Len(d) - 1 : Exact(p, Suffix(d, i))}
  IN  IF at = {} THEN Len(d) ELSE CHOOSE i \in at : \A j \in at : i <= j

Beats(q, p, d) ==
  \/ Rank(q, d) < Rank(p, d)
  \/ Rank(q, d) = Rank(p, d) /\ q.priority > p.priority
  \/ Rank(q, d) = Rank(p, d) /\ q.priority = p.priority /\ q.id < p.id

(* Evaluate returns the best policy that applies: nearest exact name first, then
   the highest priority, then the lowest ID, and none only if none applies. So
   the decision does not depend on the order of loading, on false positives of
   the Bloom filter, or on policies that are off or out of scope. *)
DecisionIsBest ==
  UniqueIDs => \A a \in Asked :
    LET d == a[1]  c == a[2]  p == Evaluate(d, c)
        applying == {pols[i] : i \in {j \in DOMAIN pols : Applies(pols[j], d, c)}}
    IN  IF p = NoPolicy THEN applying = {}
        ELSE p \in applying /\ \A q \in applying : ~Beats(q, p, d)

(* The two questions agree: when an ALLOW policy decides, the name is explicitly
   allowed; when no policy decides, it is not. The query path relies on both. *)
AllowAgrees ==
  \A a \in Asked :
    LET p == Evaluate(a[1], a[2]) IN
    /\ p # NoPolicy /\ p.action = "ALLOW" => IsExplicitlyAllowed(a[1], a[2])
    /\ p = NoPolicy => ~IsExplicitlyAllowed(a[1], a[2])

(* A client that cannot be identified is decided by unscoped policies only. *)
UnknownClientUnscoped ==
  \A d \in Domains : LET p == Evaluate(d, Unknown) IN p # NoPolicy => ~p.scoped

(* A time window is on for exactly end - start minutes (modulo a day) of each
   scheduled day, at every offset and across midnight. *)
WindowHasItsLength ==
  \A i \in DOMAIN pols : LET s == pols[i].sched IN s.start # NoTime =>
    Cardinality({t \in Week : Active(s, t)}) =
      (IF s.days = {} THEN Days ELSE Cardinality(s.days)) * ((s.end - s.start) % DayLen)

(* The indexed evaluation is the one the policies, read as a list, call for, and
   their schedules are on when they should be. *)
EvaluationIsRight ==
  DecisionIsBest /\ AllowAgrees /\ UnknownClientUnscoped /\ WindowHasItsLength

(* "A scoped policy matches only when the client IP falls inside one of its
   ranges": violated when a file policy and a stored policy share an ID. *)
ScopeRespected ==
  \A a \in Asked :
    LET p == Evaluate(a[1], a[2]) IN p # NoPolicy /\ p.scoped => a[2] \in p.scope
=============================================================================
