------------------------------ MODULE FastFlux ------------------------------
(***************************************************************************)
(* The fast-flux tracker of internal/dnsengine/fastflux.go: the distinct   *)
(* addresses each domain was answered with in a sliding window. observe    *)
(* holds the mutex throughout, clock read included: a call is one step.    *)
(***************************************************************************)
EXTENDS Integers, FiniteSets, FiniteSetsExt, Sequences, Functions

CONSTANTS
  FluxDomains, Addresses, TTLs,
  FluxWindow, IPThreshold, TTLMax, MaxDomains,  \* fastFluxTracker's fields
  MaxObserved,                                  \* bound: observations of the tracked domains
  MaxTime                                       \* bound on the clock

VARIABLES
  clock,
  tracked,    \* fastFluxTracker.domains: [lastSeen, ips], ips a function to [lastSeen, ttl]
  observed,   \* history: what was observed of each domain since it was last inserted
  verdict     \* history: the last call's domain and result

fluxVars == <<tracked, observed, verdict>>

Init ==
  /\ clock = 0
  /\ tracked = [d \in {} |-> 0]
  /\ observed = [d \in FluxDomains |-> <<>>]
  /\ verdict = [domain |-> "none", flagged |-> FALSE]

(* evictOldestLocked: the domain seen longest ago; the map's order decides
   between equals. *)
Oldest(d) == \A e \in DOMAIN tracked : tracked[d].lastSeen <= tracked[e].lastSeen

Evictable(d) ==
  IF d \notin DOMAIN tracked /\ Cardinality(DOMAIN tracked) >= MaxDomains
  THEN {{e} : e \in {e \in DOMAIN tracked : Oldest(e)}} ELSE {{}}

(* The records of d after this answer, those outside the window pruned. *)
InWindow_Strict(rec) == rec.lastSeen > clock - FluxWindow
InWindow(rec) == rec.lastSeen >= clock - FluxWindow

Records(d, ips, ttl) ==
  LET old == IF d \in DOMAIN tracked THEN tracked[d].ips ELSE [a \in {} |-> 0]
      all == [a \in ips \cup DOMAIN old |->
                IF a \in ips THEN [lastSeen |-> clock, ttl |-> ttl] ELSE old[a]]
  IN Restrict(all, {a \in DOMAIN all : InWindow(all[a])})

(* At least ipThreshold addresses, and a lowest TTL of at most ttlMax. *)
LooksFastFlux(recs) ==
  /\ Cardinality(DOMAIN recs) >= IPThreshold
  /\ \E a \in DOMAIN recs : recs[a].ttl <= TTLMax

(* observe, for the addresses extractAnswerIPs found (never none). *)
Observe(d, ips, ttl) ==
  LET recs == Records(d, ips, ttl)
  IN /\ MapThenSumSet(LAMBDA e : Len(observed[e]), FluxDomains) < MaxObserved
     /\ \E gone \in Evictable(d) :
          /\ tracked' = [e \in (DOMAIN tracked \ gone) \cup {d} |->
                           IF e = d THEN [lastSeen |-> clock, ips |-> recs] ELSE tracked[e]]
          /\ observed' = [e \in FluxDomains |->
                            IF e \in gone THEN <<>>
                            ELSE IF e = d THEN Append(observed[e], [ips |-> ips, at |-> clock, ttl |-> ttl])
                            ELSE observed[e]]
     /\ verdict' = [domain |-> d, flagged |-> LooksFastFlux(recs)]
     /\ UNCHANGED clock

Tick == clock < MaxTime /\ clock' = clock + 1 /\ UNCHANGED fluxVars

Next ==
  \/ Tick
  \/ \E d \in FluxDomains, ips \in (SUBSET Addresses) \ {{}}, ttl \in TTLs : Observe(d, ips, ttl)

-----------------------------------------------------------------------------
(* The observations of a history inside the window that saw an address. *)
Sights(history, a) ==
  {i \in DOMAIN history : a \in history[i].ips /\ history[i].at >= clock - FluxWindow}
SeenIn(history) == {a \in Addresses : Sights(history, a) # {}}

(* A call's verdict fits the history of the domain since its insertion: pruning
   drops nothing the window still holds and keeps nothing it does not. Enough
   addresses are needed, and a TTL of at most ttlMax in the window; when such a
   TTL is the latest of its address, the domain is flagged. FlagUsesLowestTTL is
   about the rest. *)
FlagMatchesHistory ==
  verdict' # verdict \/ observed' # observed =>
    LET history == observed'[verdict'.domain]
        enough  == Cardinality(SeenIn(history)) >= IPThreshold
        low(i)  == history[i].ttl <= TTLMax
    IN /\ verdict'.flagged =>
            enough /\ \E a \in SeenIn(history) : \E i \in Sights(history, a) : low(i)
       /\ enough /\ (\E a \in SeenIn(history) : \E i \in Sights(history, a) :
                       low(i) /\ \A j \in Sights(history, a) : j <= i)
            => verdict'.flagged

(* Domains are forgotten only to stay within MaxDomains, and then one that
   nobody asked for since any of the others. *)
ForgetsLeastRecentlySeen ==
  /\ Cardinality(DOMAIN tracked') <= MaxDomains
  /\ \A d \in DOMAIN tracked \ DOMAIN tracked' :
       \A e \in DOMAIN tracked' : tracked[d].lastSeen <= tracked'[e].lastSeen

(* Every call of observe gives the verdict of the window and forgets at most
   what nobody asked for. *)
FluxVerdictIsRight == [][FlagMatchesHistory /\ ForgetsLeastRecentlySeen]_<<clock, fluxVars>>

(* "a minimum observed TTL <= ttlMax": the lowest TTL seen in the window. The
   tracker keeps the latest TTL of an address instead, so this does not hold. *)
FlagUsesLowestTTL ==
  [][observed' # observed =>
       LET history == observed'[verdict'.domain]
       IN Cardinality(SeenIn(history)) >= IPThreshold =>
            (verdict'.flagged <=>
               \E a \in SeenIn(history) : \E i \in Sights(history, a) : history[i].ttl <= TTLMax)]_<<clock, fluxVars>>
=============================================================================
