----------------------------- MODULE MCTrackers -----------------------------
(***************************************************************************)
(* What the query path keeps in memory about names, clients and devices,   *)
(* for TLC. The parts share a clock and nothing else, so a run follows one *)
(* of them, chosen at the start; the others stand still.                   *)
(***************************************************************************)
EXTENDS Naturals, Sequences

CONSTANTS
  Names, Messages, MaxEntries, StaleFor,
  Clients, Handlers, PerSec, Second, IdleAfter, MaxClients, MaxQueries,
  FluxDomains, Addresses, TTLs, FluxWindow, IPThreshold, TTLMax, MaxDomains, MaxObserved,
  NodDomains, NodWindow, MaxFirstSeen,
  Devices, Blockers, AlertThreshold, AlertWindow, MaxHits,
  Recorders, SliceCount, SliceSize, MaxRecords,
  IPs, MACs, Hosts, MaxMoves, MaxLanTime,
  Letters, Confusable, MaxLabel, Watchlists, MaxDistance,
  MaxTime

ASSUME TrackersAssumption ==
  /\ FluxWindow \in Nat \ {0} /\ MaxDomains \in Nat \ {0}
  /\ NodWindow \in Nat \ {0} /\ MaxFirstSeen \in Nat \ {0}
  /\ AlertThreshold \in Nat \ {0} /\ AlertWindow \in Nat \ {0}
  /\ PerSec \in Nat \ {0} /\ Second \in Nat \ {0} /\ IdleAfter \in Nat /\ IdleAfter >= Second
  /\ MaxEntries \in Nat \ {0} /\ StaleFor \in Nat /\ \A m \in Messages : m.ttls \subseteq Nat
  /\ SliceCount \in Nat \ {0, 1} /\ SliceSize \in Nat \ {0}

ASSUME ThreatAssumption ==
  /\ Confusable \in [Letters -> Letters] /\ MaxDistance = 2 /\ MaxLabel \in Nat
  /\ Watchlists \subseteq Seq([label : Seq(Letters), tld : STRING])

VARIABLES
  part, clock,
  ll, items, lastPut, recent, served,
  clients, reading, admitted, late, refusal,
  tracked, observed, verdict,
  firstSeen, ever, aged, evicted, isNew,
  call, hits, suspected, sent, fired, all, since,
  current, start, total, rec, recorded, raced,
  arp, leases, refresh, arps, devices, moves, shown, seen, stale,
  brands, query, method

Cache   == INSTANCE AnswerCache
Limiter == INSTANCE RateLimiter
Flux    == INSTANCE FastFlux
Nod     == INSTANCE NodLedger
Alerter == INSTANCE DeviceAlerter
Metrics == INSTANCE QueryMetrics
Lan     == INSTANCE DeviceInventory WITH MaxTime <- MaxLanTime
Threat  == INSTANCE ThreatDetector

MCMessages == {[body |-> "a", ttls |-> {1, 2}], [body |-> "b", ttls |-> {1}],
               [body |-> "c", ttls |-> {}], [body |-> "d", ttls |-> {0, 2}]}

(* The digit 1 is taken for an l. A watchlist is empty, one brand of two to four
   letters, digits included, or two brands that are two edits apart. *)
MCConfusable == [c \in Letters |-> IF c = "1" THEN "l" ELSE c]
Brand(label) == [label |-> label, tld |-> "com"]
MCWatchlists ==
  {<<>>, <<Brand(<<"l", "o", "l">>), Brand(<<"o", "o", "l", "l">>)>>}
  \cup {<<Brand(l)>> : l \in UNION {[1 .. n -> Letters] : n \in 2 .. MaxLabel}}

cacheVars  == <<ll, items, lastPut, recent, served>>
limitVars  == <<clients, reading, admitted, late, refusal>>
fluxVars   == <<tracked, observed, verdict>>
nodVars    == <<firstSeen, ever, aged, evicted, isNew>>
alertVars  == <<call, hits, suspected, sent, fired, all, since>>
metricVars == <<current, start, total, rec, recorded, raced>>
lanVars    == <<arp, leases, refresh, arps, devices, moves, shown, seen, stale>>
threatVars == <<brands, query, method>>
vars == <<part, clock, cacheVars, limitVars, fluxVars, nodVars, alertVars, metricVars,
          lanVars, threatVars>>

Init ==
  /\ part \in {"cache", "limiter", "flux", "nod", "alerter", "metrics", "inventory", "threat"}
  /\ Cache!Init /\ Limiter!Init /\ Flux!Init /\ Nod!Init /\ Alerter!Init /\ Metrics!Init /\ Lan!Init
  /\ Threat!Init
  /\ (part # "threat" => brands = <<>> /\ query = CHOOSE q \in Threat!Queries : TRUE)

CacheNext   == /\ part = "cache" /\ Cache!Next
               /\ UNCHANGED <<part, limitVars, fluxVars, nodVars, alertVars, metricVars,
                              lanVars, threatVars>>
LimiterNext == /\ part = "limiter" /\ Limiter!Next
               /\ UNCHANGED <<part, cacheVars, fluxVars, nodVars, alertVars, metricVars,
                              lanVars, threatVars>>
FluxNext    == /\ part = "flux" /\ Flux!Next
               /\ UNCHANGED <<part, cacheVars, limitVars, nodVars, alertVars, metricVars,
                              lanVars, threatVars>>
NodNext     == /\ part = "nod" /\ Nod!Next
               /\ UNCHANGED <<part, cacheVars, limitVars, fluxVars, alertVars, metricVars,
                              lanVars, threatVars>>
AlerterNext == /\ part = "alerter" /\ Alerter!Next
               /\ UNCHANGED <<part, cacheVars, limitVars, fluxVars, nodVars, metricVars,
                              lanVars, threatVars>>
MetricsNext == /\ part = "metrics" /\ Metrics!Next
               /\ UNCHANGED <<part, cacheVars, limitVars, fluxVars, nodVars, alertVars,
                              lanVars, threatVars>>
LanNext     == /\ part = "inventory" /\ Lan!Next
               /\ UNCHANGED <<part, cacheVars, limitVars, fluxVars, nodVars, alertVars,
                              metricVars, threatVars>>
ThreatNext  == /\ part = "threat" /\ Threat!Next
               /\ UNCHANGED <<part, clock, cacheVars, limitVars, fluxVars, nodVars,
                              alertVars, metricVars, lanVars>>

Next == \/ CacheNext \/ LimiterNext \/ FluxNext \/ NodNext
        \/ AlerterNext \/ MetricsNext \/ LanNext \/ ThreatNext

Spec == Init /\ [][Next]_vars

-----------------------------------------------------------------------------
(* The properties, stated in the modules of the trackers. *)

(* AnswerCache: it serves the latest answer within its retention, and drops
   only stale or least recently used ones. *)
CacheIsLRU == Cache!CacheIsLRU
(* RateLimiter: at most two windows' worth a second, and no refusal below it. *)
LimitIsKept == Limiter!LimitIsKept
(* FastFlux: the verdict fits the domain's history, also at the limit. *)
FluxVerdictIsRight == Flux!FluxVerdictIsRight
(* NodLedger: a domain is new exactly in the window after its first sight. *)
LedgerTellsNew == Nod!LedgerTellsNew
(* DeviceAlerter: every burst alerts, once, and no hit counts twice. *)
AlertsMatchHits == Alerter!AlertsMatchHits
(* QueryMetrics: the aggregate is that of the window unless rotations race. *)
WindowIsExactUnlessRaced == Metrics!WindowIsExactUnlessRaced
(* DeviceInventory: a device carries its times, and what was seen of it. *)
DevicesAreKnown == Lan!DevicesAreKnown
(* ThreatDetector: lookalikes of a brand are found, and only they. *)
LookalikesAreFlagged == Threat!LookalikesAreFlagged
=============================================================================
