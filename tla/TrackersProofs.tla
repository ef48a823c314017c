--------------------------- MODULE TrackersProofs ---------------------------
(***************************************************************************)
(* What the query path and the alerter keep about names, clients and       *)
(* devices, for any number of them, every window and every limit: the      *)
(* ledger of first sights, the fast-flux tracker, the inventory, the       *)
(* alerter, the rate limiter, the serve-stale cache, the rolling counters  *)
(* and the search for lookalikes. Each has an invariant of its own; they   *)
(* share the clock.                                                        *)
(***************************************************************************)
EXTENDS MCTrackers, Integers, Sequences, FiniteSetTheorems, SequenceTheorems,
        WellFoundedInduction, NaturalsInduction, TLAPS

-----------------------------------------------------------------------------
(* The ledger knows the first sight of every domain it never dropped, and a
   domain it called old is past its window. *)
NodInv ==
  /\ DOMAIN firstSeen \subseteq NodDomains /\ IsFiniteSet(DOMAIN firstSeen)
  /\ Cardinality(DOMAIN firstSeen) <= MaxFirstSeen
  /\ \A d \in DOMAIN firstSeen : firstSeen[d] \in 0 .. clock
  /\ ever = [d \in NodDomains |-> ever[d]] /\ aged \subseteq NodDomains
  /\ \A d \in NodDomains \ evicted :
       IF d \in DOMAIN firstSeen THEN ever[d] = firstSeen[d]
       ELSE ever[d] = Nod!NeverSeen /\ d \notin aged
  /\ \A d \in aged \ evicted : clock - firstSeen[d] >= NodWindow

-----------------------------------------------------------------------------
(* A device has the times of the merges that saw it; before the leases are read
   the ARP table that was read is the present one, but for what moved since. *)
LanInv ==
  /\ arp = [ip \in IPs |-> arp[ip]] /\ arps = [ip \in IPs |-> arps[ip]]
  /\ leases = [ip \in IPs |-> leases[ip]]
  /\ \A ip \in IPs :
       /\ leases[ip].mac = Lan!None => leases[ip] = Lan!Unseen
       /\ seen[ip] \subseteq 0 .. clock
       /\ devices[ip] = Lan!Unknown <=> seen[ip] = {}
       /\ seen[ip] # {} =>
            /\ devices[ip].first \in seen[ip] /\ devices[ip].last \in seen[ip]
            /\ \A t \in seen[ip] : devices[ip].first <= t /\ t <= devices[ip].last
       /\ devices[ip].mac # Lan!None => \E s \in shown : s.ip = ip /\ s.obs.mac = devices[ip].mac
       /\ devices[ip].host # Lan!None => \E s \in shown : s.ip = ip /\ s.obs.host = devices[ip].host
       /\ refresh = "leases" /\ ip \notin stale => arps[ip] = arp[ip]
       /\ refresh = "idle" /\ ip \notin stale =>
            /\ leases[ip] # Lan!Unseen => devices[ip].mac = leases[ip].mac
            /\ leases[ip] = Lan!Unseen /\ arp[ip] # Lan!None => devices[ip].mac = arp[ip]

-----------------------------------------------------------------------------
(* Index i is the last sight of address a in the history h. *)
Latest(h, a, i) ==
  i \in DOMAIN h /\ a \in h[i].ips /\ \A j \in DOMAIN h : a \in h[j].ips => j <= i

Sighting == [ips : SUBSET Addresses, at : Nat, ttl : TTLs]

(* The addresses a history shows in the window that ends at t. *)
Within(h, t) == {a \in Addresses : \E i \in DOMAIN h : a \in h[i].ips /\ h[i].at >= t - FluxWindow}

(* The records e of a domain are the last sights of the addresses its history h
   shows in the window that ended when it was last asked for. *)
Recorded(e, h) ==
  /\ e.lastSeen \in 0 .. clock
  /\ \A i \in DOMAIN h : h[i].at <= e.lastSeen
  /\ \A i, j \in DOMAIN h : i <= j => h[i].at <= h[j].at
  /\ DOMAIN e.ips = Within(h, e.lastSeen)
  /\ \A a \in DOMAIN e.ips :
       \E i \in DOMAIN h : /\ Latest(h, a, i)
                           /\ e.ips[a].lastSeen = h[i].at /\ e.ips[a].ttl = h[i].ttl

FluxInv ==
  /\ DOMAIN tracked \subseteq FluxDomains /\ IsFiniteSet(DOMAIN tracked)
  /\ Cardinality(DOMAIN tracked) <= MaxDomains
  /\ observed = [d \in FluxDomains |-> observed[d]]
  /\ \A d \in FluxDomains : observed[d] \in Seq(Sighting)
  /\ \A d \in FluxDomains \ DOMAIN tracked : observed[d] = <<>>
  /\ \A d \in DOMAIN tracked : Recorded(tracked[d], observed[d])

-----------------------------------------------------------------------------
(* Time does not run backwards. *)
LEMMA TimePasses ==
  ASSUME clock \in Nat, [Next]_vars
  PROVE  clock' \in Nat /\ clock <= clock'
<1>1. CASE CacheNext
  <2>1. ASSUME NEW q \in Cache!Questions, Cache!GetStaleHit(q) PROVE clock' = clock
    BY <2>1 DEF Cache!GetStaleHit
  <2>2. ASSUME NEW q \in Cache!Questions, Cache!GetStaleExpired(q) PROVE clock' = clock
    BY <2>2 DEF Cache!GetStaleExpired
  <2>3. ASSUME NEW q \in Cache!Questions, NEW m \in Messages, Cache!Put(q, m) PROVE clock' = clock
    BY <2>3 DEF Cache!Put
  <2>4. Cache!Tick => clock' = clock + 1
    BY DEF Cache!Tick
  <2>5. QED
    BY <1>1, <2>1, <2>2, <2>3, <2>4 DEF CacheNext, Cache!Next
<1>2. CASE LimiterNext
  <2>1. ASSUME NEW h \in Handlers, Limiter!Allow(h) PROVE clock' = clock
    BY <2>1 DEF Limiter!Allow
  <2>2. ASSUME NEW h \in Handlers, NEW c \in Clients, Limiter!ReadNow(h, c) PROVE clock' = clock
    BY <2>2 DEF Limiter!ReadNow
  <2>3. Limiter!Tick => clock' = clock + 1
    BY DEF Limiter!Tick
  <2>4. QED
    BY <1>2, <2>1, <2>2, <2>3 DEF LimiterNext, Limiter!Next
<1>3. CASE FluxNext
  <2>1. ASSUME NEW d \in FluxDomains, NEW ips \in (SUBSET Addresses) \ {{}}, NEW ttl \in TTLs,
               Flux!Observe(d, ips, ttl)
        PROVE  clock' = clock
    BY <2>1 DEF Flux!Observe
  <2>2. Flux!Tick => clock' = clock + 1
    BY DEF Flux!Tick
  <2>3. QED
    BY <1>3, <2>1, <2>2 DEF FluxNext, Flux!Next
<1>4. CASE NodNext
  <2>1. ASSUME NEW d \in NodDomains, Nod!FirstSight(d) \/ Nod!SeenAgain(d) PROVE clock' = clock
    BY <2>1 DEF Nod!FirstSight, Nod!SeenAgain
  <2>2. Nod!Tick => clock' = clock + 1
    BY DEF Nod!Tick
  <2>3. QED
    BY <1>4, <2>1, <2>2 DEF NodNext, Nod!Next
<1>5. CASE AlerterNext
  <2>1. ASSUME NEW b \in Blockers, Alerter!CountHit(b) \/ Alerter!Fire(b) \/ Alerter!SinkAlert(b)
        PROVE  clock' = clock
    BY <2>1 DEF Alerter!CountHit, Alerter!Fire, Alerter!SinkAlert
  <2>2. ASSUME NEW b \in Blockers, NEW c \in Devices, Alerter!ReadClock(b, c) PROVE clock' = clock
    BY <2>2 DEF Alerter!ReadClock
  <2>3. Alerter!Tick => clock' = clock + 1
    BY DEF Alerter!Tick
  <2>4. QED
    BY <1>5, <2>1, <2>2, <2>3 DEF AlerterNext, Alerter!Next
<1>6. CASE MetricsNext
  <2>1. ASSUME NEW r \in Recorders,
               \/ Metrics!CurrentSlice(r) \/ Metrics!LoadNext(r) \/ Metrics!ResetStart(r)
               \/ Metrics!ResetCounters(r) \/ Metrics!StoreCurrent(r) \/ Metrics!Record(r)
        PROVE  clock' = clock
    BY <2>1 DEF Metrics!CurrentSlice, Metrics!LoadNext, Metrics!ResetStart,
       Metrics!ResetCounters, Metrics!StoreCurrent, Metrics!Record
  <2>2. Metrics!Tick => clock' = clock + 1
    BY DEF Metrics!Tick
  <2>3. QED
    BY <1>6, <2>1, <2>2 DEF MetricsNext, Metrics!Next
<1>7. CASE LanNext
  <2>1. Lan!Pass => clock' = clock + 1
    BY DEF Lan!Pass
  <2>2. Lan!ReadARP \/ Lan!ReadLeases \/ Lan!LeasesErr \/ Lan!Stop => clock' = clock
    BY DEF Lan!ReadARP, Lan!ReadLeases, Lan!LeasesErr, Lan!Merge, Lan!Stop
  <2>3. ASSUME NEW ip \in IPs, Lan!Move(ip) PROVE clock' = clock
    BY <2>3 DEF Lan!Move
  <2>4. QED
    BY <1>7, <2>1, <2>2, <2>3 DEF LanNext, Lan!Next
<1>8. CASE ThreatNext
  BY <1>8 DEF ThreatNext
<1>9. CASE UNCHANGED vars
  BY <1>9 DEF vars
<1>10. QED
  BY <1>1, <1>2, <1>3, <1>4, <1>5, <1>6, <1>7, <1>8, <1>9 DEF Next

-----------------------------------------------------------------------------
(* The ledger's part of a step. *)
NodStepped == Nod!Next \/ UNCHANGED nodVars

(* The size of the ledger after a first sight, and what it drops. *)
LEMMA LedgerSize ==
  ASSUME clock \in Nat, NodInv, NEW d \in NodDomains, d \notin DOMAIN firstSeen,
         NEW gone \in Nod!EvictIfFull
  PROVE  /\ gone \subseteq DOMAIN firstSeen
         /\ IsFiniteSet((DOMAIN firstSeen \ gone) \cup {d})
         /\ Cardinality((DOMAIN firstSeen \ gone) \cup {d}) <= MaxFirstSeen
         /\ \A g \in gone : Nod!OldestFirst(g) /\ Cardinality(DOMAIN firstSeen) = MaxFirstSeen
<1> DEFINE D == DOMAIN firstSeen
<1>1. IsFiniteSet(D) /\ Cardinality(D) \in Nat /\ Cardinality(D) <= MaxFirstSeen
  BY FS_CardinalityType DEF NodInv
<1>2. Nod!Cardinality(D) = Cardinality(D)
  BY DEF Cardinality, Nod!Cardinality
<1>3. CASE Cardinality(D) < MaxFirstSeen
  <2>1. gone = {}
    BY <1>2, <1>3 DEF Nod!EvictIfFull
  <2>2. Cardinality(D \cup {d}) = Cardinality(D) + 1 /\ IsFiniteSet(D \cup {d})
    BY <1>1, FS_AddElement
  <2>3. (D \ gone) \cup {d} = D \cup {d}
    BY <2>1
  <2>4. QED
    BY <1>1, <1>3, <2>1, <2>2, <2>3, TrackersAssumption
<1>4. CASE ~(Cardinality(D) < MaxFirstSeen)
  <2>1. PICK g \in D : gone = {g} /\ Nod!OldestFirst(g)
    BY <1>2, <1>4 DEF Nod!EvictIfFull
  <2>2. Cardinality(D) = MaxFirstSeen
    BY <1>1, <1>4, TrackersAssumption
  <2>3. Cardinality(D \ {g}) = Cardinality(D) - 1 /\ IsFiniteSet(D \ {g})
    BY <1>1, FS_RemoveElement
  <2>4. d \notin D \ {g}
    OBVIOUS
  <2>5. Cardinality((D \ {g}) \cup {d}) = Cardinality(D \ {g}) + 1
        /\ IsFiniteSet((D \ {g}) \cup {d})
    BY <2>3, <2>4, FS_AddElement
  <2>6. QED
    BY <1>1, <2>1, <2>2, <2>3, <2>5, TrackersAssumption
<1>5. QED
  BY <1>3, <1>4

(* A first sight is recorded, what makes room for it is dropped for good. *)
LEMMA NodStep ==
  ASSUME clock \in Nat, clock' \in Nat, clock <= clock', NodInv, NodStepped
  PROVE  NodInv'
<1>1. CASE UNCHANGED nodVars
  <2>1. UNCHANGED <<firstSeen, ever, aged, evicted>>
    BY <1>1 DEF nodVars
  <2>2. \A d \in DOMAIN firstSeen : firstSeen[d] \in 0 .. clock'
    BY DEF NodInv
  <2>3. aged \ evicted \subseteq DOMAIN firstSeen
    BY DEF NodInv
  <2>4. ASSUME NEW d \in aged \ evicted PROVE clock' - firstSeen[d] >= NodWindow
    <3>1. firstSeen[d] \in Nat /\ clock - firstSeen[d] >= NodWindow
      BY <2>3 DEF NodInv
    <3>2. QED
      BY <3>1, TrackersAssumption
  <2>5. QED
    BY <2>1, <2>2, <2>4 DEF NodInv
<1>2. CASE Nod!Tick
  BY <1>1, <1>2 DEF Nod!Tick, Nod!nodVars, nodVars
<1>3. ASSUME NEW d \in NodDomains, Nod!FirstSight(d) PROVE NodInv'
  <2>1. PICK gone \in Nod!EvictIfFull :
          /\ firstSeen' = [e \in (DOMAIN firstSeen \ gone) \cup {d} |->
                             IF e = d THEN clock ELSE firstSeen[e]]
          /\ evicted' = evicted \cup gone
    BY <1>3 DEF Nod!FirstSight
  <2>2. /\ d \notin DOMAIN firstSeen /\ UNCHANGED <<clock, aged>>
        /\ ever' = [ever EXCEPT ![d] = IF ever[d] = Nod!NeverSeen THEN clock ELSE ever[d]]
    BY <1>3 DEF Nod!FirstSight
  <2>3. /\ gone \subseteq DOMAIN firstSeen
        /\ IsFiniteSet((DOMAIN firstSeen \ gone) \cup {d})
        /\ Cardinality((DOMAIN firstSeen \ gone) \cup {d}) <= MaxFirstSeen
    BY <2>1, <2>2, LedgerSize
  <2>4. DOMAIN firstSeen' = (DOMAIN firstSeen \ gone) \cup {d}
    BY <2>1
  <2>5. /\ DOMAIN firstSeen' \subseteq NodDomains /\ IsFiniteSet(DOMAIN firstSeen')
        /\ Cardinality(DOMAIN firstSeen') <= MaxFirstSeen
    BY <2>3, <2>4 DEF NodInv
  <2>6. \A e \in DOMAIN firstSeen' : firstSeen'[e] \in 0 .. clock'
    BY <2>1, <2>2 DEF NodInv
  <2>7. ever' = [e \in NodDomains |-> ever'[e]]
    BY <2>2 DEF NodInv
  <2>8. ASSUME NEW e \in NodDomains \ evicted'
        PROVE  IF e \in DOMAIN firstSeen' THEN ever'[e] = firstSeen'[e]
               ELSE ever'[e] = Nod!NeverSeen /\ e \notin aged'
    <3>1. CASE e = d
      BY <2>1, <2>2, <2>4, <3>1 DEF NodInv
    <3>2. CASE e # d
      BY <2>1, <2>2, <2>3, <2>4, <3>2 DEF NodInv
    <3>3. QED
      BY <3>1, <3>2
  <2>9. \A e \in aged' \ evicted' : clock' - firstSeen'[e] >= NodWindow
    BY <2>1, <2>2, <2>3 DEF NodInv
  <2>10. QED
    BY <2>2, <2>5, <2>6, <2>7, <2>8, <2>9 DEF NodInv
<1>4. ASSUME NEW d \in NodDomains, Nod!SeenAgain(d) PROVE NodInv'
  BY <1>4, TrackersAssumption DEF Nod!SeenAgain, Nod!StillNew, NodInv
<1>5. QED
  BY <1>1, <1>2, <1>3, <1>4 DEF NodStepped, Nod!Next

(* What a call reports and what the ledger drops. *)
LEMMA NodAction ==
  ASSUME clock \in Nat, NodInv, NodStepped
  PROVE  Nod!NewMatchesFirstSight /\ Nod!DropsOldestFirst
<1>1. Nod!Cardinality(DOMAIN firstSeen) = Cardinality(DOMAIN firstSeen)
      /\ Nod!Cardinality(DOMAIN firstSeen') = Cardinality(DOMAIN firstSeen')
  BY DEF Cardinality, Nod!Cardinality
<1>2. CASE UNCHANGED <<firstSeen, isNew>>
  BY <1>1, <1>2 DEF NodInv, Nod!NewMatchesFirstSight, Nod!DropsOldestFirst
<1>3. CASE UNCHANGED nodVars \/ Nod!Tick
  BY <1>2, <1>3 DEF Nod!Tick, Nod!nodVars, nodVars
<1>4. ASSUME NEW d \in NodDomains, Nod!FirstSight(d)
      PROVE  Nod!NewMatchesFirstSight /\ Nod!DropsOldestFirst
  <2>1. PICK gone \in Nod!EvictIfFull :
          firstSeen' = [e \in (DOMAIN firstSeen \ gone) \cup {d} |->
                          IF e = d THEN clock ELSE firstSeen[e]]
    BY <1>4 DEF Nod!FirstSight
  <2>2. /\ d \notin DOMAIN firstSeen /\ UNCHANGED clock
        /\ ever' = [ever EXCEPT ![d] = IF ever[d] = Nod!NeverSeen THEN clock ELSE ever[d]]
        /\ isNew' = [domain |-> d, new |-> TRUE]
    BY <1>4 DEF Nod!FirstSight
  <2>3. /\ gone \subseteq DOMAIN firstSeen
        /\ Cardinality((DOMAIN firstSeen \ gone) \cup {d}) <= MaxFirstSeen
        /\ \A g \in gone : Nod!OldestFirst(g) /\ Cardinality(DOMAIN firstSeen) = MaxFirstSeen
    BY <2>1, <2>2, LedgerSize
  <2>4. DOMAIN firstSeen' = (DOMAIN firstSeen \ gone) \cup {d}
    BY <2>1
  <2>5. d \notin evicted => ever'[d] = clock /\ d \notin aged
    BY <2>2 DEF NodInv
  <2>6. isNew'.domain = d /\ isNew'.new
    BY <2>2
  <2>7. Nod!NewMatchesFirstSight
    BY <2>5, <2>6, TrackersAssumption DEF Nod!NewMatchesFirstSight
  <2>8. ASSUME NEW g \in DOMAIN firstSeen \ DOMAIN firstSeen', NEW e \in DOMAIN firstSeen'
        PROVE  firstSeen[g] <= firstSeen'[e]
    <3>1. g \in gone
      BY <2>4
    <3>2. CASE e = d
      BY <2>1, <3>2 DEF NodInv
    <3>3. CASE e # d
      BY <2>1, <2>3, <2>4, <3>1, <3>3 DEF Nod!OldestFirst
    <3>4. QED
      BY <3>2, <3>3
  <2>9. Nod!DropsOldestFirst
    BY <1>1, <2>3, <2>4, <2>8 DEF Nod!DropsOldestFirst
  <2>10. QED
    BY <2>7, <2>9
<1>5. ASSUME NEW d \in NodDomains, Nod!SeenAgain(d)
      PROVE  Nod!NewMatchesFirstSight /\ Nod!DropsOldestFirst
  <2>1. /\ d \in DOMAIN firstSeen /\ UNCHANGED <<clock, firstSeen, ever, evicted>>
        /\ isNew'.domain = d /\ (isNew'.new <=> Nod!StillNew(d))
    BY <1>5 DEF Nod!SeenAgain
  <2>2. Nod!StillNew(d) <=> clock - firstSeen[d] < NodWindow
    BY DEF Nod!StillNew
  <2>3. d \notin evicted => ever'[d] = firstSeen[d]
                            /\ (d \in aged => clock - firstSeen[d] >= NodWindow)
    BY <2>1 DEF NodInv
  <2>4. firstSeen[d] \in Nat
    BY <2>1 DEF NodInv
  <2>5. Nod!NewMatchesFirstSight
    BY <2>1, <2>2, <2>3, <2>4, TrackersAssumption DEF Nod!NewMatchesFirstSight
  <2>6. Nod!DropsOldestFirst
    BY <1>1, <2>1 DEF NodInv, Nod!DropsOldestFirst
  <2>7. QED
    BY <2>5, <2>6
<1>6. QED
  BY <1>3, <1>4, <1>5 DEF NodStepped, Nod!Next

-----------------------------------------------------------------------------
(* The inventory's part of a step. *)
LanStepped == Lan!Next \/ UNCHANGED lanVars

(* What a merge makes of the device of an address, for the observation o. *)
LEMMA Merged ==
  ASSUME clock \in Nat, LanInv, NEW ip \in IPs, NEW ls, Lan!Merge(ls)
  PROVE  LET o == Lan!Observed(ip, ls)
         IN  /\ o = Lan!Unseen => devices'[ip] = devices[ip] /\ seen'[ip] = seen[ip]
             /\ o # Lan!Unseen =>
                  /\ devices'[ip].mac = Lan!KeepOr(o.mac, devices[ip].mac)
                  /\ devices'[ip].host = Lan!KeepOr(o.host, devices[ip].host)
                  /\ devices'[ip].first = Lan!FirstSeen(devices[ip])
                  /\ devices'[ip].last = clock
                  /\ devices'[ip] # Lan!Unknown
                  /\ seen'[ip] = seen[ip] \cup {clock}
<1> DEFINE o == Lan!Observed(ip, ls)
<1>1. /\ devices'[ip] = Lan!MergedDevice(devices[ip], o)
      /\ seen'[ip] = IF o = Lan!Unseen THEN seen[ip] ELSE seen[ip] \cup {clock}
  BY DEF Lan!Merge
<1>2. CASE o = Lan!Unseen
  BY <1>1, <1>2 DEF Lan!MergedDevice
<1>3. CASE o # Lan!Unseen
  <2>1. devices'[ip] = [mac |-> Lan!KeepOr(o.mac, devices[ip].mac),
                        host |-> Lan!KeepOr(o.host, devices[ip].host),
                        first |-> Lan!FirstSeen(devices[ip]), last |-> clock]
    BY <1>1, <1>3 DEF Lan!MergedDevice
  <2>2. o.mac # Lan!None \/ o.host # Lan!None
    BY <1>3 DEF Lan!Observed, Lan!Unseen
  <2>3. devices'[ip].mac # Lan!None \/ devices'[ip].host # Lan!None
    BY <2>1, <2>2 DEF Lan!KeepOr
  <2>4. devices'[ip] # Lan!Unknown
    BY <2>3 DEF Lan!Unknown
  <2>5. QED
    BY <1>1, <1>3, <2>1, <2>4
<1>4. QED
  BY <1>2, <1>3

(* The times, the MAC and the name of a device after a merge. *)
LEMMA MergeKeeps ==
  ASSUME clock \in Nat, LanInv, NEW ip \in IPs, NEW ls, Lan!Merge(ls)
  PROVE  /\ seen'[ip] \subseteq 0 .. clock
         /\ devices'[ip] = Lan!Unknown <=> seen'[ip] = {}
         /\ seen'[ip] # {} =>
              /\ devices'[ip].first \in seen'[ip] /\ devices'[ip].last \in seen'[ip]
              /\ \A t \in seen'[ip] : devices'[ip].first <= t /\ t <= devices'[ip].last
         /\ devices'[ip].mac # Lan!None =>
              \E s \in shown' : s.ip = ip /\ s.obs.mac = devices'[ip].mac
         /\ devices'[ip].host # Lan!None =>
              \E s \in shown' : s.ip = ip /\ s.obs.host = devices'[ip].host
<1> DEFINE o == Lan!Observed(ip, ls)
           sight == [ip |-> ip, obs |-> o]
<1>1. shown \subseteq shown' /\ sight \in shown' /\ sight.ip = ip /\ sight.obs = o
  BY DEF Lan!Merge
<1>2. CASE o = Lan!Unseen
  <2>1. devices'[ip] = devices[ip] /\ seen'[ip] = seen[ip]
    BY <1>2, Merged
  <2>2. QED
    BY <1>1, <2>1 DEF LanInv
<1>3. CASE o # Lan!Unseen
  <2> HIDE DEF o, sight
  <2>1. /\ devices'[ip].mac = Lan!KeepOr(o.mac, devices[ip].mac)
        /\ devices'[ip].host = Lan!KeepOr(o.host, devices[ip].host)
        /\ devices'[ip].first = Lan!FirstSeen(devices[ip])
        /\ devices'[ip].last = clock
        /\ devices'[ip] # Lan!Unknown
        /\ seen'[ip] = seen[ip] \cup {clock}
    BY <1>3, Merged DEF o
  <2>2. seen[ip] \subseteq 0 .. clock
    BY DEF LanInv
  <2>3. seen'[ip] \subseteq 0 .. clock /\ seen'[ip] # {}
    BY <2>1, <2>2
  <2>4. /\ devices'[ip].first \in seen'[ip] /\ devices'[ip].last \in seen'[ip]
        /\ \A t \in seen'[ip] : devices'[ip].first <= t /\ t <= devices'[ip].last
    <3>1. CASE devices[ip] = Lan!Unknown
      <4>1. seen[ip] = {} /\ devices'[ip].first = clock
        BY <2>1, <3>1 DEF LanInv, Lan!FirstSeen
      <4>2. seen'[ip] = {clock}
        BY <2>1, <4>1
      <4>3. \A t \in seen'[ip] : devices'[ip].first <= t /\ t <= devices'[ip].last
        BY <2>1, <4>1, <4>2
      <4>4. QED
        BY <2>1, <4>1, <4>2, <4>3
    <3>2. CASE devices[ip] # Lan!Unknown
      <4>1. devices'[ip].first = devices[ip].first
        BY <2>1, <3>2 DEF Lan!FirstSeen
      <4>2. devices[ip].first \in seen[ip] /\ \A t \in seen[ip] : devices[ip].first <= t
        BY <3>2 DEF LanInv
      <4>3. devices[ip].first \in 0 .. clock
        BY <2>2, <4>2
      <4>4. \A t \in seen'[ip] : devices'[ip].first <= t /\ t <= devices'[ip].last
        BY <2>1, <2>2, <4>1, <4>2, <4>3
      <4>5. QED
        BY <2>1, <4>1, <4>2, <4>4
    <3>3. QED
      BY <3>1, <3>2
  <2>5. devices'[ip].mac # Lan!None =>
          \E s \in shown' : s.ip = ip /\ s.obs.mac = devices'[ip].mac
    BY <1>1, <2>1 DEF LanInv, Lan!KeepOr
  <2>6. devices'[ip].host # Lan!None =>
          \E s \in shown' : s.ip = ip /\ s.obs.host = devices'[ip].host
    BY <1>1, <2>1 DEF LanInv, Lan!KeepOr
  <2>7. QED
    BY <2>1, <2>3, <2>4, <2>5, <2>6
<1>4. QED
  BY <1>2, <1>3

(* A merge names the devices; anything else that happens to an address makes
   it stale, or leaves it as it was. *)
LEMMA LanStep ==
  ASSUME clock \in Nat, clock' \in Nat, clock <= clock', LanInv, LanStepped
  PROVE  LanInv'
<1>1. CASE UNCHANGED lanVars
  <2>1. UNCHANGED <<arp, leases, refresh, arps, devices, shown, seen, stale>>
    BY <1>1 DEF lanVars
  <2>2. \A ip \in IPs : seen[ip] \subseteq 0 .. clock'
    BY DEF LanInv
  <2>3. QED
    BY <2>1, <2>2 DEF LanInv
<1>2. CASE Lan!Pass
  <2>1. UNCHANGED <<arp, leases, refresh, arps, devices, moves, shown, seen, stale>>
    BY <1>2 DEF Lan!Pass, Lan!netVars
  <2>2. QED
    BY <1>1, <2>1 DEF lanVars
<1>3. ASSUME NEW i \in IPs, Lan!Move(i) PROVE LanInv'
  <2>1. /\ UNCHANGED <<clock, refresh, arps, devices, shown, seen>> /\ stale' = stale \cup {i}
        /\ \/ \E m : arp' = [arp EXCEPT ![i] = m] /\ UNCHANGED leases
           \/ \E l : /\ leases' = [leases EXCEPT ![i] = l] /\ UNCHANGED arp
                     /\ l = Lan!Unseen \/ l.mac # Lan!None
    BY <1>3 DEF Lan!Move
  <2>2. /\ arp' = [ip \in IPs |-> arp'[ip]] /\ leases' = [ip \in IPs |-> leases'[ip]]
        /\ \A ip \in IPs \ {i} : arp'[ip] = arp[ip] /\ leases'[ip] = leases[ip]
        /\ leases'[i].mac = Lan!None => leases'[i] = Lan!Unseen
    BY <2>1 DEF LanInv
  <2>3. QED
    BY <2>1, <2>2 DEF LanInv
<1>4. CASE Lan!ReadARP
  <2>1. /\ UNCHANGED <<clock, arp, leases, devices, shown, seen>>
        /\ arps' = arp /\ refresh' = "leases"
    BY <1>4 DEF Lan!ReadARP, Lan!netVars
  <2>2. QED
    BY <2>1 DEF LanInv
<1>5. CASE Lan!Stop
  <2>1. UNCHANGED <<clock, arp, leases, arps, devices, shown, seen, stale>> /\ refresh' = "stopped"
    BY <1>5 DEF Lan!Stop, Lan!netVars
  <2>2. QED
    BY <2>1 DEF LanInv
<1>6. CASE Lan!ReadLeases
  <2>1. Lan!Merge(leases) /\ UNCHANGED <<clock, arp, leases, stale>> /\ refresh = "leases"
        /\ refresh' = "idle" /\ arps' = [ip \in IPs |-> Lan!None]
    BY <1>6 DEF Lan!ReadLeases, Lan!Merge, Lan!netVars
  <2>2. ASSUME NEW ip \in IPs, ip \notin stale
        PROVE  /\ leases[ip] # Lan!Unseen => devices'[ip].mac = leases[ip].mac
               /\ leases[ip] = Lan!Unseen /\ arp[ip] # Lan!None => devices'[ip].mac = arp[ip]
    <3> DEFINE o == Lan!Observed(ip, leases)
    <3>1. arps[ip] = arp[ip]
      BY <2>1, <2>2 DEF LanInv
    <3>2. o # Lan!Unseen => devices'[ip].mac = Lan!KeepOr(o.mac, devices[ip].mac)
      BY <2>1, Merged
    <3>3. leases[ip] # Lan!Unseen => leases[ip].mac # Lan!None /\ o.mac = leases[ip].mac
      BY DEF LanInv, Lan!Observed
    <3>4. leases[ip] = Lan!Unseen /\ arp[ip] # Lan!None => o.mac = arp[ip]
      BY <3>1 DEF Lan!Observed, Lan!Unseen
    <3>5. o.mac # Lan!None => o # Lan!Unseen
      BY DEF Lan!Unseen
    <3> HIDE DEF o
    <3>6. QED
      BY <3>2, <3>3, <3>4, <3>5 DEF Lan!KeepOr
  <2>3. \A ip \in IPs : leases[ip].mac = Lan!None => leases[ip] = Lan!Unseen
    BY DEF LanInv
  <2>4. arp' = [ip \in IPs |-> arp'[ip]] /\ leases' = [ip \in IPs |-> leases'[ip]]
    BY <2>1 DEF LanInv
  <2>5. QED
    BY <2>1, <2>2, <2>3, <2>4, MergeKeeps DEF LanInv
<1>7. CASE Lan!LeasesErr
  <2> DEFINE none == [ip \in IPs |-> Lan!Unseen]
  <2>1. Lan!Merge(none) /\ UNCHANGED <<clock, arp, leases>> /\ stale' = IPs
        /\ refresh' = "idle" /\ arps' = [ip \in IPs |-> Lan!None]
    BY <1>7 DEF Lan!LeasesErr, Lan!Merge, Lan!netVars
  <2>2. \A ip \in IPs : leases[ip].mac = Lan!None => leases[ip] = Lan!Unseen
    BY DEF LanInv
  <2>3. arp' = [ip \in IPs |-> arp'[ip]] /\ leases' = [ip \in IPs |-> leases'[ip]]
    BY <2>1 DEF LanInv
  <2> HIDE DEF none
  <2>4. QED
    BY <2>1, <2>2, <2>3, MergeKeeps DEF LanInv
<1>8. QED
  BY <1>1, <1>2, <1>3, <1>4, <1>5, <1>6, <1>7 DEF LanStepped, Lan!Next

-----------------------------------------------------------------------------
(* The tracker's part of a step. *)
FluxStepped == Flux!Next \/ UNCHANGED fluxVars

(* The sight that an answer adds to a history. *)
Sight(ips, ttl) == [ips |-> ips, at |-> clock, ttl |-> ttl]

(* A history with one sight more. *)
LEMMA SightAdded ==
  ASSUME clock \in Nat, NEW h \in Seq(Sighting), NEW ips \in SUBSET Addresses, NEW ttl \in TTLs
  PROVE  LET h2 == Append(h, Sight(ips, ttl))
             n  == Len(h) + 1
         IN  /\ h2 \in Seq(Sighting) /\ DOMAIN h2 = DOMAIN h \cup {n}
             /\ \A i \in DOMAIN h : h2[i] = h[i] /\ i < n /\ i \in Nat /\ h[i] \in Sighting
             /\ n \in Nat /\ h2[n].ips = ips /\ h2[n].at = clock /\ h2[n].ttl = ttl
<1>1. Sight(ips, ttl) \in Sighting
  BY Zenon DEF Sight, Sighting
<1>2. /\ Sight(ips, ttl).ips = ips /\ Sight(ips, ttl).at = clock /\ Sight(ips, ttl).ttl = ttl
  BY DEF Sight
<1>3. QED
  BY <1>1, <1>2

(* The addresses the tracker held of a domain, and how they show in its history. *)
OldRecords(d) == IF d \in DOMAIN tracked THEN tracked[d].ips ELSE [a \in {} |-> 0]

LEMMA OldAreRecorded ==
  ASSUME clock \in Nat, FluxInv, NEW d \in FluxDomains
  PROVE  LET h   == observed[d]
             old == OldRecords(d)
         IN  /\ \A i \in DOMAIN h : h[i].at <= clock
             /\ \A i, j \in DOMAIN h : i <= j => h[i].at <= h[j].at
             /\ \A a \in Addresses, i \in DOMAIN h :
                  a \in h[i].ips /\ h[i].at >= clock - FluxWindow => a \in DOMAIN old
             /\ DOMAIN old \subseteq Addresses
             /\ \A a \in DOMAIN old :
                  \E i \in DOMAIN h : /\ Latest(h, a, i)
                                      /\ old[a].lastSeen = h[i].at /\ old[a].ttl = h[i].ttl
<1> DEFINE h == observed[d]
<1>1. h \in Seq(Sighting) /\ \A i \in DOMAIN h : h[i].at \in Nat
  <2>1. h \in Seq(Sighting)
    BY DEF FluxInv
  <2>2. \A i \in DOMAIN h : h[i] \in Sighting
    BY <2>1
  <2>3. QED
    BY <2>1, <2>2 DEF Sighting
<1>2. CASE d \notin DOMAIN tracked
  <2>1. h = <<>> /\ OldRecords(d) = [a \in {} |-> 0]
    BY <1>2 DEF FluxInv, OldRecords
  <2>2. DOMAIN h = {} /\ DOMAIN OldRecords(d) = {}
    BY <2>1
  <2>3. QED
    BY <2>2
<1>3. CASE d \in DOMAIN tracked
  <2> DEFINE e == tracked[d]
  <2>1. Recorded(e, h) /\ OldRecords(d) = e.ips
    BY <1>3 DEF FluxInv, OldRecords
  <2>2. e.lastSeen \in Nat /\ e.lastSeen <= clock
    BY <2>1 DEF Recorded
  <2>3. \A i \in DOMAIN h : h[i].at <= clock
    BY <1>1, <2>1, <2>2 DEF Recorded
  <2>4. ASSUME NEW a \in Addresses, NEW i \in DOMAIN h, a \in h[i].ips, h[i].at >= clock - FluxWindow
        PROVE  a \in DOMAIN e.ips
    <3>1. h[i].at >= e.lastSeen - FluxWindow
      BY <1>1, <2>2, <2>4, TrackersAssumption
    <3>2. a \in Within(h, e.lastSeen)
      BY <2>4, <3>1 DEF Within
    <3>3. QED
      BY <2>1, <3>2 DEF Recorded
  <2>5. DOMAIN e.ips \subseteq Addresses
    BY <2>1 DEF Recorded, Within
  <2>6. QED
    BY <2>1, <2>3, <2>4, <2>5 DEF Recorded
<1>4. QED
  BY <1>2, <1>3

(* What the tracker keeps of a domain after an answer: the last sights of the
   addresses its history now shows in the window. *)
LEMMA RecordsAreLatest ==
  ASSUME clock \in Nat, FluxInv, NEW d \in FluxDomains, NEW ips \in SUBSET Addresses, NEW ttl \in TTLs
  PROVE  LET h2   == Append(observed[d], Sight(ips, ttl))
             recs == Flux!Records(d, ips, ttl)
         IN  /\ DOMAIN recs = Within(h2, clock)
             /\ \A a \in DOMAIN recs :
                  \E i \in DOMAIN h2 : /\ Latest(h2, a, i) /\ h2[i].at >= clock - FluxWindow
                                       /\ recs[a].lastSeen = h2[i].at /\ recs[a].ttl = h2[i].ttl
             /\ \A i \in DOMAIN h2 : h2[i].at <= clock
             /\ \A i, j \in DOMAIN h2 : i <= j => h2[i].at <= h2[j].at
<1> DEFINE h      == observed[d]
           old    == OldRecords(d)
           n      == Len(h) + 1
           h2     == Append(h, Sight(ips, ttl))
           merged == [a \in ips \cup DOMAIN old |->
                        IF a \in ips THEN [lastSeen |-> clock, ttl |-> ttl] ELSE old[a]]
           recs   == Flux!Records(d, ips, ttl)
<1>1. h \in Seq(Sighting)
  BY DEF FluxInv
<1>2. /\ h2 \in Seq(Sighting) /\ DOMAIN h2 = DOMAIN h \cup {n}
      /\ \A i \in DOMAIN h : h2[i] = h[i] /\ i < n /\ i \in Nat /\ h[i] \in Sighting
      /\ n \in Nat /\ h2[n].ips = ips /\ h2[n].at = clock /\ h2[n].ttl = ttl
  BY <1>1, SightAdded
<1>3. /\ \A i \in DOMAIN h : h[i].at <= clock
      /\ \A i, j \in DOMAIN h : i <= j => h[i].at <= h[j].at
      /\ \A a \in Addresses, i \in DOMAIN h :
           a \in h[i].ips /\ h[i].at >= clock - FluxWindow => a \in DOMAIN old
      /\ DOMAIN old \subseteq Addresses
      /\ \A a \in DOMAIN old :
           \E i \in DOMAIN h : /\ Latest(h, a, i)
                               /\ old[a].lastSeen = h[i].at /\ old[a].ttl = h[i].ttl
  BY OldAreRecorded
<1>4. recs = [a \in {a \in ips \cup DOMAIN old : merged[a].lastSeen >= clock - FluxWindow} |-> merged[a]]
  BY DEF Flux!Records, Flux!Restrict, Flux!InWindow, OldRecords
<1>5. \A i \in DOMAIN h : h[i].at \in Nat
  BY <1>2 DEF Sighting
<1> HIDE DEF h, h2, n, old, recs
<1>6. \A a \in ips : merged[a].lastSeen = clock /\ merged[a].ttl = ttl
  OBVIOUS
<1>7. \A a \in DOMAIN old \ ips : merged[a] = old[a]
  OBVIOUS
<1> HIDE DEF merged
<1>8. /\ DOMAIN recs = {a \in ips \cup DOMAIN old : merged[a].lastSeen >= clock - FluxWindow}
      /\ \A a \in DOMAIN recs : recs[a] = merged[a]
  BY <1>4
<1>9. clock >= clock - FluxWindow
  BY TrackersAssumption
<1>10. \A a \in ips : Latest(h2, a, n)
  BY <1>2 DEF Latest
<1>11. \A a \in DOMAIN old \ ips : \A i : Latest(h, a, i) => Latest(h2, a, i) /\ i \in DOMAIN h
  BY <1>2 DEF Latest
<1>12. ASSUME NEW a \in DOMAIN recs
       PROVE  \E i \in DOMAIN h2 : /\ Latest(h2, a, i) /\ h2[i].at >= clock - FluxWindow
                                   /\ recs[a].lastSeen = h2[i].at /\ recs[a].ttl = h2[i].ttl
  <2>1. CASE a \in ips
    BY <1>2, <1>6, <1>8, <1>9, <1>10, <2>1
  <2>2. CASE a \notin ips
    <3>1. a \in DOMAIN old \ ips /\ recs[a] = old[a] /\ old[a].lastSeen >= clock - FluxWindow
      BY <1>7, <1>8, <2>2
    <3>2. PICK i \in DOMAIN h : /\ Latest(h, a, i)
                                /\ old[a].lastSeen = h[i].at /\ old[a].ttl = h[i].ttl
      BY <1>3, <3>1
    <3>3. i \in DOMAIN h2 /\ h2[i] = h[i] /\ Latest(h2, a, i)
      BY <1>2, <1>11, <3>1, <3>2
    <3>4. QED
      BY <3>1, <3>2, <3>3
  <2>3. QED
    BY <2>1, <2>2
<1>13. DOMAIN recs \subseteq Within(h2, clock)
  <2>1. DOMAIN recs \subseteq Addresses
    BY <1>3, <1>8
  <2>2. QED
    BY <1>12, <2>1 DEF Within, Latest
<1>14. ASSUME NEW a \in Within(h2, clock) PROVE a \in DOMAIN recs
  <2>1. CASE a \in ips
    BY <1>6, <1>8, <1>9, <2>1
  <2>2. CASE a \notin ips
    <3>1. PICK j \in DOMAIN h2 : a \in h2[j].ips /\ h2[j].at >= clock - FluxWindow
      BY DEF Within
    <3>2. j \in DOMAIN h /\ h2[j] = h[j]
      BY <1>2, <2>2, <3>1
    <3>3. a \in DOMAIN old
      BY <1>3, <3>1, <3>2 DEF Within
    <3>4. PICK i \in DOMAIN h : Latest(h, a, i) /\ old[a].lastSeen = h[i].at
      BY <1>3, <3>3
    <3>5. h[j].at <= h[i].at
      BY <1>3, <3>1, <3>2, <3>4 DEF Latest
    <3>6. old[a].lastSeen >= clock - FluxWindow
      BY <1>5, <3>1, <3>2, <3>4, <3>5, TrackersAssumption
    <3>7. QED
      BY <1>7, <1>8, <2>2, <3>3, <3>6
  <2>3. QED
    BY <2>1, <2>2
<1>15. \A i \in DOMAIN h2 : h2[i].at <= clock
  BY <1>2, <1>3
<1>16. ASSUME NEW i \in DOMAIN h2, NEW j \in DOMAIN h2, i <= j PROVE h2[i].at <= h2[j].at
  <2>1. CASE j = n
    BY <1>2, <1>15, <2>1
  <2>2. CASE j # n
    <3>1. j \in DOMAIN h /\ j < n /\ j \in Nat
      BY <1>2, <2>2
    <3>2. i # n
      BY <1>2, <1>16, <3>1
    <3>3. QED
      BY <1>2, <1>3, <1>16, <3>1, <3>2
  <2>3. QED
    BY <2>1, <2>2
<1>17. DOMAIN recs = Within(h2, clock)
  BY <1>13, <1>14
<1>18. QED
  BY <1>12, <1>15, <1>16, <1>17 DEF h2, recs, h

(* The size of the tracker after an answer, and what it forgets. *)
LEMMA TrackerSize ==
  ASSUME clock \in Nat, FluxInv, NEW d \in FluxDomains, NEW gone \in Flux!Evictable(d)
  PROVE  /\ gone \subseteq DOMAIN tracked /\ d \notin gone
         /\ IsFiniteSet((DOMAIN tracked \ gone) \cup {d})
         /\ Cardinality((DOMAIN tracked \ gone) \cup {d}) <= MaxDomains
         /\ \A g \in gone : Flux!Oldest(g)
<1> DEFINE D == DOMAIN tracked
<1>1. IsFiniteSet(D) /\ Cardinality(D) \in Nat /\ Cardinality(D) <= MaxDomains
  BY FS_CardinalityType DEF FluxInv
<1>2. Flux!Cardinality(D) = Cardinality(D)
  BY DEF Cardinality, Flux!Cardinality
<1>3. CASE d \in D
  <2>1. gone = {}
    BY <1>3 DEF Flux!Evictable
  <2>2. (D \ gone) \cup {d} = D
    BY <1>3, <2>1
  <2>3. QED
    BY <1>1, <2>1, <2>2
<1>4. CASE d \notin D /\ Cardinality(D) < MaxDomains
  <2>1. gone = {}
    BY <1>1, <1>2, <1>4, TrackersAssumption DEF Flux!Evictable
  <2>2. Cardinality(D \cup {d}) = Cardinality(D) + 1 /\ IsFiniteSet(D \cup {d})
    BY <1>1, <1>4, FS_AddElement
  <2>3. (D \ gone) \cup {d} = D \cup {d}
    BY <2>1
  <2>4. QED
    BY <1>1, <1>4, <2>1, <2>2, <2>3, TrackersAssumption
<1>5. CASE d \notin D /\ ~(Cardinality(D) < MaxDomains)
  <2>1. PICK g \in D : gone = {g} /\ Flux!Oldest(g)
    BY <1>1, <1>2, <1>5, TrackersAssumption DEF Flux!Evictable
  <2>2. Cardinality(D \ {g}) = Cardinality(D) - 1 /\ IsFiniteSet(D \ {g})
    BY <1>1, FS_RemoveElement
  <2>3. d \notin D \ {g}
    BY <1>5
  <2>4. Cardinality((D \ {g}) \cup {d}) = Cardinality(D \ {g}) + 1
        /\ IsFiniteSet((D \ {g}) \cup {d})
    BY <2>2, <2>3, FS_AddElement
  <2>5. QED
    BY <1>1, <1>5, <2>1, <2>2, <2>4, TrackersAssumption
<1>6. QED
  BY <1>3, <1>4, <1>5

(* What an answer does to the tracker: the other domains are as they were, but
   for those forgotten, and this one has its records. *)
LEMMA Observed ==
  ASSUME clock \in Nat, FluxInv,
         NEW d \in FluxDomains, NEW ips \in SUBSET Addresses, NEW ttl \in TTLs,
         Flux!Observe(d, ips, ttl)
  PROVE  \E gone \in Flux!Evictable(d) :
           /\ DOMAIN tracked' = (DOMAIN tracked \ gone) \cup {d}
           /\ tracked'[d].lastSeen = clock
           /\ tracked'[d].ips = Flux!Records(d, ips, ttl)
           /\ \A e \in DOMAIN tracked' \ {d} : tracked'[e] = tracked[e]
           /\ observed' = [e \in FluxDomains |-> observed'[e]]
           /\ observed'[d] = Append(observed[d], Sight(ips, ttl))
           /\ \A e \in gone : observed'[e] = <<>>
           /\ \A e \in FluxDomains \ (gone \cup {d}) : observed'[e] = observed[e]
<1>1. PICK gone \in Flux!Evictable(d) :
        /\ tracked' = [e \in (DOMAIN tracked \ gone) \cup {d} |->
                         IF e = d THEN [lastSeen |-> clock, ips |-> Flux!Records(d, ips, ttl)]
                         ELSE tracked[e]]
        /\ observed' = [e \in FluxDomains |->
                          IF e \in gone THEN <<>>
                          ELSE IF e = d THEN Append(observed[e], Sight(ips, ttl))
                          ELSE observed[e]]
  BY Zenon DEF Flux!Observe, Sight
<1>2. gone \subseteq DOMAIN tracked /\ d \notin gone
  BY TrackerSize
<1>3. gone \subseteq FluxDomains
  BY <1>2 DEF FluxInv
<1>4. tracked'[d] = [lastSeen |-> clock, ips |-> Flux!Records(d, ips, ttl)]
  BY <1>1
<1>5. tracked'[d].lastSeen = clock /\ tracked'[d].ips = Flux!Records(d, ips, ttl)
  BY <1>4
<1>6. /\ DOMAIN tracked' = (DOMAIN tracked \ gone) \cup {d}
      /\ \A e \in DOMAIN tracked' \ {d} : tracked'[e] = tracked[e]
  BY <1>1
<1>7. /\ observed' = [e \in FluxDomains |-> observed'[e]]
      /\ observed'[d] = Append(observed[d], Sight(ips, ttl))
      /\ \A e \in gone : observed'[e] = <<>>
      /\ \A e \in FluxDomains \ (gone \cup {d}) : observed'[e] = observed[e]
  BY <1>1, <1>2, <1>3
<1>8. QED
  BY <1>5, <1>6, <1>7

(* The records of a domain stay its last sights, whatever is asked for. *)
LEMMA FluxStep ==
  ASSUME clock \in Nat, clock' \in Nat, clock <= clock', FluxInv, FluxStepped
  PROVE  FluxInv'
<1>1. ASSUME UNCHANGED <<tracked, observed>> PROVE FluxInv'
  <2>1. ASSUME NEW d \in DOMAIN tracked PROVE tracked[d].lastSeen \in 0 .. clock'
    <3>1. tracked[d].lastSeen \in 0 .. clock
      BY DEF FluxInv, Recorded
    <3>2. QED
      BY <3>1
  <2>2. \A d \in DOMAIN tracked : Recorded(tracked[d], observed[d])'
    BY <1>1, <2>1 DEF FluxInv, Recorded, Within, Latest
  <2>3. QED
    BY <1>1, <2>2 DEF FluxInv
<1>2. CASE UNCHANGED fluxVars \/ Flux!Tick
  BY <1>1, <1>2 DEF Flux!Tick, Flux!fluxVars, fluxVars
<1>3. ASSUME NEW d \in FluxDomains, NEW ips \in (SUBSET Addresses) \ {{}}, NEW ttl \in TTLs,
             Flux!Observe(d, ips, ttl)
      PROVE  FluxInv'
  <2>1. PICK gone \in Flux!Evictable(d) :
          /\ DOMAIN tracked' = (DOMAIN tracked \ gone) \cup {d}
          /\ tracked'[d].lastSeen = clock
          /\ tracked'[d].ips = Flux!Records(d, ips, ttl)
          /\ \A e \in DOMAIN tracked' \ {d} : tracked'[e] = tracked[e]
          /\ observed' = [e \in FluxDomains |-> observed'[e]]
          /\ observed'[d] = Append(observed[d], Sight(ips, ttl))
          /\ \A e \in gone : observed'[e] = <<>>
          /\ \A e \in FluxDomains \ (gone \cup {d}) : observed'[e] = observed[e]
    BY <1>3, Observed
  <2>2. /\ gone \subseteq DOMAIN tracked /\ d \notin gone
        /\ IsFiniteSet(DOMAIN tracked') /\ Cardinality(DOMAIN tracked') <= MaxDomains
    <3>1. /\ gone \subseteq DOMAIN tracked /\ d \notin gone
          /\ IsFiniteSet((DOMAIN tracked \ gone) \cup {d})
          /\ Cardinality((DOMAIN tracked \ gone) \cup {d}) <= MaxDomains
      BY TrackerSize
    <3>2. DOMAIN tracked' = (DOMAIN tracked \ gone) \cup {d}
      BY <2>1
    <3>3. QED
      BY <3>1, <3>2
  <2>3. clock' = clock
    BY <1>3 DEF Flux!Observe
  <2>4. DOMAIN tracked' \subseteq FluxDomains
    BY <2>1 DEF FluxInv
  <2>5. ASSUME NEW e \in FluxDomains PROVE observed'[e] \in Seq(Sighting)
    <3>1. observed[e] \in Seq(Sighting)
      BY DEF FluxInv
    <3>2. Append(observed[d], Sight(ips, ttl)) \in Seq(Sighting)
      BY SightAdded DEF FluxInv
    <3>3. <<>> \in Seq(Sighting)
      OBVIOUS
    <3>4. QED
      BY <2>1, <3>1, <3>2, <3>3, Zenon
  <2>6. ASSUME NEW e \in FluxDomains \ DOMAIN tracked' PROVE observed'[e] = <<>>
    BY <2>1 DEF FluxInv
  <2>7. Recorded(tracked'[d], observed'[d])
    <3> DEFINE h2   == Append(observed[d], Sight(ips, ttl))
               recs == Flux!Records(d, ips, ttl)
    <3>1. /\ DOMAIN recs = Within(h2, clock)
          /\ \A a \in DOMAIN recs :
               \E i \in DOMAIN h2 : /\ Latest(h2, a, i) /\ h2[i].at >= clock - FluxWindow
                                    /\ recs[a].lastSeen = h2[i].at /\ recs[a].ttl = h2[i].ttl
          /\ \A i \in DOMAIN h2 : h2[i].at <= clock
          /\ \A i, j \in DOMAIN h2 : i <= j => h2[i].at <= h2[j].at
      BY RecordsAreLatest
    <3> HIDE DEF h2, recs
    <3>2. tracked'[d].lastSeen = clock /\ tracked'[d].ips = recs /\ observed'[d] = h2
      BY <2>1 DEF h2, recs
    <3>3. clock \in 0 .. clock
      OBVIOUS
    <3>4. QED
      BY <3>1, <3>2, <3>3 DEF Recorded
  <2>8. ASSUME NEW e \in DOMAIN tracked' PROVE Recorded(tracked'[e], observed'[e])
    <3>1. CASE e = d
      BY <2>7, <3>1
    <3>2. CASE e # d
      <4>1. e \in DOMAIN tracked /\ e \notin gone
        BY <2>1, <3>2
      <4>2. Recorded(tracked[e], observed[e])
        BY <4>1 DEF FluxInv
      <4>3. tracked'[e] = tracked[e] /\ observed'[e] = observed[e]
        BY <2>1, <2>4, <3>2, <4>1
      <4>4. QED
        BY <4>2, <4>3
    <3>3. QED
      BY <3>1, <3>2
  <2>9. \A e \in DOMAIN tracked' : Recorded(tracked[e], observed[e])'
    BY <2>3, <2>8 DEF Recorded, Within, Latest
  <2>10. QED
    BY <2>1, <2>2, <2>4, <2>5, <2>6, <2>9 DEF FluxInv
<1>4. QED
  BY <1>2, <1>3 DEF FluxStepped, Flux!Next

(* The verdict of a call, and whom the tracker forgets. *)
LEMMA FluxAction ==
  ASSUME clock \in Nat, FluxInv, FluxStepped
  PROVE  Flux!FlagMatchesHistory /\ Flux!ForgetsLeastRecentlySeen
<1>1. Flux!Cardinality(DOMAIN tracked') = Cardinality(DOMAIN tracked')
  BY DEF Cardinality, Flux!Cardinality
<1>2. ASSUME UNCHANGED fluxVars
      PROVE  Flux!FlagMatchesHistory /\ Flux!ForgetsLeastRecentlySeen
  <2>1. UNCHANGED <<tracked, observed, verdict>>
    BY <1>2 DEF fluxVars
  <2>2. Flux!FlagMatchesHistory
    BY <2>1 DEF Flux!FlagMatchesHistory
  <2>3. Flux!ForgetsLeastRecentlySeen
    BY <1>1, <2>1 DEF FluxInv, Flux!ForgetsLeastRecentlySeen
  <2>4. QED
    BY <2>2, <2>3
<1>3. CASE Flux!Tick
  BY <1>2, <1>3 DEF Flux!Tick, Flux!fluxVars, fluxVars
<1>4. ASSUME NEW d \in FluxDomains, NEW ips \in (SUBSET Addresses) \ {{}}, NEW ttl \in TTLs,
             Flux!Observe(d, ips, ttl)
      PROVE  Flux!FlagMatchesHistory /\ Flux!ForgetsLeastRecentlySeen
  <2> DEFINE recs == Flux!Records(d, ips, ttl)
             h2   == Append(observed[d], Sight(ips, ttl))
  <2>1. PICK gone \in Flux!Evictable(d) :
          /\ DOMAIN tracked' = (DOMAIN tracked \ gone) \cup {d}
          /\ tracked'[d].lastSeen = clock
          /\ tracked'[d].ips = recs
          /\ \A e \in DOMAIN tracked' \ {d} : tracked'[e] = tracked[e]
          /\ observed' = [e \in FluxDomains |-> observed'[e]]
          /\ observed'[d] = h2
          /\ \A e \in gone : observed'[e] = <<>>
          /\ \A e \in FluxDomains \ (gone \cup {d}) : observed'[e] = observed[e]
    BY <1>4, Observed
  <2>2. /\ gone \subseteq DOMAIN tracked /\ \A g \in gone : Flux!Oldest(g)
        /\ Cardinality(DOMAIN tracked') <= MaxDomains
    BY <2>1, TrackerSize
  <2>3. verdict'.domain = d /\ (verdict'.flagged <=> Flux!LooksFastFlux(recs))
    BY <1>4 DEF Flux!Observe
  <2>4. /\ DOMAIN recs = Within(h2, clock)
        /\ \A a \in DOMAIN recs :
             \E i \in DOMAIN h2 : /\ Latest(h2, a, i) /\ h2[i].at >= clock - FluxWindow
                                  /\ recs[a].lastSeen = h2[i].at /\ recs[a].ttl = h2[i].ttl
    BY RecordsAreLatest
  <2>5. DOMAIN h2 \subseteq Nat
    <3>1. observed[d] \in Seq(Sighting)
      BY DEF FluxInv
    <3>2. h2 \in Seq(Sighting)
      BY <3>1, SightAdded
    <3>3. QED
      BY <3>2
  <2> HIDE DEF recs, h2
  <2>6. Flux!SeenIn(h2) = DOMAIN recs
    BY <2>4 DEF Flux!SeenIn, Flux!Sights, Within
  <2>7. ASSUME NEW a \in DOMAIN recs
        PROVE  recs[a].ttl <= TTLMax <=>
                 \E i \in Flux!Sights(h2, a) :
                   h2[i].ttl <= TTLMax /\ \A j \in Flux!Sights(h2, a) : j <= i
    <3>1. PICK i \in DOMAIN h2 : /\ Latest(h2, a, i) /\ h2[i].at >= clock - FluxWindow
                                 /\ recs[a].ttl = h2[i].ttl
      BY <2>4
    <3>2. i \in Flux!Sights(h2, a) /\ \A j \in Flux!Sights(h2, a) : j <= i
      BY <3>1 DEF Flux!Sights, Latest
    <3>3. ASSUME NEW k \in Flux!Sights(h2, a), \A j \in Flux!Sights(h2, a) : j <= k PROVE k = i
      <4>1. k \in Nat /\ i \in Nat
        BY <2>5 DEF Flux!Sights
      <4>2. k <= i /\ i <= k
        BY <3>2, <3>3
      <4>3. QED
        BY <4>1, <4>2
    <3>4. QED
      BY <3>1, <3>2, <3>3
  <2>8. Flux!FlagMatchesHistory
    BY <2>1, <2>3, <2>6, <2>7 DEF Flux!FlagMatchesHistory, Flux!LooksFastFlux
  <2>9. ASSUME NEW g \in DOMAIN tracked \ DOMAIN tracked', NEW e \in DOMAIN tracked'
        PROVE  tracked[g].lastSeen <= tracked'[e].lastSeen
    <3>1. g \in gone
      BY <2>1
    <3>2. CASE e = d
      <4>1. tracked[g].lastSeen \in 0 .. clock
        BY DEF FluxInv, Recorded
      <4>2. QED
        BY <2>1, <3>2, <4>1
    <3>3. CASE e # d
      BY <2>1, <2>2, <3>1, <3>3 DEF Flux!Oldest
    <3>4. QED
      BY <3>2, <3>3
  <2>10. Flux!ForgetsLeastRecentlySeen
    BY <1>1, <2>2, <2>9 DEF Flux!ForgetsLeastRecentlySeen
  <2>11. QED
    BY <2>8, <2>10
<1>5. QED
  BY <1>2, <1>3, <1>4 DEF FluxStepped, Flux!Next

-----------------------------------------------------------------------------
(* A set of naturals has a least element. *)
LEMMA LeastNatural ==
  ASSUME NEW S, S \subseteq Nat, S # {}
  PROVE  \E n \in S : \A m \in S : n <= m
<1> DEFINE R == OpToRel(<, Nat)
<1>1. IsWellFoundedOn(R, Nat)
  BY NatLessThanWellFounded
<1>2. \A x, y \in Nat : x < y => <<x, y>> \in R
  BY DEF OpToRel
<1> HIDE DEF R
<1>3. PICK n \in S : \A m \in S : <<m, n>> \notin R
  BY <1>1, WFMin
<1>4. ASSUME NEW m \in S PROVE n <= m
  <2>1. m \in Nat /\ n \in Nat /\ ~(m < n)
    BY <1>2, <1>3
  <2>2. QED
    BY <2>1
<1>5. QED
  BY <1>4

-----------------------------------------------------------------------------
(* The hits a client may have had, and the handlers at the sink for it. *)
AlertHits(c) == [no : 1 .. all[c], at : 0 .. clock]
AtSink(c) == {b \in Blockers : call[b].at = "sink" /\ call[b].client = c}

(* What the window dropped of the hits since the last alert is out of it for
   good, since no handler's time is ahead of the clock. *)
ClientInv(c) ==
  /\ hits[c] \subseteq AlertHits(c) /\ IsFiniteSet(hits[c])
  /\ Cardinality(hits[c]) < AlertThreshold
  /\ \A h \in since[c] : h \in AlertHits(c) /\ (h.at > clock - AlertWindow => h \in hits[c])
  /\ fired[c] * AlertThreshold + Cardinality(hits[c]) <= all[c]
  /\ fired[c] > 0 => /\ suspected[c].hits = AlertThreshold
                     /\ suspected[c].firstHit > suspected[c].firedAt - AlertWindow

SinkInv(c) == IsFiniteSet(AtSink(c)) /\ fired[c] = sent[c] + Cardinality(AtSink(c))

CallInv(b) ==
  call[b] # Alerter!Returned =>
    call[b] \in [at : {"lock", "sink"}, client : Devices, now : 0 .. clock]

AlertInv ==
  /\ call = [b \in Blockers |-> call[b]] /\ hits = [c \in Devices |-> hits[c]]
  /\ suspected = [c \in Devices |-> suspected[c]] /\ since = [c \in Devices |-> since[c]]
  /\ sent \in [Devices -> Nat] /\ fired \in [Devices -> Nat] /\ all \in [Devices -> Nat]
  /\ \A b \in Blockers : CallInv(b)
  /\ \A c \in Devices : ClientInv(c) /\ SinkInv(c)

AlertStepped == Alerter!Next \/ UNCHANGED alertVars

(* The hits of a client after one more: those kept and the new one, which is
   none of them. *)
LEMMA HitAdded ==
  ASSUME clock \in Nat, AlertInv, NEW b \in Blockers, call[b].at = "lock",
         NEW c, NEW now, c = call[b].client, now = call[b].now
  PROVE  LET s == Alerter!Kept(c, now) \cup {Alerter!Hit(c, now)}
         IN  /\ c \in Devices /\ now \in 0 .. clock
             /\ s \subseteq [no : 1 .. all[c] + 1, at : 0 .. clock]
             /\ \A h \in s : h.at > now - AlertWindow
             /\ IsFiniteSet(s) /\ Cardinality(s) \in Nat
             /\ Cardinality(s) <= Cardinality(hits[c]) + 1
             /\ Alerter!Cardinality(s) = Cardinality(s)
<1> DEFINE kept == Alerter!Kept(c, now)
           new  == Alerter!Hit(c, now)
           s    == kept \cup {new}
<1>1. call[b] # Alerter!Returned
  BY DEF Alerter!Returned
<1>2. c \in Devices /\ now \in 0 .. clock
  BY <1>1 DEF AlertInv, CallInv
<1>3. /\ hits[c] \subseteq AlertHits(c) /\ IsFiniteSet(hits[c]) /\ all[c] \in Nat
  BY <1>2 DEF AlertInv, ClientInv
<1>4. kept \subseteq hits[c] /\ \A h \in kept : h.at > now - AlertWindow
  BY DEF Alerter!Kept
<1>5. new \in [no : 1 .. all[c] + 1, at : 0 .. clock] /\ new.at = now
  BY <1>2, <1>3 DEF Alerter!Hit
<1>6. new.at > now - AlertWindow
  BY <1>2, <1>5, TrackersAssumption
<1>7. new \notin kept
  <2>1. new.no = all[c] + 1
    BY DEF Alerter!Hit
  <2>2. \A h \in kept : h.no <= all[c]
    BY <1>3, <1>4 DEF AlertHits
  <2>3. QED
    BY <1>3, <2>1, <2>2
<1>8. IsFiniteSet(kept) /\ Cardinality(kept) <= Cardinality(hits[c])
  BY <1>3, <1>4, FS_Subset
<1>9. IsFiniteSet(s) /\ Cardinality(s) = Cardinality(kept) + 1
  BY <1>7, <1>8, FS_AddElement
<1>10. Cardinality(kept) \in Nat /\ Cardinality(hits[c]) \in Nat
  BY <1>3, <1>8, FS_CardinalityType
<1>11. Alerter!Cardinality(s) = Cardinality(s)
  BY DEF Cardinality, Alerter!Cardinality
<1>12. s \subseteq [no : 1 .. all[c] + 1, at : 0 .. clock]
  BY <1>3, <1>4, <1>5 DEF AlertHits
<1>13. \A h \in s : h.at > now - AlertWindow
  BY <1>4, <1>6
<1>14. Cardinality(s) \in Nat /\ Cardinality(s) <= Cardinality(hits[c]) + 1
  BY <1>8, <1>9, <1>10
<1> HIDE DEF kept, new, s
<1>15. QED
  BY <1>2, <1>9, <1>11, <1>12, <1>13, <1>14 DEF kept, new, s

(* Time alone drops nothing the window still holds. *)
LEMMA AlertWaits ==
  ASSUME clock \in Nat, clock' \in Nat, clock <= clock', AlertInv, UNCHANGED alertVars
  PROVE  AlertInv'
<1>1. UNCHANGED <<call, hits, suspected, sent, fired, all, since>>
  BY DEF alertVars
<1>2. ASSUME NEW b \in Blockers PROVE CallInv(b)'
  <2>1. CallInv(b)
    BY DEF AlertInv
  <2>2. QED
    BY <1>1, <2>1 DEF CallInv
<1>3. ASSUME NEW c \in Devices PROVE ClientInv(c)' /\ SinkInv(c)'
  <2>1. ClientInv(c) /\ SinkInv(c)
    BY DEF AlertInv
  <2>2. AlertHits(c) \subseteq AlertHits(c)'
    BY <1>1 DEF AlertHits
  <2>3. ASSUME NEW h \in since[c]
        PROVE  h \in AlertHits(c)' /\ (h.at > clock' - AlertWindow => h \in hits[c])
    <3>1. h \in AlertHits(c) /\ (h.at > clock - AlertWindow => h \in hits[c])
      BY <2>1 DEF ClientInv
    <3>2. h.at \in Nat
      BY <3>1 DEF AlertHits
    <3>3. h.at > clock' - AlertWindow => h.at > clock - AlertWindow
      BY <3>2, TrackersAssumption
    <3>4. QED
      BY <2>2, <3>1, <3>3
  <2>4. ClientInv(c)'
    BY <1>1, <2>1, <2>2, <2>3 DEF ClientInv
  <2>5. SinkInv(c)'
    BY <1>1, <2>1 DEF SinkInv, AtSink
  <2>6. QED
    BY <2>4, <2>5
<1>4. QED
  BY <1>1, <1>2, <1>3 DEF AlertInv

(* A call that starts is ready for the lock, with the present time. *)
LEMMA AlertReads ==
  ASSUME clock \in Nat, AlertInv, NEW b \in Blockers, NEW c \in Devices, Alerter!ReadClock(b, c)
  PROVE  AlertInv'
<1>1. /\ call[b] = Alerter!Returned
      /\ call' = [call EXCEPT ![b] = [at |-> "lock", client |-> c, now |-> clock]]
      /\ UNCHANGED <<clock, hits, suspected, sent, fired, all, since>>
  BY DEF Alerter!ReadClock
<1>2. /\ call' = [x \in Blockers |-> call'[x]]
      /\ call'[b] = [at |-> "lock", client |-> c, now |-> clock]
      /\ \A x \in Blockers \ {b} : call'[x] = call[x]
  BY <1>1 DEF AlertInv
<1>3. ASSUME NEW x \in Blockers PROVE CallInv(x)'
  <2>1. CASE x = b
    BY <1>1, <1>2, <2>1 DEF CallInv
  <2>2. CASE x # b
    BY <1>1, <1>2, <2>2 DEF AlertInv, CallInv
  <2>3. QED
    BY <2>1, <2>2
<1>4. ASSUME NEW e \in Devices PROVE ClientInv(e)' /\ SinkInv(e)'
  <2>1. ClientInv(e)'
    BY <1>1 DEF AlertInv, ClientInv, AlertHits
  <2>2. AtSink(e)' = AtSink(e)
    BY <1>1, <1>2 DEF AtSink, Alerter!Returned
  <2>3. SinkInv(e)'
    BY <1>1, <2>2 DEF AlertInv, SinkInv
  <2>4. QED
    BY <2>1, <2>3
<1>5. QED
  BY <1>1, <1>2, <1>3, <1>4 DEF AlertInv

(* A hit below the threshold is kept. *)
LEMMA AlertCounts ==
  ASSUME clock \in Nat, AlertInv, NEW b \in Blockers, Alerter!CountHit(b)
  PROVE  AlertInv'
<1>0. PICK c, now : c = call[b].client /\ now = call[b].now
  OBVIOUS
<1> DEFINE new == Alerter!Hit(c, now)
           s   == Alerter!Kept(c, now) \cup {new}
<1>1. /\ call[b].at = "lock" /\ all' = [all EXCEPT ![c] = all[c] + 1]
      /\ Alerter!Cardinality(s) < AlertThreshold
      /\ hits' = [hits EXCEPT ![c] = s]
      /\ since' = [since EXCEPT ![c] = since[c] \cup {new}]
      /\ call' = [call EXCEPT ![b] = Alerter!Returned]
      /\ UNCHANGED <<clock, suspected, sent, fired>>
  BY <1>0 DEF Alerter!CountHit, Alerter!Count
<1>2. /\ c \in Devices /\ now \in 0 .. clock
      /\ s \subseteq [no : 1 .. all[c] + 1, at : 0 .. clock]
      /\ \A h \in s : h.at > now - AlertWindow
      /\ IsFiniteSet(s) /\ Cardinality(s) \in Nat
      /\ Cardinality(s) <= Cardinality(hits[c]) + 1
      /\ Alerter!Cardinality(s) = Cardinality(s)
  BY <1>0, <1>1, HitAdded
<1>3. /\ call' = [x \in Blockers |-> call'[x]] /\ call'[b] = Alerter!Returned
      /\ \A x \in Blockers \ {b} : call'[x] = call[x]
      /\ hits' = [e \in Devices |-> hits'[e]] /\ hits'[c] = s
      /\ \A e \in Devices \ {c} : hits'[e] = hits[e]
      /\ since' = [e \in Devices |-> since'[e]] /\ since'[c] = since[c] \cup {new}
      /\ \A e \in Devices \ {c} : since'[e] = since[e]
      /\ all' \in [Devices -> Nat] /\ all'[c] = all[c] + 1
      /\ \A e \in Devices \ {c} : all'[e] = all[e]
  <2>1. c \in Devices
    BY <1>2
  <2> HIDE DEF s, new
  <2>2. /\ call' = [x \in Blockers |-> call'[x]] /\ call'[b] = Alerter!Returned
        /\ \A x \in Blockers \ {b} : call'[x] = call[x]
    BY <1>1 DEF AlertInv
  <2>3. /\ hits' = [e \in Devices |-> hits'[e]] /\ hits'[c] = s
        /\ \A e \in Devices \ {c} : hits'[e] = hits[e]
    BY <1>1, <2>1 DEF AlertInv
  <2>4. /\ since' = [e \in Devices |-> since'[e]] /\ since'[c] = since[c] \cup {new}
        /\ \A e \in Devices \ {c} : since'[e] = since[e]
    BY <1>1, <2>1 DEF AlertInv
  <2>5. /\ all' \in [Devices -> Nat] /\ all'[c] = all[c] + 1
        /\ \A e \in Devices \ {c} : all'[e] = all[e]
    BY <1>1, <2>1 DEF AlertInv
  <2>6. QED
    BY <2>2, <2>3, <2>4, <2>5
<1>4. ASSUME NEW x \in Blockers PROVE CallInv(x)'
  BY <1>1, <1>3 DEF AlertInv, CallInv
<1>5. ASSUME NEW h \in hits[c], h.at > clock - AlertWindow PROVE h \in s
  <2>1. h.at \in Nat
    BY <1>2 DEF AlertInv, ClientInv, AlertHits
  <2>2. h.at > now - AlertWindow
    BY <1>2, <1>5, <2>1, TrackersAssumption
  <2>3. QED
    BY <2>2 DEF Alerter!Kept
<1>6. new \in s
  OBVIOUS
<1> HIDE DEF s, new
<1>7. ClientInv(c)'
  <2>1. ClientInv(c) /\ all[c] \in Nat /\ fired[c] \in Nat
    BY <1>2 DEF AlertInv
  <2>2. hits'[c] \subseteq AlertHits(c)'
    BY <1>1, <1>2, <1>3 DEF AlertHits
  <2>3. AlertHits(c) \subseteq AlertHits(c)'
    BY <1>1, <1>3, <2>1 DEF AlertHits
  <2>4. ASSUME NEW h \in since'[c]
        PROVE  h \in AlertHits(c)' /\ (h.at > clock' - AlertWindow => h \in hits'[c])
    <3>1. CASE h = new
      BY <1>3, <1>6, <2>2, <3>1
    <3>2. CASE h \in since[c]
      BY <1>1, <1>3, <1>5, <2>1, <2>3, <3>2 DEF ClientInv
    <3>3. QED
      BY <1>3, <3>1, <3>2
  <2>5. Cardinality(hits'[c]) < AlertThreshold /\ IsFiniteSet(hits'[c])
    BY <1>1, <1>2, <1>3
  <2>6. fired[c] * AlertThreshold + Cardinality(hits[c]) <= all[c]
    BY <2>1 DEF ClientInv
  <2>7. Cardinality(hits[c]) \in Nat
    BY <2>1, FS_CardinalityType DEF ClientInv
  <2>8. fired[c] * AlertThreshold \in Nat
    BY <2>1, TrackersAssumption
  <2>9. fired[c] * AlertThreshold + Cardinality(s) <= all[c] + 1
    BY <1>2, <2>1, <2>6, <2>7, <2>8
  <2>10. QED
    BY <1>1, <1>3, <2>1, <2>2, <2>4, <2>5, <2>9 DEF ClientInv
<1>8. ASSUME NEW e \in Devices, e # c PROVE ClientInv(e)'
  BY <1>1, <1>3, <1>8 DEF AlertInv, ClientInv, AlertHits
<1>9. ASSUME NEW e \in Devices PROVE SinkInv(e)'
  <2>1. AtSink(e)' = AtSink(e)
    BY <1>0, <1>1, <1>3 DEF AtSink, Alerter!Returned
  <2>2. QED
    BY <1>1, <2>1 DEF AlertInv, SinkInv
<1>10. QED
  BY <1>1, <1>3, <1>4, <1>7, <1>8, <1>9 DEF AlertInv

(* An alert takes exactly the threshold, and the counter starts again. *)
LEMMA AlertFires ==
  ASSUME clock \in Nat, AlertInv, NEW b \in Blockers, Alerter!Fire(b)
  PROVE  AlertInv'
<1>0. PICK c, now : c = call[b].client /\ now = call[b].now
  OBVIOUS
<1> DEFINE s   == Alerter!Kept(c, now) \cup {Alerter!Hit(c, now)}
           al  == [firstHit |-> Alerter!First(s).at, firedAt |-> now,
                   hits |-> Alerter!Cardinality(s)]
<1>1. /\ call[b].at = "lock" /\ all' = [all EXCEPT ![c] = all[c] + 1]
      /\ Alerter!Cardinality(s) >= AlertThreshold
      /\ suspected' = [suspected EXCEPT ![c] = al]
      /\ hits' = [hits EXCEPT ![c] = {}]
      /\ fired' = [fired EXCEPT ![c] = fired[c] + 1]
      /\ since' = [since EXCEPT ![c] = {}]
      /\ call' = [call EXCEPT ![b].at = "sink"]
      /\ UNCHANGED <<clock, sent>>
  BY <1>0 DEF Alerter!Fire, Alerter!Count, Alerter!AfterAlert
<1>2. /\ c \in Devices /\ now \in 0 .. clock
      /\ s \subseteq [no : 1 .. all[c] + 1, at : 0 .. clock]
      /\ \A h \in s : h.at > now - AlertWindow
      /\ IsFiniteSet(s) /\ Cardinality(s) \in Nat
      /\ Cardinality(s) <= Cardinality(hits[c]) + 1
      /\ Alerter!Cardinality(s) = Cardinality(s)
  BY <1>0, <1>1, HitAdded
<1>3. Alerter!First(s) \in s
  <2>1. Alerter!Hit(c, now) \in s
    OBVIOUS
  <2> DEFINE N == {h.no : h \in s}
  <2>2. N \subseteq Nat /\ N # {}
    <3>1. \A h \in s : h.no \in Nat
      <4>1. ASSUME NEW h \in s PROVE h.no \in 1 .. all[c] + 1
        BY <1>2
      <4>2. QED
        BY <4>1
    <3>2. QED
      BY <2>1, <3>1
  <2>3. PICK n \in N : \A m \in N : n <= m
    BY <2>2, LeastNatural
  <2>4. PICK h \in s : h.no = n
    OBVIOUS
  <2>5. \A g \in s : h.no <= g.no
    BY <2>3, <2>4
  <2>6. QED
    BY <2>5 DEF Alerter!First
<1>4. Alerter!First(s).at > now - AlertWindow
  BY <1>2, <1>3
<1>5. ClientInv(c) /\ all[c] \in Nat /\ fired[c] \in Nat /\ sent[c] \in Nat
  BY <1>2 DEF AlertInv
<1>6. Cardinality(hits[c]) \in Nat
  BY <1>5, FS_CardinalityType DEF ClientInv
<1>7. Cardinality(s) = AlertThreshold /\ Cardinality(hits[c]) + 1 = AlertThreshold
  <2>1. Cardinality(hits[c]) < AlertThreshold /\ Cardinality(s) >= AlertThreshold
    BY <1>1, <1>2, <1>5 DEF ClientInv
  <2>2. Cardinality(s) \in Nat /\ Cardinality(s) <= Cardinality(hits[c]) + 1
    BY <1>2
  <2> HIDE DEF s
  <2>3. QED
    BY <1>6, <2>1, <2>2, TrackersAssumption
<1>8. al.hits = AlertThreshold /\ al.firstHit > al.firedAt - AlertWindow
  BY <1>2, <1>4, <1>7
<1> HIDE DEF s, al
<1>9. /\ call' = [x \in Blockers |-> call'[x]]
      /\ \A x \in Blockers \ {b} : call'[x] = call[x]
      /\ call'[b] = [at |-> "sink", client |-> c, now |-> now]
  <2>1. call[b] # Alerter!Returned
    BY <1>1 DEF Alerter!Returned
  <2>2. call' = [x \in Blockers |-> IF x = b THEN [call[b] EXCEPT !.at = "sink"] ELSE call[x]]
    BY <1>1 DEF AlertInv
  <2>3. call[b] \in [at : {"lock", "sink"}, client : Devices, now : 0 .. clock]
    BY <2>1 DEF AlertInv, CallInv
  <2>4. QED
    BY <1>0, <2>2, <2>3
<1>10. /\ hits' = [e \in Devices |-> hits'[e]] /\ hits'[c] = {}
       /\ \A e \in Devices \ {c} : hits'[e] = hits[e]
  BY <1>1, <1>2 DEF AlertInv
<1>11. /\ since' = [e \in Devices |-> since'[e]] /\ since'[c] = {}
       /\ \A e \in Devices \ {c} : since'[e] = since[e]
  BY <1>1, <1>2 DEF AlertInv
<1>12. /\ suspected' = [e \in Devices |-> suspected'[e]] /\ suspected'[c] = al
       /\ \A e \in Devices \ {c} : suspected'[e] = suspected[e]
  BY <1>1, <1>2 DEF AlertInv
<1>13. /\ all' \in [Devices -> Nat] /\ all'[c] = all[c] + 1
       /\ \A e \in Devices \ {c} : all'[e] = all[e]
  BY <1>1, <1>2 DEF AlertInv
<1>14. /\ fired' \in [Devices -> Nat] /\ fired'[c] = fired[c] + 1
       /\ \A e \in Devices \ {c} : fired'[e] = fired[e]
  BY <1>1, <1>2 DEF AlertInv
<1>15. ASSUME NEW x \in Blockers PROVE CallInv(x)'
  <2>1. CASE x = b
    BY <1>1, <1>2, <1>9, <2>1 DEF CallInv
  <2>2. CASE x # b
    BY <1>1, <1>9, <2>2 DEF AlertInv, CallInv
  <2>3. QED
    BY <2>1, <2>2
<1>16. ClientInv(c)'
  <2>1. IsFiniteSet({}) /\ Cardinality({}) = 0
    BY FS_EmptySet
  <2>2. fired[c] * AlertThreshold + Cardinality(hits[c]) <= all[c]
    BY <1>5 DEF ClientInv
  <2>3. fired'[c] * AlertThreshold = fired[c] * AlertThreshold + AlertThreshold
    BY <1>5, <1>14, TrackersAssumption
  <2>4. fired[c] * AlertThreshold \in Nat
    BY <1>5, TrackersAssumption
  <2>5. fired'[c] * AlertThreshold + 0 <= all'[c]
    BY <1>5, <1>6, <1>7, <1>13, <2>2, <2>3, <2>4, TrackersAssumption
  <2>6. QED
    BY <1>8, <1>10, <1>11, <1>12, <2>1, <2>5, TrackersAssumption DEF ClientInv
<1>17. ASSUME NEW e \in Devices, e # c PROVE ClientInv(e)' /\ SinkInv(e)'
  <2>1. ClientInv(e)'
    BY <1>1, <1>10, <1>11, <1>12, <1>13, <1>14, <1>17 DEF AlertInv, ClientInv, AlertHits
  <2>2. AtSink(e)' = AtSink(e)
    BY <1>0, <1>1, <1>9, <1>17 DEF AtSink
  <2>3. SinkInv(e)'
    BY <1>1, <1>14, <1>17, <2>2 DEF AlertInv, SinkInv
  <2>4. QED
    BY <2>1, <2>3
<1>18. SinkInv(c)'
  <2>1. IsFiniteSet(AtSink(c)) /\ fired[c] = sent[c] + Cardinality(AtSink(c))
    BY <1>2 DEF AlertInv, SinkInv
  <2>2. AtSink(c)' = AtSink(c) \cup {b} /\ b \notin AtSink(c)
    BY <1>0, <1>1, <1>9 DEF AtSink
  <2>3. Cardinality(AtSink(c) \cup {b}) = Cardinality(AtSink(c)) + 1
        /\ IsFiniteSet(AtSink(c) \cup {b})
    BY <2>1, <2>2, FS_AddElement
  <2>4. Cardinality(AtSink(c)) \in Nat
    BY <2>1, FS_CardinalityType
  <2>5. fired'[c] = sent'[c] + Cardinality(AtSink(c) \cup {b})
    BY <1>1, <1>5, <1>14, <2>1, <2>3, <2>4
  <2>6. QED
    BY <2>2, <2>3, <2>5 DEF SinkInv
<1>19. QED
  BY <1>1, <1>9, <1>10, <1>11, <1>12, <1>13, <1>14, <1>15, <1>16, <1>17, <1>18 DEF AlertInv

(* An alert is handed over once. *)
LEMMA AlertSinks ==
  ASSUME clock \in Nat, AlertInv, NEW b \in Blockers, Alerter!SinkAlert(b)
  PROVE  AlertInv'
<1>0. PICK c : c = call[b].client
  OBVIOUS
<1>1. /\ call[b].at = "sink" /\ sent' = [sent EXCEPT ![c] = sent[c] + 1]
      /\ call' = [call EXCEPT ![b] = Alerter!Returned]
      /\ UNCHANGED <<clock, hits, suspected, fired, all, since>>
  BY <1>0 DEF Alerter!SinkAlert
<1>2. c \in Devices
  BY <1>0, <1>1 DEF AlertInv, CallInv, Alerter!Returned
<1>3. /\ call' = [x \in Blockers |-> call'[x]] /\ call'[b] = Alerter!Returned
      /\ \A x \in Blockers \ {b} : call'[x] = call[x]
  BY <1>1 DEF AlertInv
<1>4. /\ sent' \in [Devices -> Nat] /\ sent'[c] = sent[c] + 1
      /\ \A e \in Devices \ {c} : sent'[e] = sent[e]
  BY <1>1, <1>2 DEF AlertInv
<1>5. ASSUME NEW x \in Blockers PROVE CallInv(x)'
  BY <1>1, <1>3 DEF AlertInv, CallInv
<1>6. ASSUME NEW e \in Devices PROVE ClientInv(e)'
  BY <1>1 DEF AlertInv, ClientInv, AlertHits
<1>7. ASSUME NEW e \in Devices, e # c PROVE SinkInv(e)'
  <2>1. AtSink(e)' = AtSink(e)
    BY <1>0, <1>1, <1>3, <1>7 DEF AtSink, Alerter!Returned
  <2>2. QED
    BY <1>1, <1>4, <1>7, <2>1 DEF AlertInv, SinkInv
<1>8. SinkInv(c)'
  <2>1. IsFiniteSet(AtSink(c)) /\ fired[c] = sent[c] + Cardinality(AtSink(c)) /\ sent[c] \in Nat
    BY <1>2 DEF AlertInv, SinkInv
  <2>2. AtSink(c)' = AtSink(c) \ {b} /\ b \in AtSink(c)
    BY <1>0, <1>1, <1>3 DEF AtSink, Alerter!Returned
  <2>3. Cardinality(AtSink(c) \ {b}) = Cardinality(AtSink(c)) - 1 /\ IsFiniteSet(AtSink(c) \ {b})
    BY <2>1, <2>2, FS_RemoveElement
  <2>4. Cardinality(AtSink(c)) \in Nat
    BY <2>1, FS_CardinalityType
  <2>5. fired'[c] = sent'[c] + Cardinality(AtSink(c) \ {b})
    BY <1>1, <1>4, <2>1, <2>3, <2>4
  <2>6. QED
    BY <2>2, <2>3, <2>5 DEF SinkInv
<1>9. QED
  BY <1>1, <1>3, <1>4, <1>5, <1>6, <1>7, <1>8 DEF AlertInv

LEMMA AlertStep ==
  ASSUME clock \in Nat, clock' \in Nat, clock <= clock', AlertInv, AlertStepped
  PROVE  AlertInv'
<1>1. CASE UNCHANGED alertVars \/ Alerter!Tick
  BY <1>1, AlertWaits DEF Alerter!Tick, Alerter!alertVars, alertVars
<1>2. ASSUME NEW b \in Blockers,
             \/ Alerter!CountHit(b) \/ Alerter!Fire(b) \/ Alerter!SinkAlert(b)
             \/ \E c \in Devices : Alerter!ReadClock(b, c)
      PROVE  AlertInv'
  BY <1>2, AlertReads, AlertCounts, AlertFires, AlertSinks
<1>3. QED
  BY <1>1, <1>2 DEF AlertStepped, Alerter!Next

(* The invariant says what the alerter promises. *)
LEMMA AlertPromise ==
  ASSUME clock \in Nat, AlertInv
  PROVE  AlertsMatchHits
<1>1. ASSUME NEW c \in Devices
      PROVE  /\ fired[c] * AlertThreshold + Alerter!Cardinality(hits[c]) <= all[c]
             /\ fired[c] > 0 => /\ suspected[c].hits = AlertThreshold
                                /\ suspected[c].firstHit > suspected[c].firedAt - AlertWindow
             /\ fired[c] = sent[c] + Alerter!Cardinality(AtSink(c))
             /\ Alerter!Cardinality({h \in since[c] : h.at > clock - AlertWindow}) < AlertThreshold
  <2> DEFINE late2 == {h \in since[c] : h.at > clock - AlertWindow}
  <2>1. ClientInv(c) /\ SinkInv(c)
    BY DEF AlertInv
  <2>2. late2 \subseteq hits[c]
    BY <2>1 DEF ClientInv
  <2>3. Cardinality(late2) <= Cardinality(hits[c])
    BY <2>1, <2>2, FS_Subset DEF ClientInv
  <2>4. Cardinality(late2) \in Nat /\ Cardinality(hits[c]) \in Nat
    BY <2>1, <2>2, FS_Subset, FS_CardinalityType DEF ClientInv
  <2>5. Cardinality(late2) < AlertThreshold
    BY <2>1, <2>3, <2>4, TrackersAssumption DEF ClientInv
  <2>6. /\ Alerter!Cardinality(late2) = Cardinality(late2)
        /\ Alerter!Cardinality(hits[c]) = Cardinality(hits[c])
        /\ Alerter!Cardinality(AtSink(c)) = Cardinality(AtSink(c))
    BY DEF Cardinality, Alerter!Cardinality
  <2> HIDE DEF late2
  <2>7. QED
    BY <2>1, <2>5, <2>6 DEF ClientInv, SinkInv, late2
<1>2. Alerter!AlertsAreEarned
  BY <1>1 DEF Alerter!AlertsAreEarned, AtSink
<1>3. Alerter!NoMissedBurst
  BY <1>1 DEF Alerter!NoMissedBurst
<1>4. QED
  BY <1>2, <1>3 DEF AlertsMatchHits, Alerter!AlertsMatchHits

-----------------------------------------------------------------------------
Admission == [at : Nat, win : Nat, no : 1 .. PerSec]

(* The admissions h of a client: each in its window, the windows a second apart,
   and no two with one number in one window. *)
WindowsApart(h) ==
  /\ \A i \in DOMAIN h : h[i].win <= h[i].at /\ h[i].at < h[i].win + Second
  /\ \A i, j \in DOMAIN h :
       /\ h[i].win < h[j].win => h[i].win + Second <= h[j].win
       /\ h[i].win = h[j].win /\ h[i].no = h[j].no => i = j

(* The entry w of a client counts the admissions of the latest window. *)
EntryCounts(w, h) ==
  /\ w.windowStart <= w.lastSeen /\ w.count <= PerSec
  /\ \A i \in DOMAIN h : IF h[i].win = w.windowStart THEN h[i].no <= w.count
                         ELSE h[i].win + Second <= w.windowStart
  /\ \A n \in 1 .. w.count : \E i \in DOMAIN h : h[i].win = w.windowStart /\ h[i].no = n

(* Whoever has no entry had its last window long ago. *)
Forgotten(h) == \A i \in DOMAIN h : h[i].win + Second <= clock

OnTime(c) ==
  /\ \A i \in DOMAIN admitted[c] : admitted[c][i].at <= clock
  /\ WindowsApart(admitted[c])
  /\ IF c \in DOMAIN clients THEN EntryCounts(clients[c], admitted[c]) ELSE Forgotten(admitted[c])

Started(h) == reading[h].client \in Clients /\ reading[h].now \in 0 .. clock

RefusedInv ==
  refusal # Limiter!NoClient /\ ~late =>
    /\ refusal \in DOMAIN clients /\ clients[refusal].count = PerSec
    /\ clock < clients[refusal].windowStart + Second

Window == [windowStart : Nat, count : Nat, lastSeen : Nat]

LimitInv ==
  /\ clients = [c \in DOMAIN clients |-> clients[c]] /\ DOMAIN clients \subseteq Clients
  /\ \A c \in DOMAIN clients :
       clients[c] \in Window /\ clients[c].windowStart <= clock /\ clients[c].lastSeen <= clock
  /\ reading = [h \in Handlers |-> reading[h]]
  /\ \A h \in Handlers : reading[h] # Limiter!NoCall => Started(h)
  /\ admitted \in [Clients -> Seq(Admission)]
  /\ late \in BOOLEAN
  /\ ~late => \A c \in Clients : OnTime(c)
  /\ RefusedInv
  /\ part # "limiter" => refusal = Limiter!NoClient

(* The limiter's part of a step: a refusal is the limiter's last step. *)
LimitStepped ==
  /\ part' = part
  /\ \/ part = "limiter" /\ Limiter!Next
     \/ UNCHANGED limitVars /\ (clock' = clock \/ part # "limiter")

LEMMA AdmissionTypes ==
  ASSUME NEW h \in Seq(Admission), NEW i \in DOMAIN h
  PROVE  h[i].at \in Nat /\ h[i].win \in Nat /\ h[i].no \in 1 .. PerSec
<1>1. h[i] \in Admission
  OBVIOUS
<1>2. QED
  BY <1>1 DEF Admission

(* Time alone changes nothing the limiter knows. *)
LEMMA LimitWaits ==
  ASSUME clock \in Nat, clock' \in Nat, clock <= clock', LimitInv,
         UNCHANGED <<part, clients, admitted, late>>,
         \/ refusal' = Limiter!NoClient \/ UNCHANGED <<refusal, clock>>,
         reading' = [h \in Handlers |-> reading'[h]],
         \A h \in Handlers : reading'[h] = reading[h] \/ Started(h)'
  PROVE  LimitInv'
<1>1. ASSUME NEW c \in DOMAIN clients
      PROVE  clients[c] \in Window /\ clients[c].windowStart <= clock' /\ clients[c].lastSeen <= clock'
  <2>1. clients[c] \in Window /\ clients[c].windowStart <= clock /\ clients[c].lastSeen <= clock
    BY DEF LimitInv
  <2>2. clients[c].windowStart \in Nat /\ clients[c].lastSeen \in Nat
    BY <2>1 DEF Window
  <2>3. QED
    BY <2>1, <2>2
<1>2. ASSUME NEW h \in Handlers, reading'[h] # Limiter!NoCall PROVE Started(h)'
  BY <1>2 DEF LimitInv, Started
<1>3. ASSUME ~late, NEW c \in Clients PROVE OnTime(c)'
  <2>1. OnTime(c) /\ admitted[c] \in Seq(Admission)
    BY <1>3 DEF LimitInv
  <2>2. \A i \in DOMAIN admitted[c] : admitted[c][i].at \in Nat /\ admitted[c][i].win \in Nat
    BY <2>1, AdmissionTypes
  <2>3. \A i \in DOMAIN admitted[c] : admitted[c][i].at <= clock'
    BY <2>1, <2>2 DEF OnTime
  <2>4. Forgotten(admitted[c]) => Forgotten(admitted[c])'
    BY <2>2, TrackersAssumption DEF Forgotten
  <2>5. QED
    BY <2>1, <2>3, <2>4 DEF OnTime, WindowsApart, EntryCounts
<1>4. RefusedInv'
  BY DEF LimitInv, RefusedInv, Limiter!NoClient
<1>5. part' # "limiter" => refusal' = Limiter!NoClient
  BY DEF LimitInv
<1>6. QED
  BY <1>1, <1>2, <1>3, <1>4, <1>5 DEF LimitInv

(* The window a call on time counts in is the latest of its client, and not over. *)
LEMMA RolledCounts ==
  ASSUME clock \in Nat, LimitInv, NEW c \in Clients, NEW now \in 0 .. clock
  PROVE  /\ Limiter!Rolled(c, now) \in Window
         /\ Limiter!Rolled(c, now).windowStart <= clock
         /\ Limiter!Rolled(c, now).lastSeen = now
         /\ now < Limiter!Rolled(c, now).windowStart + Second
         /\ ~late /\ now = clock => EntryCounts(Limiter!Rolled(c, now), admitted[c])
<1> DEFINE w == Limiter!Rolled(c, now)
           h == admitted[c]
<1>1. h \in Seq(Admission)
  BY DEF LimitInv
<1>2. \A i \in DOMAIN h : h[i].win \in Nat /\ h[i].at \in Nat
  BY <1>1, AdmissionTypes
<1> HIDE DEF h
<1>3. ASSUME w = Limiter!Fresh(now), ~late /\ now = clock => Forgotten(h)
      PROVE  /\ w \in Window /\ w.windowStart <= clock /\ w.lastSeen = now
             /\ now < w.windowStart + Second
             /\ ~late /\ now = clock => EntryCounts(w, h)
  <2>1. w = [windowStart |-> now, count |-> 0, lastSeen |-> now]
    BY <1>3 DEF Limiter!Fresh
  <2> HIDE DEF w
  <2>2. w \in Window /\ w.windowStart <= clock /\ w.lastSeen = now /\ now < w.windowStart + Second
    BY <2>1, TrackersAssumption DEF Window
  <2>3. ASSUME ~late, now = clock PROVE EntryCounts(w, h)
    <3>1. \A i \in DOMAIN h : h[i].win + Second <= clock /\ h[i].win # clock
      BY <1>2, <1>3, <2>3, TrackersAssumption DEF Forgotten
    <3>2. w.windowStart = clock /\ w.count = 0 /\ w.lastSeen = clock
      BY <2>1, <2>3
    <3>3. QED
      BY <3>1, <3>2, TrackersAssumption DEF EntryCounts
  <2>4. QED
    BY <2>2, <2>3
<1>4. CASE c \notin DOMAIN clients
  <2>1. w = Limiter!Fresh(now)
    BY <1>4 DEF Limiter!Rolled
  <2>2. ~late => Forgotten(h)
    BY <1>4 DEF LimitInv, OnTime, h
  <2>3. QED
    BY <1>3, <2>1, <2>2 DEF h
<1>5. CASE c \in DOMAIN clients
  <2>1. /\ clients[c] \in Window /\ clients[c].windowStart <= clock /\ clients[c].lastSeen <= clock
        /\ ~late => EntryCounts(clients[c], h)
    BY <1>5 DEF LimitInv, OnTime, h
  <2>2. clients[c].windowStart \in Nat /\ clients[c].count \in Nat /\ clients[c].lastSeen \in Nat
    BY <2>1 DEF Window
  <2>3. CASE Limiter!Elapsed(clients[c], now)
    <3>1. w = Limiter!Fresh(now)
      BY <2>3 DEF Limiter!Rolled
    <3>2. now - clients[c].windowStart >= Second
      BY <2>3 DEF Limiter!Elapsed
    <3>3. ASSUME ~late, now = clock, NEW i \in DOMAIN h PROVE h[i].win + Second <= clock
      <4>1. h[i].win = clients[c].windowStart \/ h[i].win + Second <= clients[c].windowStart
        BY <2>1, <3>3 DEF EntryCounts
      <4>2. QED
        BY <1>2, <2>2, <3>2, <3>3, <4>1, TrackersAssumption
    <3>4. QED
      BY <1>3, <3>1, <3>3 DEF Forgotten, h
  <2>4. CASE ~Limiter!Elapsed(clients[c], now)
    <3>1. w = [clients[c] EXCEPT !.lastSeen = now]
      BY <1>5, <2>4 DEF Limiter!Rolled
    <3>2. ~(now - clients[c].windowStart >= Second)
      BY <2>4 DEF Limiter!Elapsed
    <3> HIDE DEF w
    <3>3. /\ w.windowStart = clients[c].windowStart /\ w.count = clients[c].count /\ w.lastSeen = now
          /\ w \in Window
      BY <2>1, <3>1 DEF Window
    <3>4. now < w.windowStart + Second
      BY <2>2, <3>2, <3>3, TrackersAssumption
    <3>5. ~late /\ now = clock => EntryCounts(w, h)
      BY <2>1, <2>2, <3>3 DEF EntryCounts
    <3>6. QED
      BY <2>1, <3>3, <3>4, <3>5 DEF w, h
  <2>5. QED
    BY <2>3, <2>4
<1>6. QED
  BY <1>4, <1>5

(* One more admission in the window w. *)
LEMMA OneMore ==
  ASSUME clock \in Nat, NEW h \in Seq(Admission), NEW w \in Window, NEW v \in Window,
         v.windowStart = w.windowStart, v.count = w.count + 1, v.lastSeen = w.lastSeen,
         w.windowStart <= clock, clock < w.windowStart + Second,
         WindowsApart(h), EntryCounts(w, h), w.count < PerSec,
         \A i \in DOMAIN h : h[i].at <= clock
  PROVE  LET k == Append(h, [at |-> clock, win |-> w.windowStart, no |-> w.count + 1])
         IN  /\ k \in Seq(Admission) /\ \A i \in DOMAIN k : k[i].at <= clock
             /\ WindowsApart(k) /\ EntryCounts(v, k)
<1> DEFINE a == [at |-> clock, win |-> w.windowStart, no |-> w.count + 1]
           k == Append(h, a)
<1>1. w.windowStart \in Nat /\ w.count \in Nat
  BY DEF Window
<1>2. a \in Admission /\ a.at = clock /\ a.win = w.windowStart /\ a.no = w.count + 1
  BY <1>1, TrackersAssumption DEF Admission
<1> HIDE DEF a
<1>3. /\ k \in Seq(Admission) /\ DOMAIN k = DOMAIN h \cup {Len(h) + 1} /\ Len(h) + 1 \notin DOMAIN h
      /\ k[Len(h) + 1] = a /\ \A i \in DOMAIN h : k[i] = h[i]
  BY <1>2
<1>4. \A i \in DOMAIN h : h[i].at \in Nat /\ h[i].win \in Nat /\ h[i].no \in 1 .. PerSec
  BY AdmissionTypes
<1> DEFINE l == Len(h) + 1
<1> HIDE DEF k, l
<1>5. DOMAIN k = DOMAIN h \cup {l} /\ l \notin DOMAIN h /\ k[l] = a /\ \A i \in DOMAIN h : k[i] = h[i]
  BY <1>3 DEF l
<1>6. \A i \in DOMAIN k : k[i].at <= clock
  BY <1>2, <1>5
<1>7. \A i \in DOMAIN h : IF h[i].win = a.win THEN h[i].no <= w.count ELSE h[i].win + Second <= a.win
  BY <1>2 DEF EntryCounts
<1>8. WindowsApart(k)
  <2>1. \A i \in DOMAIN k : k[i].win <= k[i].at /\ k[i].at < k[i].win + Second
    BY <1>2, <1>5 DEF WindowsApart
  <2>2. ASSUME NEW i \in DOMAIN k, NEW j \in DOMAIN k
        PROVE  /\ k[i].win < k[j].win => k[i].win + Second <= k[j].win
               /\ k[i].win = k[j].win /\ k[i].no = k[j].no => i = j
    <3>1. CASE i \in DOMAIN h /\ j \in DOMAIN h
      BY <1>5, <3>1 DEF WindowsApart
    <3>2. CASE i = l /\ j = l
      BY <1>1, <1>2, <1>5, <3>2
    <3>3. CASE i \in DOMAIN h /\ j = l
      <4>1. /\ k[i] = h[i] /\ k[j] = a /\ h[i].win \in Nat /\ h[i].no \in Nat
            /\ IF h[i].win = a.win THEN h[i].no <= w.count ELSE h[i].win + Second <= a.win
        BY <1>4, <1>5, <1>7, <3>3
      <4>2. QED
        BY <1>1, <1>2, <4>1, TrackersAssumption
    <3>4. CASE i = l /\ j \in DOMAIN h
      <4>1. /\ k[j] = h[j] /\ k[i] = a /\ h[j].win \in Nat /\ h[j].no \in Nat
            /\ IF h[j].win = a.win THEN h[j].no <= w.count ELSE h[j].win + Second <= a.win
        BY <1>4, <1>5, <1>7, <3>4
      <4>2. QED
        BY <1>1, <1>2, <4>1, TrackersAssumption
    <3>5. QED
      BY <1>5, <3>1, <3>2, <3>3, <3>4
  <2>3. QED
    BY <2>1, <2>2 DEF WindowsApart
<1>9. EntryCounts(v, k)
  <2>1. v.windowStart <= v.lastSeen /\ v.count <= PerSec
    BY <1>1, TrackersAssumption DEF EntryCounts
  <2>2. ASSUME NEW i \in DOMAIN k
        PROVE  IF k[i].win = v.windowStart THEN k[i].no <= v.count
               ELSE k[i].win + Second <= v.windowStart
    <3>1. CASE i = l
      BY <1>1, <1>2, <1>5, <3>1
    <3>2. CASE i \in DOMAIN h
      BY <1>1, <1>2, <1>4, <1>5, <1>7, <3>2
    <3>3. QED
      BY <1>5, <3>1, <3>2
  <2>3. ASSUME NEW n \in 1 .. v.count
        PROVE  \E i \in DOMAIN k : k[i].win = v.windowStart /\ k[i].no = n
    <3>1. CASE n = v.count
      BY <1>2, <1>5, <3>1
    <3>2. CASE n # v.count
      <4>1. n \in 1 .. w.count
        BY <1>1, <3>2
      <4>2. PICK i \in DOMAIN h : h[i].win = w.windowStart /\ h[i].no = n
        BY <4>1 DEF EntryCounts
      <4>3. QED
        BY <1>5, <4>2
    <3>3. QED
      BY <3>1, <3>2
  <2>4. QED
    BY <2>1, <2>2, <2>3 DEF EntryCounts
<1>10. QED
  BY <1>3, <1>6, <1>8, <1>9 DEF k, a

(* allow under the lock keeps the accounts, and forgets only the long idle. *)
LEMMA LimitAllows ==
  ASSUME clock \in Nat, clock' = clock, part' = part, part = "limiter",
         LimitInv, NEW x \in Handlers, Limiter!Allow(x)
  PROVE  LimitInv'
<1>0. PICK c, now : c = reading[x].client /\ now = reading[x].now
  OBVIOUS
<1> DEFINE w    == Limiter!Rolled(c, now)
           gone == Limiter!Evicted(c, now)
           ok   == w.count < PerSec
           v    == IF ok THEN [w EXCEPT !.count = w.count + 1] ELSE w
           a    == [at |-> clock, win |-> w.windowStart, no |-> w.count + 1]
<1>1. /\ reading[x] # Limiter!NoCall
      /\ clients' = [d \in (DOMAIN clients \ gone) \cup {c} |-> IF d # c THEN clients[d] ELSE v]
      /\ admitted' = IF ok THEN [admitted EXCEPT ![c] = Append(admitted[c], a)] ELSE admitted
      /\ refusal' = IF ok THEN Limiter!NoClient ELSE c
      /\ late' = (late \/ now < clock)
      /\ reading' = [reading EXCEPT ![x] = Limiter!NoCall]
  BY <1>0 DEF Limiter!Allow
<1>2. c \in Clients /\ now \in 0 .. clock
  BY <1>0, <1>1 DEF LimitInv, Started
<1>3. /\ w \in Window /\ w.windowStart <= clock /\ w.lastSeen = now
      /\ now < w.windowStart + Second
      /\ ~late /\ now = clock => EntryCounts(w, admitted[c])
  BY <1>2, RolledCounts
<1>4. /\ gone \subseteq DOMAIN clients /\ c \notin gone
      /\ \A d \in gone : now - clients[d].lastSeen >= IdleAfter
  BY DEF Limiter!Evicted, Limiter!Idle
<1> HIDE DEF w, gone
<1>5. w.windowStart \in Nat /\ w.count \in Nat /\ w.lastSeen \in Nat
  BY <1>3 DEF Window
<1>6. /\ v \in Window /\ v.windowStart = w.windowStart /\ v.lastSeen = w.lastSeen
      /\ v.count = IF ok THEN w.count + 1 ELSE w.count
  BY <1>3, <1>5 DEF Window
<1> HIDE DEF v
<1>7. /\ DOMAIN clients' = (DOMAIN clients \ gone) \cup {c} /\ clients'[c] = v
      /\ clients' = [d \in DOMAIN clients' |-> clients'[d]]
      /\ \A d \in DOMAIN clients' \ {c} : d \in DOMAIN clients /\ clients'[d] = clients[d]
  BY <1>1
<1>8. DOMAIN clients' \subseteq Clients
  BY <1>2, <1>7 DEF LimitInv
<1>9. ASSUME NEW d \in DOMAIN clients'
      PROVE  clients'[d] \in Window /\ clients'[d].windowStart <= clock' /\ clients'[d].lastSeen <= clock'
  <2>1. CASE d = c
    BY <1>2, <1>3, <1>6, <1>7, <2>1
  <2>2. CASE d # c
    BY <1>7, <2>2 DEF LimitInv
  <2>3. QED
    BY <2>1, <2>2
<1>10. /\ reading' = [h \in Handlers |-> reading'[h]]
       /\ \A h \in Handlers : reading'[h] # Limiter!NoCall => Started(h)'
  BY <1>1 DEF LimitInv, Started
<1>11. late' \in BOOLEAN
  BY <1>1
<1>12. ~late' => ~late /\ now = clock
  <2>1. ~late' => ~late /\ ~(now < clock)
    BY <1>1, Zenon
  <2>2. QED
    BY <1>2, <2>1
<1>13. /\ admitted[c] \in Seq(Admission) /\ admitted = [e \in Clients |-> admitted[e]]
       /\ \A e \in Clients : admitted[e] \in Seq(Admission)
  BY <1>2 DEF LimitInv
<1>14. ok => a \in Admission
  BY <1>5, TrackersAssumption DEF Admission
<1>15. ok => Append(admitted[c], a) \in Seq(Admission)
  BY <1>13, <1>14
<1> HIDE DEF a
<1>16. /\ admitted'[c] = IF ok THEN Append(admitted[c], a) ELSE admitted[c]
       /\ admitted' = [e \in Clients |-> admitted'[e]]
       /\ \A e \in Clients \ {c} : admitted'[e] = admitted[e]
  BY <1>1, <1>2, <1>13
<1>17. admitted' \in [Clients -> Seq(Admission)]
  <2>1. \A e \in Clients : admitted'[e] \in Seq(Admission)
    BY <1>13, <1>15, <1>16
  <2>2. QED
    BY <1>16, <2>1
<1>18. ASSUME ~late, now = clock
       PROVE  /\ \A i \in DOMAIN admitted'[c] : admitted'[c][i].at <= clock
              /\ WindowsApart(admitted'[c]) /\ EntryCounts(v, admitted'[c])
  <2>1. /\ \A i \in DOMAIN admitted[c] : admitted[c][i].at <= clock
        /\ WindowsApart(admitted[c]) /\ EntryCounts(w, admitted[c])
    BY <1>2, <1>3, <1>18 DEF LimitInv, OnTime
  <2>2. CASE ok
    <3>1. LET k == Append(admitted[c], [at |-> clock, win |-> w.windowStart, no |-> w.count + 1])
          IN  /\ \A i \in DOMAIN k : k[i].at <= clock
              /\ WindowsApart(k) /\ EntryCounts(v, k)
      BY <1>3, <1>6, <1>13, <1>18, <2>1, <2>2, OneMore
    <3>2. QED
      BY <1>16, <2>2, <3>1 DEF a
  <2>3. CASE ~ok
    BY <1>16, <2>1, <2>3 DEF v
  <2>4. QED
    BY <2>2, <2>3
<1>19. ASSUME ~late', NEW e \in Clients PROVE OnTime(e)'
  <2>1. ~late /\ now = clock
    BY <1>12, <1>19
  <2>2. OnTime(e)
    BY <2>1 DEF LimitInv
  <2>3. CASE e = c
    <3>1. e \in DOMAIN clients' /\ clients'[e] = v
      BY <1>7, <2>3
    <3>2. /\ \A i \in DOMAIN admitted'[e] : admitted'[e][i].at <= clock
          /\ WindowsApart(admitted'[e]) /\ EntryCounts(clients'[e], admitted'[e])
      BY <1>18, <2>1, <2>3, <3>1
    <3>3. QED
      BY <3>1, <3>2 DEF OnTime, WindowsApart, EntryCounts
  <2>4. CASE e # c /\ e \in DOMAIN clients'
    <3>1. admitted'[e] = admitted[e] /\ clients'[e] = clients[e] /\ e \in DOMAIN clients
      BY <1>7, <1>16, <2>4
    <3>2. QED
      BY <2>2, <2>4, <3>1 DEF OnTime, WindowsApart, EntryCounts
  <2>5. CASE e # c /\ e \notin DOMAIN clients'
    <3>1. admitted'[e] = admitted[e]
      BY <1>16, <2>5
    <3>2. Forgotten(admitted[e])
      <4>1. CASE e \notin DOMAIN clients
        BY <2>2, <4>1 DEF OnTime
      <4>2. CASE e \in DOMAIN clients
        <5>1. e \in gone
          BY <1>7, <2>5, <4>2
        <5>2. /\ clients[e] \in Window /\ EntryCounts(clients[e], admitted[e])
              /\ now - clients[e].lastSeen >= IdleAfter
          BY <1>4, <2>2, <4>2, <5>1 DEF OnTime, LimitInv
        <5>3. clients[e].windowStart \in Nat /\ clients[e].lastSeen \in Nat
          BY <5>2 DEF Window
        <5>4. clients[e].windowStart + Second <= clock
          BY <2>1, <5>2, <5>3, TrackersAssumption DEF EntryCounts
        <5>5. ASSUME NEW i \in DOMAIN admitted[e] PROVE admitted[e][i].win + Second <= clock
          <6>1. admitted[e][i].win \in Nat
            BY <1>13, AdmissionTypes
          <6>2. \/ admitted[e][i].win = clients[e].windowStart
                \/ admitted[e][i].win + Second <= clients[e].windowStart
            BY <5>2 DEF EntryCounts
          <6>3. QED
            BY <5>3, <5>4, <6>1, <6>2, TrackersAssumption
        <5>6. QED
          BY <5>5 DEF Forgotten
      <4>3. QED
        BY <4>1, <4>2
    <3>3. QED
      BY <2>2, <2>5, <3>1, <3>2 DEF OnTime, WindowsApart, Forgotten
  <2>6. QED
    BY <2>3, <2>4, <2>5
<1>20. RefusedInv'
  <2>1. ASSUME refusal' # Limiter!NoClient, ~late'
        PROVE  /\ refusal' \in DOMAIN clients' /\ clients'[refusal'].count = PerSec
               /\ clock' < clients'[refusal'].windowStart + Second
    <3>1. ~ok /\ refusal' = c
      BY <1>1, <2>1
    <3>2. EntryCounts(w, admitted[c])
      BY <1>3, <1>12, <2>1
    <3>3. w.count = PerSec
      BY <1>5, <3>1, <3>2, TrackersAssumption DEF EntryCounts
    <3>4. clients'[c].count = PerSec /\ clients'[c].windowStart = w.windowStart
      BY <1>6, <1>7, <3>1, <3>3
    <3>5. now = clock
      BY <1>12, <2>1
    <3>6. QED
      BY <1>3, <1>7, <3>1, <3>4, <3>5
  <2>2. QED
    BY <2>1 DEF RefusedInv, Limiter!NoClient
<1>21. QED
  BY <1>7, <1>8, <1>9, <1>10, <1>11, <1>17, <1>19, <1>20 DEF LimitInv

LEMMA LimitStep ==
  ASSUME clock \in Nat, clock' \in Nat, clock <= clock', LimitInv, LimitStepped
  PROVE  LimitInv'
<1>1. CASE UNCHANGED limitVars /\ (clock' = clock \/ part # "limiter")
  <2>1. UNCHANGED <<part, clients, reading, admitted, late, refusal>>
    BY <1>1 DEF limitVars, LimitStepped
  <2>2. refusal' = Limiter!NoClient \/ UNCHANGED <<refusal, clock>>
    BY <1>1, <2>1 DEF LimitInv
  <2>3. reading' = [h \in Handlers |-> reading'[h]] /\ \A h \in Handlers : reading'[h] = reading[h]
    BY <2>1 DEF LimitInv
  <2>4. QED
    BY <2>1, <2>2, <2>3, LimitWaits
<1>2. CASE Limiter!Tick
  <2>1. /\ UNCHANGED <<clients, reading, admitted, late>> /\ refusal' = Limiter!NoClient
        /\ part' = part
    BY <1>2 DEF Limiter!Tick, LimitStepped
  <2>2. reading' = [h \in Handlers |-> reading'[h]] /\ \A h \in Handlers : reading'[h] = reading[h]
    BY <2>1 DEF LimitInv
  <2>3. QED
    BY <2>1, <2>2, LimitWaits
<1>3. ASSUME NEW h \in Handlers, NEW c \in Clients, Limiter!ReadNow(h, c) PROVE LimitInv'
  <2>1. /\ UNCHANGED <<clock, clients, admitted, late>> /\ refusal' = Limiter!NoClient
        /\ reading' = [reading EXCEPT ![h] = [client |-> c, now |-> clock]] /\ part' = part
    BY <1>3 DEF Limiter!ReadNow, LimitStepped
  <2>2. /\ reading' = [g \in Handlers |-> reading'[g]]
        /\ \A g \in Handlers : reading'[g] = reading[g] \/ Started(g)'
    BY <2>1 DEF LimitInv, Started
  <2>3. QED
    BY <2>1, <2>2, LimitWaits
<1>4. ASSUME NEW h \in Handlers, Limiter!Allow(h), part = "limiter" PROVE LimitInv'
  <2>1. clock' = clock /\ part' = part
    BY <1>4 DEF Limiter!Allow, LimitStepped
  <2>2. QED
    BY <1>4, <2>1, LimitAllows
<1>5. QED
  BY <1>1, <1>2, <1>3, <1>4 DEF LimitStepped, Limiter!Next

(* A set of admissions of one window has at most PerSec of them. *)
LEMMA OneWindow ==
  ASSUME NEW h \in Seq(Admission), WindowsApart(h), NEW S, S \subseteq DOMAIN h,
         \A i, j \in S : h[i].win = h[j].win
  PROVE  IsFiniteSet(S) /\ Cardinality(S) \in Nat /\ Cardinality(S) <= PerSec
<1> DEFINE f == [i \in S |-> h[i].no]
<1>1. \A i \in S : h[i].no \in 1 .. PerSec
  BY AdmissionTypes
<1>2. \A i, j \in S : h[i].no = h[j].no => i = j
  BY DEF WindowsApart
<1>3. f \in Injection(S, 1 .. PerSec)
  BY <1>1, <1>2 DEF Injection, IsInjective
<1>4. IsFiniteSet(1 .. PerSec) /\ Cardinality(1 .. PerSec) = PerSec
  <2>1. PerSec \in Int /\ 1 <= PerSec
    BY TrackersAssumption
  <2>2. IsFiniteSet(1 .. PerSec) /\ Cardinality(1 .. PerSec) = IF 1 > PerSec THEN 0 ELSE PerSec - 1 + 1
    BY <2>1, FS_Interval
  <2>3. QED
    BY <2>1, <2>2
<1>5. IsFiniteSet(S) /\ Cardinality(S) <= PerSec
  BY <1>3, <1>4, FS_Injection
<1>6. QED
  BY <1>5, FS_CardinalityType

(* The invariant says what the limiter promises: a second meets two windows at
   most, and a full window lies within the second before it is over. *)
LEMMA LimitPromise ==
  ASSUME clock \in Nat, LimitInv
  PROVE  LimitIsKept
<1>1. ASSUME ~late, NEW c \in Clients, NEW t \in 0 .. MaxTime
      PROVE  Limiter!Admissions(c, t, t + Second - 1) <= 2 * PerSec
  <2> DEFINE h == admitted[c]
             S == {i \in DOMAIN h : h[i].at \in t .. t + Second - 1}
             A == {i \in S : h[i].win <= t}
             B == {i \in S : h[i].win > t}
  <2>1. h \in Seq(Admission) /\ WindowsApart(h)
    BY <1>1 DEF LimitInv, OnTime
  <2>2. \A i \in DOMAIN h : h[i].at \in Nat /\ h[i].win \in Nat
    BY <2>1, AdmissionTypes
  <2> HIDE DEF h
  <2>3. t \in Int
    OBVIOUS
  <2>4. \A i \in S : /\ i \in DOMAIN h /\ h[i].at \in Nat /\ h[i].win \in Nat
                     /\ t <= h[i].at /\ h[i].at <= t + Second - 1
                     /\ h[i].win <= h[i].at /\ h[i].at < h[i].win + Second
    BY <2>1, <2>2, <2>3, TrackersAssumption DEF WindowsApart
  <2>5. ASSUME NEW i \in S, NEW j \in S, h[i].win <= t <=> h[j].win <= t PROVE h[i].win = h[j].win
    <3>1. /\ h[i].win < h[j].win => h[i].win + Second <= h[j].win
          /\ h[j].win < h[i].win => h[j].win + Second <= h[i].win
      BY <2>1, <2>4 DEF WindowsApart
    <3>2. QED
      BY <2>3, <2>4, <2>5, <3>1, TrackersAssumption
  <2>6. A \subseteq DOMAIN h /\ \A i, j \in A : h[i].win = h[j].win
    BY <2>5
  <2>7. B \subseteq DOMAIN h /\ \A i, j \in B : h[i].win = h[j].win
    <3>1. \A i \in B : i \in S /\ ~(h[i].win <= t)
      BY <2>3, <2>4
    <3>2. QED
      BY <2>5, <3>1
  <2>8. IsFiniteSet(A) /\ Cardinality(A) \in Nat /\ Cardinality(A) <= PerSec
    BY <2>1, <2>6, OneWindow
  <2>9. IsFiniteSet(B) /\ Cardinality(B) \in Nat /\ Cardinality(B) <= PerSec
    BY <2>1, <2>7, OneWindow
  <2>10. S = A \cup B
    BY <2>3, <2>4
  <2>11. /\ IsFiniteSet(A \cup B)
         /\ Cardinality(A \cup B) = Cardinality(A) + Cardinality(B) - Cardinality(A \cap B)
    BY <2>8, <2>9, FS_Union
  <2>12. Cardinality(A \cap B) \in Nat
    BY <2>8, FS_Intersection, FS_CardinalityType
  <2>13. Limiter!Admissions(c, t, t + Second - 1) = Cardinality(S)
    BY DEF Limiter!Admissions, Cardinality, Limiter!Cardinality, h
  <2> HIDE DEF S, A, B
  <2>14. Cardinality(A) + Cardinality(B) - Cardinality(A \cap B) <= 2 * PerSec
    BY <2>8, <2>9, <2>12, TrackersAssumption
  <2>15. QED
    BY <2>10, <2>11, <2>13, <2>14
<1>2. ASSUME refusal # Limiter!NoClient, ~late
      PROVE  Limiter!Admissions(refusal, clock - Second + 1, clock) >= PerSec
  <2> DEFINE h == admitted[refusal]
             w == clients[refusal]
             S == {i \in DOMAIN h : h[i].at \in clock - Second + 1 .. clock}
  <2>1. /\ refusal \in DOMAIN clients /\ refusal \in Clients /\ w.count = PerSec
        /\ clock < w.windowStart + Second /\ w \in Window
    BY <1>2 DEF LimitInv, RefusedInv
  <2>2. /\ h \in Seq(Admission) /\ WindowsApart(h) /\ EntryCounts(w, h)
        /\ \A i \in DOMAIN h : h[i].at <= clock
    BY <1>2, <2>1 DEF LimitInv, OnTime
  <2>3. \A i \in DOMAIN h : h[i].at \in Nat /\ h[i].win \in Nat
    BY <2>2, AdmissionTypes
  <2>4. w.windowStart \in Nat
    BY <2>1 DEF Window
  <2> HIDE DEF h, w
  <2>5. ASSUME NEW i \in DOMAIN h, h[i].win = w.windowStart PROVE i \in S
    <3>1. h[i].win <= h[i].at /\ h[i].at <= clock /\ h[i].at \in Nat
      BY <2>2, <2>3 DEF WindowsApart
    <3>2. h[i].at \in clock - Second + 1 .. clock
      BY <2>1, <2>4, <2>5, <3>1, TrackersAssumption
    <3>3. QED
      BY <3>2
  <2> DEFINE f == [n \in 1 .. PerSec |-> CHOOSE i \in DOMAIN h : h[i].win = w.windowStart /\ h[i].no = n]
  <2>6. \A n \in 1 .. PerSec : f[n] \in DOMAIN h /\ h[f[n]].win = w.windowStart /\ h[f[n]].no = n
    <3>1. \A n \in 1 .. PerSec : \E i \in DOMAIN h : h[i].win = w.windowStart /\ h[i].no = n
      BY <2>1, <2>2 DEF EntryCounts
    <3>2. QED
      BY <3>1
  <2>7. \A n \in 1 .. PerSec : f[n] \in S
    BY <2>5, <2>6
  <2>8. \A m, n \in 1 .. PerSec : f[m] = f[n] => m = n
    BY <2>6
  <2>9. f = [n \in 1 .. PerSec |-> f[n]]
    OBVIOUS
  <2> HIDE DEF f
  <2>10. f \in Injection(1 .. PerSec, S)
    BY <2>7, <2>8, <2>9 DEF Injection, IsInjective
  <2>11. IsFiniteSet(S)
    <3>1. S \subseteq 1 .. Len(h) /\ Len(h) \in Nat
      BY <2>2
    <3>2. IsFiniteSet(1 .. Len(h))
      <4>1. 1 \in Int /\ Len(h) \in Int
        BY <3>1
      <4>2. QED
        BY <4>1, FS_Interval
    <3>3. QED
      BY <3>1, <3>2, FS_Subset
  <2>12. Cardinality(1 .. PerSec) = PerSec
    <3>1. PerSec \in Int /\ 1 <= PerSec
      BY TrackersAssumption
    <3>2. Cardinality(1 .. PerSec) = IF 1 > PerSec THEN 0 ELSE PerSec - 1 + 1
      BY <3>1, FS_Interval
    <3>3. QED
      BY <3>1, <3>2
  <2>13. Cardinality(1 .. PerSec) <= Cardinality(S)
    BY <2>10, <2>11, FS_Injection
  <2>14. Cardinality(S) \in Nat
    BY <2>11, FS_CardinalityType
  <2>15. Limiter!Admissions(refusal, clock - Second + 1, clock) = Cardinality(S)
    BY DEF Limiter!Admissions, Cardinality, Limiter!Cardinality, h
  <2>16. QED
    BY <2>12, <2>13, <2>14, <2>15, TrackersAssumption
<1>3. Limiter!AtMostTwoWindows
  BY <1>1 DEF Limiter!AtMostTwoWindows
<1>4. Limiter!RefusedOnlyOverLimit
  BY <1>2 DEF Limiter!RefusedOnlyOverLimit
<1>5. QED
  BY <1>3, <1>4 DEF LimitIsKept, Limiter!LimitIsKept

-----------------------------------------------------------------------------
(* A list with one more element in front. *)
LEMMA Pushed ==
  ASSUME NEW S, NEW l \in Seq(S), NEW e \in S
  PROVE  /\ <<e>> \o l \in Seq(S) /\ Len(<<e>> \o l) = Len(l) + 1
         /\ (<<e>> \o l)[1] = e /\ \A j \in 2 .. Len(l) + 1 : (<<e>> \o l)[j] = l[j - 1]
OBVIOUS

(* A list without its element i. *)
LEMMA Removed ==
  ASSUME NEW S, NEW l \in Seq(S), NEW i \in 1 .. Len(l)
  PROVE  /\ Cache!RemoveAt(l, i) \in Seq(S) /\ Len(Cache!RemoveAt(l, i)) = Len(l) - 1
         /\ \A j \in 1 .. Len(l) - 1 :
              Cache!RemoveAt(l, i)[j] = IF j < i THEN l[j] ELSE l[j + 1]
<1> DEFINE a == SubSeq(l, 1, i - 1)
           b == SubSeq(l, i + 1, Len(l))
<1>1. a \in Seq(S) /\ Len(a) = i - 1 /\ \A j \in 1 .. i - 1 : a[j] = l[j]
  OBVIOUS
<1>2. b \in Seq(S) /\ Len(b) = Len(l) - i /\ \A j \in 1 .. Len(l) - i : b[j] = l[i + j]
  OBVIOUS
<1> HIDE DEF a, b
<1>3. /\ a \o b \in Seq(S) /\ Len(a \o b) = Len(l) - 1
      /\ \A j \in 1 .. Len(l) - 1 : (a \o b)[j] = IF j < i THEN a[j] ELSE b[j - i + 1]
  <2>1. /\ a \o b \in Seq(S) /\ Len(a \o b) = Len(a) + Len(b)
        /\ \A j \in 1 .. Len(a) + Len(b) :
             (a \o b)[j] = IF j <= Len(a) THEN a[j] ELSE b[j - Len(a)]
    BY <1>1, <1>2, ConcatProperties
  <2>2. Len(a) + Len(b) = Len(l) - 1
    BY <1>1, <1>2
  <2>3. ASSUME NEW j \in 1 .. Len(l) - 1
        PROVE  (a \o b)[j] = IF j < i THEN a[j] ELSE b[j - i + 1]
    <3>1. (a \o b)[j] = IF j <= Len(a) THEN a[j] ELSE b[j - Len(a)]
      BY <2>1, <2>2
    <3>2. j <= Len(a) <=> j < i
      BY <1>1
    <3>3. j - Len(a) = j - i + 1
      BY <1>1
    <3>4. QED
      BY <3>1, <3>2, <3>3
  <2>4. QED
    BY <2>1, <2>2, <2>3
<1>4. \A j \in 1 .. Len(l) - 1 : (a \o b)[j] = IF j < i THEN l[j] ELSE l[j + 1]
  BY <1>1, <1>2, <1>3
<1>5. QED
  BY <1>3, <1>4 DEF a, b, Cache!RemoveAt

(* A list without its last element. *)
LEMMA BackRemoved ==
  ASSUME NEW S, NEW l \in Seq(S), Len(l) > 0
  PROVE  /\ Cache!Front(l) \in Seq(S) /\ Len(Cache!Front(l)) = Len(l) - 1
         /\ \A j \in 1 .. Len(l) - 1 : Cache!Front(l)[j] = l[j]
<1> DEFINE n == Len(l) - 1
<1>1. n \in Nat /\ 1 \in Int
  OBVIOUS
<1>2. \A j \in 1 .. n : l[j] \in S
  OBVIOUS
<1> HIDE DEF n
<1>3. /\ SubSeq(l, 1, n) \in Seq(S)
      /\ Len(SubSeq(l, 1, n)) = IF 1 <= n THEN n - 1 + 1 ELSE 0
      /\ \A j \in 1 .. n - 1 + 1 : SubSeq(l, 1, n)[j] = l[1 + j - 1]
  BY <1>1, <1>2, SubSeqProperties
<1>4. Len(SubSeq(l, 1, n)) = n /\ \A j \in 1 .. n : SubSeq(l, 1, n)[j] = l[j]
  BY <1>1, <1>3
<1>5. QED
  BY <1>3, <1>4 DEF n, Cache!Front

-----------------------------------------------------------------------------
Item == [key : Names, body : {m.body : m \in Messages}, expiresAt : Nat]

(* The list l is without repetition, in the order R of the last uses. *)
Ordered(l, R) ==
  \A i, j \in DOMAIN l : i < j => l[i].key # l[j].key /\ <<l[i].key, l[j].key>> \in R

(* The item e is the reply p, until the lowest of its TTLs. *)
Backed(e, p) ==
  /\ e.body = p.body /\ p.at \in Nat
  /\ \E t \in p.ttls : e.expiresAt = p.at + t /\ \A u \in p.ttls : u \in Nat /\ t <= u

CacheInv ==
  /\ ll \in Seq(Item) /\ Len(ll) <= MaxEntries
  /\ items = Cache!Keys(ll)
  /\ Ordered(ll, recent)
  /\ lastPut = [n \in Names |-> lastPut[n]]
  /\ \A i \in DOMAIN ll : Backed(ll[i], lastPut[ll[i].key])

CacheStepped == Cache!Next \/ UNCHANGED cacheVars

(* The list m is l with the item e put, or moved, to the front. *)
InFront(m, e, l) ==
  /\ m \in Seq(Item) /\ Len(m) >= 1 /\ m[1] = e
  /\ \A i \in 2 .. Len(m) : \E a \in DOMAIN l : m[i] = l[a] /\ l[a].key # e.key
  /\ \A i, j \in 2 .. Len(m) : i < j => \E a, b \in DOMAIN l : a < b /\ m[i] = l[a] /\ m[j] = l[b]

LEMMA KeyOf ==
  ASSUME NEW l \in Seq(Item), NEW k \in Cache!Keys(l)
  PROVE  Cache!Element(l, k) \in 1 .. Len(l) /\ l[Cache!Element(l, k)].key = k
<1>1. \E i \in DOMAIN l : l[i].key = k
  BY DEF Cache!Keys
<1>2. Cache!Element(l, k) \in DOMAIN l /\ l[Cache!Element(l, k)].key = k
  BY <1>1 DEF Cache!Element
<1>3. QED
  BY <1>2

LEMMA KeyIsName ==
  ASSUME NEW l \in Seq(Item), NEW i \in DOMAIN l
  PROVE  l[i].key \in Names /\ l[i].expiresAt \in Nat /\ l[i] \in Item
<1>1. l[i] \in Item
  OBVIOUS
<1>2. QED
  BY <1>1 DEF Item

(* MoveToFront of an element, its entry replaced or not. *)
LEMMA MovedToFront ==
  ASSUME NEW l \in Seq(Item), NEW R, Ordered(l, R), NEW e \in Item, e.key \in Cache!Keys(l)
  PROVE  /\ InFront(Cache!ToFront(e, l), e, l)
         /\ Len(Cache!ToFront(e, l)) = Len(l)
         /\ Cache!Keys(Cache!ToFront(e, l)) = Cache!Keys(l)
<1> DEFINE x == Cache!Element(l, e.key)
           r == Cache!RemoveAt(l, x)
           m == <<e>> \o r
<1>1. x \in 1 .. Len(l) /\ l[x].key = e.key
  BY KeyOf
<1> HIDE DEF x
<1>2. /\ r \in Seq(Item) /\ Len(r) = Len(l) - 1
      /\ \A j \in 1 .. Len(l) - 1 : r[j] = IF j < x THEN l[j] ELSE l[j + 1]
  BY <1>1, Removed
<1> HIDE DEF r
<1>3. /\ m \in Seq(Item) /\ Len(m) = Len(r) + 1
      /\ m[1] = e /\ \A j \in 2 .. Len(r) + 1 : m[j] = r[j - 1]
  BY <1>2, Pushed
<1>4. Cache!ToFront(e, l) = m
  BY DEF Cache!ToFront, x, r
<1> HIDE DEF m
<1>5. Len(m) = Len(l) /\ Len(l) \in Nat /\ DOMAIN l = 1 .. Len(l) /\ DOMAIN m = 1 .. Len(l)
  BY <1>1, <1>2, <1>3
<1> DEFINE g == [j \in 2 .. Len(l) |-> IF j - 1 < x THEN j - 1 ELSE j]
<1>6. ASSUME NEW j \in 2 .. Len(l) PROVE m[j] = l[g[j]] /\ g[j] \in DOMAIN l /\ g[j] # x
  <2>1. j - 1 \in 1 .. Len(l) - 1 /\ j \in 2 .. Len(r) + 1
    BY <1>2, <1>5
  <2>2. m[j] = IF j - 1 < x THEN l[j - 1] ELSE l[(j - 1) + 1]
    BY <1>2, <1>3, <2>1
  <2>3. (j - 1) + 1 = j /\ g[j] = IF j - 1 < x THEN j - 1 ELSE j
    OBVIOUS
  <2>4. QED
    BY <1>1, <1>5, <2>1, <2>2, <2>3
<1>7. \A i, j \in 2 .. Len(l) : i < j => g[i] < g[j]
  BY <1>1, <1>5
<1>8. ASSUME NEW a \in DOMAIN l, a # x PROVE l[a].key # e.key
  <2>1. a \in Nat /\ x \in Nat /\ x \in DOMAIN l /\ (a < x \/ x < a)
    BY <1>1, <1>5, <1>8
  <2>2. CASE a < x
    BY <1>1, <2>1, <2>2 DEF Ordered
  <2>3. CASE x < a
    BY <1>1, <2>1, <2>3 DEF Ordered
  <2>4. QED
    BY <2>1, <2>2, <2>3
<1>9. ASSUME NEW a \in DOMAIN l, a # x PROVE \E j \in 2 .. Len(l) : g[j] = a
  <2>1. CASE a < x
    <3>1. a + 1 \in 2 .. Len(l) /\ g[a + 1] = a
      BY <1>1, <1>5, <2>1
    <3>2. QED
      BY <3>1
  <2>2. CASE a > x
    <3>1. a \in 2 .. Len(l) /\ g[a] = a
      BY <1>1, <1>5, <2>2
    <3>2. QED
      BY <3>1
  <2>3. QED
    BY <1>1, <1>5, <1>9, <2>1, <2>2
<1>10. \A j \in 2 .. Len(l) : g[j] \in DOMAIN l
  BY <1>6
<1> HIDE DEF g
<1>11. InFront(m, e, l)
  <2>1. m \in Seq(Item) /\ Len(m) >= 1 /\ m[1] = e
    BY <1>1, <1>3, <1>5
  <2>2. \A i \in 2 .. Len(m) : \E a \in DOMAIN l : m[i] = l[a] /\ l[a].key # e.key
    BY <1>5, <1>6, <1>8
  <2>3. \A i, j \in 2 .. Len(m) : i < j => \E a, b \in DOMAIN l : a < b /\ m[i] = l[a] /\ m[j] = l[b]
    BY <1>5, <1>6, <1>7
  <2>4. QED
    BY <2>1, <2>2, <2>3 DEF InFront
<1>12. Cache!Keys(m) = Cache!Keys(l)
  <2>1. ASSUME NEW k \in Cache!Keys(m) PROVE k \in Cache!Keys(l)
    <3>1. PICK i \in DOMAIN m : k = m[i].key
      BY DEF Cache!Keys
    <3>2. CASE i = 1
      BY <1>3, <3>1, <3>2
    <3>3. CASE i # 1
      <4>1. i \in 2 .. Len(l)
        BY <1>5, <3>3
      <4>2. QED
        BY <1>6, <3>1, <4>1 DEF Cache!Keys
    <3>4. QED
      BY <3>2, <3>3
  <2>2. ASSUME NEW k \in Cache!Keys(l) PROVE k \in Cache!Keys(m)
    <3>1. PICK a \in DOMAIN l : k = l[a].key
      BY DEF Cache!Keys
    <3>2. CASE a = x
      <4>1. 1 \in DOMAIN m /\ m[1].key = k
        BY <1>1, <1>3, <1>5, <3>1, <3>2
      <4>2. QED
        BY <4>1 DEF Cache!Keys
    <3>3. CASE a # x
      <4>1. PICK j \in 2 .. Len(l) : g[j] = a
        BY <1>9, <3>3
      <4>2. j \in DOMAIN m /\ m[j].key = k
        BY <1>5, <1>6, <3>1, <4>1
      <4>3. QED
        BY <4>2 DEF Cache!Keys
    <3>4. QED
      BY <3>2, <3>3
  <2>3. QED
    BY <2>1, <2>2
<1>13. QED
  BY <1>4, <1>5, <1>11, <1>12

(* PushFront of a new key; evictOldest drops the back when there is no room. *)
LEMMA PushedInFront ==
  ASSUME NEW l \in Seq(Item), NEW e \in Item, e.key \notin Cache!Keys(l)
  PROVE  LET m == <<e>> \o l IN
         /\ InFront(m, e, l) /\ Len(m) = Len(l) + 1 /\ Cache!Keys(m) = Cache!Keys(l) \cup {e.key}
         /\ \A R : Ordered(l, R) /\ Len(l) > 0 =>
              /\ InFront(Cache!Front(m), e, l) /\ Len(Cache!Front(m)) = Len(l)
              /\ Cache!Last(m) = l[Len(l)]
              /\ Cache!Keys(Cache!Front(m)) = (Cache!Keys(l) \cup {e.key}) \ {l[Len(l)].key}
<1> DEFINE m == <<e>> \o l
<1>1. /\ m \in Seq(Item) /\ Len(m) = Len(l) + 1
      /\ m[1] = e /\ \A j \in 2 .. Len(l) + 1 : m[j] = l[j - 1]
  BY Pushed
<1> HIDE DEF m
<1>2. /\ Len(l) \in Nat /\ DOMAIN l = 1 .. Len(l) /\ DOMAIN m = 1 .. Len(l) + 1
  BY <1>1
<1>3. \A a \in DOMAIN l : l[a].key # e.key
  BY DEF Cache!Keys
<1>4. ASSUME NEW f \in Seq(Item), NEW n \in {Len(l), Len(l) + 1}, Len(f) = n, n >= 1,
             \A j \in 1 .. n : f[j] = m[j]
      PROVE  InFront(f, e, l)
  <2>1. f[1] = e /\ n \in Nat
    BY <1>1, <1>2, <1>4
  <2>2. ASSUME NEW j \in 2 .. n PROVE f[j] = l[j - 1] /\ j - 1 \in DOMAIN l
    <3>1. j \in 1 .. n /\ j \in 2 .. Len(l) + 1 /\ j - 1 \in 1 .. Len(l)
      BY <1>2, <1>4
    <3>2. QED
      BY <1>1, <1>2, <1>4, <3>1
  <2>3. \A i, j \in 2 .. n : i < j => i - 1 < j - 1
    BY <2>1
  <2>4. \A i \in 2 .. n : \E a \in DOMAIN l : f[i] = l[a] /\ l[a].key # e.key
    BY <1>3, <2>2
  <2>5. \A i, j \in 2 .. n : i < j => \E a, b \in DOMAIN l : a < b /\ f[i] = l[a] /\ f[j] = l[b]
    BY <2>2, <2>3
  <2>6. QED
    BY <1>4, <2>1, <2>4, <2>5 DEF InFront
<1>5. InFront(m, e, l)
  BY <1>1, <1>2, <1>4
<1>6. Cache!Keys(m) = Cache!Keys(l) \cup {e.key}
  <2>1. ASSUME NEW k \in Cache!Keys(m) PROVE k \in Cache!Keys(l) \cup {e.key}
    <3>1. PICK i \in DOMAIN m : k = m[i].key
      BY DEF Cache!Keys
    <3>2. CASE i # 1
      <4>1. i \in 2 .. Len(l) + 1 /\ i - 1 \in DOMAIN l
        BY <1>2, <3>2
      <4>2. QED
        BY <1>1, <3>1, <4>1 DEF Cache!Keys
    <3>3. QED
      BY <1>1, <3>1, <3>2
  <2>2. ASSUME NEW k \in Cache!Keys(l) PROVE k \in Cache!Keys(m)
    <3>1. PICK a \in DOMAIN l : k = l[a].key
      BY DEF Cache!Keys
    <3>2. a + 1 \in DOMAIN m /\ a + 1 \in 2 .. Len(l) + 1 /\ (a + 1) - 1 = a
      BY <1>2
    <3>3. m[a + 1] = l[a]
      BY <1>1, <3>2
    <3>4. QED
      BY <3>1, <3>2, <3>3 DEF Cache!Keys
  <2>3. e.key \in Cache!Keys(m)
    BY <1>1, <1>2 DEF Cache!Keys
  <2>4. QED
    BY <2>1, <2>2, <2>3
<1>7. ASSUME NEW R, Ordered(l, R), Len(l) > 0
      PROVE  /\ InFront(Cache!Front(m), e, l) /\ Len(Cache!Front(m)) = Len(l)
             /\ Cache!Last(m) = l[Len(l)]
             /\ Cache!Keys(Cache!Front(m)) = (Cache!Keys(l) \cup {e.key}) \ {l[Len(l)].key}
  <2> DEFINE f == Cache!Front(m)
             z == Len(l) + 1
  <2>1. Len(m) > 0 /\ Len(m) - 1 = Len(l) /\ z \in DOMAIN m
    BY <1>1, <1>2
  <2>2. f \in Seq(Item) /\ Len(f) = Len(l) /\ \A j \in 1 .. Len(l) : f[j] = m[j]
    BY <1>1, <2>1, BackRemoved
  <2> HIDE DEF f
  <2>3. InFront(f, e, l)
    BY <1>2, <1>4, <1>7, <2>2
  <2>4. m[z] = l[Len(l)] /\ Len(l) \in DOMAIN l
    <3>1. z \in 2 .. Len(l) + 1 /\ z - 1 = Len(l)
      BY <1>2, <1>7
    <3>2. QED
      BY <1>1, <1>2, <1>7, <3>1
  <2>5. Cache!Last(m) = l[Len(l)]
    BY <1>1, <2>4 DEF Cache!Last
  <2>6. ASSUME NEW j \in 1 .. Len(l) PROVE m[j].key # l[Len(l)].key
    <3>1. CASE j = 1
      BY <1>1, <1>3, <2>4, <3>1
    <3>2. CASE j # 1
      <4>1. j \in 2 .. Len(l) + 1 /\ j - 1 \in DOMAIN l /\ j - 1 < Len(l)
        BY <1>2, <3>2
      <4>2. m[j] = l[j - 1]
        BY <1>1, <4>1
      <4>3. QED
        BY <1>7, <2>4, <4>1, <4>2 DEF Ordered
    <3>3. QED
      BY <3>1, <3>2
  <2>7. DOMAIN f = 1 .. Len(l) /\ \A i \in DOMAIN m : i \in 1 .. Len(l) \/ i = z
    BY <1>2, <2>2
  <2> HIDE DEF z
  <2>8. Cache!Keys(f) = Cache!Keys(m) \ {l[Len(l)].key}
    <3>1. ASSUME NEW k \in Cache!Keys(f) PROVE k \in Cache!Keys(m) \ {l[Len(l)].key}
      <4>1. PICK i \in 1 .. Len(l) : k = f[i].key
        BY <2>7 DEF Cache!Keys
      <4>2. i \in DOMAIN m
        BY <1>2
      <4>3. QED
        BY <2>2, <2>6, <4>1, <4>2 DEF Cache!Keys
    <3>2. ASSUME NEW k \in Cache!Keys(m), k # l[Len(l)].key PROVE k \in Cache!Keys(f)
      <4>1. PICK i \in DOMAIN m : k = m[i].key
        BY DEF Cache!Keys
      <4>2. i \in 1 .. Len(l)
        BY <2>4, <2>7, <3>2, <4>1
      <4>3. QED
        BY <2>2, <2>7, <4>1, <4>2 DEF Cache!Keys
    <3>3. QED
      BY <3>1, <3>2
  <2>9. QED
    BY <1>6, <2>2, <2>3, <2>5, <2>8 DEF f
<1>8. QED
  BY <1>1, <1>5, <1>6, <1>7 DEF m

(* minTTL of a reply that Put keeps. *)
LEMMA LowestTTL ==
  ASSUME NEW msg, msg.ttls \subseteq Nat, Cache!MinTTL(msg) # 0
  PROVE  /\ Cache!MinTTL(msg) \in msg.ttls
         /\ \A u \in msg.ttls : u \in Nat /\ Cache!MinTTL(msg) <= u
<1>1. msg.ttls # {}
  BY DEF Cache!MinTTL
<1>2. \E t \in msg.ttls : \A u \in msg.ttls : t <= u
  BY <1>1, LeastNatural
<1>3. QED
  BY <1>1, <1>2 DEF Cache!MinTTL

(* The order after a use: the item in front comes before all others. *)
LEMMA Reordered ==
  ASSUME NEW l \in Seq(Item), NEW R, Ordered(l, R), NEW e \in Item, NEW m, InFront(m, e, l)
  PROVE  Ordered(m, {p \in R : p[2] # e.key} \cup {<<e.key, n>> : n \in Names \ {e.key}})
<1> DEFINE U == {p \in R : p[2] # e.key} \cup {<<e.key, n>> : n \in Names \ {e.key}}
<1>1. SUFFICES ASSUME NEW i \in DOMAIN m, NEW j \in DOMAIN m, i < j
               PROVE  m[i].key # m[j].key /\ <<m[i].key, m[j].key>> \in U
  BY DEF Ordered
<1>2. m \in Seq(Item) /\ m[1] = e
  BY DEF InFront
<1>3. Len(m) \in Nat /\ DOMAIN m = 1 .. Len(m)
  BY <1>2
<1>4. j \in 2 .. Len(m) /\ (i = 1 \/ i \in 2 .. Len(m))
  BY <1>1, <1>3
<1>5. PICK a \in DOMAIN l : m[j] = l[a] /\ l[a].key # e.key
  BY <1>4 DEF InFront
<1>6. CASE i = 1
  <2>1. m[j].key \in Names \ {e.key}
    BY <1>5, KeyIsName
  <2>2. QED
    BY <1>2, <1>6, <2>1
<1>7. CASE i \in 2 .. Len(m)
  <2>1. PICK c, b \in DOMAIN l : c < b /\ m[i] = l[c] /\ m[j] = l[b]
    BY <1>1, <1>4, <1>7 DEF InFront
  <2>2. l[c].key # l[b].key /\ <<l[c].key, l[b].key>> \in R
    BY <2>1 DEF Ordered
  <2>3. QED
    BY <1>5, <2>1, <2>2
<1>8. QED
  BY <1>4, <1>6, <1>7

(* Each item is still the last reply put under its key. *)
LEMMA StillBacked ==
  ASSUME NEW l \in Seq(Item), NEW e \in Item, NEW m, InFront(m, e, l), NEW P, NEW Q,
         \A i \in DOMAIN l : Backed(l[i], P[l[i].key]),
         \A n \in Names \ {e.key} : Q[n] = P[n], Backed(e, Q[e.key])
  PROVE  \A i \in DOMAIN m : Backed(m[i], Q[m[i].key])
<1>1. SUFFICES ASSUME NEW i \in DOMAIN m PROVE Backed(m[i], Q[m[i].key])
  OBVIOUS
<1>2. m \in Seq(Item) /\ m[1] = e
  BY DEF InFront
<1>3. i = 1 \/ i \in 2 .. Len(m)
  BY <1>2
<1>4. CASE i \in 2 .. Len(m)
  <2>1. PICK a \in DOMAIN l : m[i] = l[a] /\ l[a].key # e.key
    BY <1>4 DEF InFront
  <2>2. l[a].key \in Names \ {e.key}
    BY <2>1, KeyIsName
  <2>3. QED
    BY <2>1, <2>2
<1>5. QED
  BY <1>2, <1>3, <1>4

(* Remove of the element of a key. *)
LEMMA OneRemoved ==
  ASSUME NEW l \in Seq(Item), NEW R, Ordered(l, R), NEW k \in Cache!Keys(l)
  PROVE  LET r == Cache!RemoveAt(l, Cache!Element(l, k)) IN
         /\ r \in Seq(Item) /\ Len(r) = Len(l) - 1
         /\ Ordered(r, R) /\ Cache!Keys(r) = Cache!Keys(l) \ {k}
         /\ \A i \in DOMAIN r : \E a \in DOMAIN l : r[i] = l[a]
<1> DEFINE x == Cache!Element(l, k)
           r == Cache!RemoveAt(l, x)
           g == [j \in 1 .. Len(l) - 1 |-> IF j < x THEN j ELSE j + 1]
<1>1. x \in 1 .. Len(l) /\ l[x].key = k
  BY KeyOf
<1> HIDE DEF x
<1>2. /\ r \in Seq(Item) /\ Len(r) = Len(l) - 1
      /\ \A j \in 1 .. Len(l) - 1 : r[j] = IF j < x THEN l[j] ELSE l[j + 1]
  BY <1>1, Removed
<1> HIDE DEF r
<1>3. Len(l) \in Nat /\ DOMAIN l = 1 .. Len(l) /\ DOMAIN r = 1 .. Len(l) - 1
  BY <1>2
<1>4. ASSUME NEW j \in DOMAIN r PROVE r[j] = l[g[j]] /\ g[j] \in DOMAIN l /\ g[j] # x
  BY <1>1, <1>2, <1>3
<1>5. ASSUME NEW i \in DOMAIN r, NEW j \in DOMAIN r, i < j PROVE g[i] < g[j]
  BY <1>1, <1>3, <1>5
<1>6. ASSUME NEW a \in DOMAIN l, a # x PROVE \E j \in DOMAIN r : g[j] = a
  <2>1. CASE a < x
    BY <1>1, <1>3, <2>1
  <2>2. CASE x < a
    <3>1. a - 1 \in DOMAIN r /\ g[a - 1] = a
      BY <1>1, <1>3, <2>2
    <3>2. QED
      BY <3>1
  <2>3. QED
    BY <1>1, <1>3, <1>6, <2>1, <2>2
<1> HIDE DEF g
<1>7. ASSUME NEW a \in DOMAIN l, a # x PROVE l[a].key # k
  <2>1. a \in Nat /\ x \in Nat /\ x \in DOMAIN l /\ (a < x \/ x < a)
    BY <1>1, <1>3, <1>7
  <2>2. CASE a < x
    BY <1>1, <2>1, <2>2 DEF Ordered
  <2>3. CASE x < a
    BY <1>1, <2>1, <2>3 DEF Ordered
  <2>4. QED
    BY <2>1, <2>2, <2>3
<1>8. Ordered(r, R)
  BY <1>4, <1>5 DEF Ordered
<1>9. Cache!Keys(r) = Cache!Keys(l) \ {k}
  <2>1. ASSUME NEW y \in Cache!Keys(r) PROVE y \in Cache!Keys(l) \ {k}
    <3>1. PICK i \in DOMAIN r : y = r[i].key
      BY DEF Cache!Keys
    <3>2. QED
      BY <1>4, <1>7, <3>1 DEF Cache!Keys
  <2>2. ASSUME NEW y \in Cache!Keys(l) \ {k} PROVE y \in Cache!Keys(r)
    <3>1. PICK a \in DOMAIN l : y = l[a].key
      BY DEF Cache!Keys
    <3>2. PICK j \in DOMAIN r : g[j] = a
      BY <1>1, <1>6, <3>1
    <3>3. r[j].key = y
      BY <1>4, <3>1, <3>2
    <3>4. QED
      BY <3>3 DEF Cache!Keys
  <2>3. QED
    BY <2>1, <2>2
<1>10. QED
  BY <1>2, <1>4, <1>8, <1>9 DEF r, x

(* The map and the list have as many entries. *)
LEMMA KeysCounted ==
  ASSUME NEW l \in Seq(Item), NEW R, Ordered(l, R)
  PROVE  IsFiniteSet(Cache!Keys(l)) /\ Cardinality(Cache!Keys(l)) = Len(l)
<1> DEFINE f == [i \in 1 .. Len(l) |-> l[i].key]
<1>1. Len(l) \in Nat /\ DOMAIN l = 1 .. Len(l) /\ 1 \in Int /\ Len(l) \in Int
  OBVIOUS
<1>2. IsFiniteSet(1 .. Len(l)) /\ Cardinality(1 .. Len(l)) = Len(l)
  BY <1>1, FS_Interval
<1>3. f \in Surjection(1 .. Len(l), Cache!Keys(l))
  <2>1. \A i \in 1 .. Len(l) : f[i] \in Cache!Keys(l)
    BY <1>1 DEF Cache!Keys
  <2>2. \A k \in Cache!Keys(l) : \E i \in 1 .. Len(l) : f[i] = k
    BY <1>1 DEF Cache!Keys
  <2>3. QED
    BY <2>1, <2>2 DEF Surjection
<1>4. f \in Injection(1 .. Len(l), Cache!Keys(l))
  <2>1. ASSUME NEW i \in 1 .. Len(l), NEW j \in 1 .. Len(l), i # j PROVE f[i] # f[j]
    <3>1. CASE i < j
      BY <1>1, <3>1 DEF Ordered
    <3>2. CASE j < i
      BY <1>1, <3>2 DEF Ordered
    <3>3. QED
      BY <1>1, <2>1, <3>1, <3>2
  <2>2. f \in [1 .. Len(l) -> Cache!Keys(l)]
    BY <1>3 DEF Surjection
  <2> HIDE DEF f
  <2>3. QED
    BY <2>1, <2>2 DEF Injection, IsInjective
<1>5. IsFiniteSet(Cache!Keys(l))
  BY <1>2, <1>3, FS_Surjection
<1>6. Cardinality(Cache!Keys(l)) = Cardinality(1 .. Len(l))
  BY <1>2, <1>3, <1>4, FS_Surjection
<1>7. QED
  BY <1>2, <1>5, <1>6

-----------------------------------------------------------------------------
(* What CacheIsLRU says of a step. *)
CacheKept == Cache!ServesLatest /\ Cache!DropsLeastRecent

(* Put of a name in the cache, or of a new one. *)
LEMMA CachePuts ==
  ASSUME CacheInv, clock \in Nat, NEW q \in Cache!Questions, NEW msg \in Messages, Cache!Put(q, msg)
  PROVE  CacheInv' /\ CacheKept
<1> DEFINE k == q.name
           p == [body |-> msg.body, ttls |-> msg.ttls, at |-> clock]
           e == [key |-> k, body |-> msg.body, expiresAt |-> clock + Cache!MinTTL(msg)]
           U == {y \in recent : y[2] # k} \cup {<<k, n>> : n \in Names \ {k}}
           m == <<e>> \o ll
<1>1. /\ k \in Names /\ Cache!CacheKey(q) = k /\ Cache!MinTTL(msg) # 0
      /\ lastPut' = [lastPut EXCEPT ![k] = p] /\ recent' = U /\ served' = served /\ clock' = clock
  BY DEF Cache!Put, Cache!Questions, Cache!CacheKey, Cache!Used
<1>2. /\ Cache!MinTTL(msg) \in msg.ttls
      /\ \A u \in msg.ttls : u \in Nat /\ Cache!MinTTL(msg) <= u
  BY <1>1, TrackersAssumption, LowestTTL
<1>3. e \in Item /\ e.key = k
  BY <1>1, <1>2 DEF Item
<1>4. Backed(e, p)
  BY <1>2 DEF Backed
<1>5. /\ ll \in Seq(Item) /\ Len(ll) <= MaxEntries /\ items = Cache!Keys(ll)
      /\ Ordered(ll, recent) /\ lastPut = [n \in Names |-> lastPut[n]]
      /\ \A i \in DOMAIN ll : Backed(ll[i], lastPut[ll[i].key])
  BY DEF CacheInv
<1>6. /\ k \in items => ll' = Cache!ToFront(e, ll) /\ items' = items
      /\ k \notin items /\ ~(Len(m) > MaxEntries) => ll' = m /\ items' = items \cup {k}
      /\ k \notin items /\ Len(m) > MaxEntries =>
           ll' = Cache!Front(m) /\ items' = (items \cup {k}) \ {Cache!Last(m).key}
  BY <1>1 DEF Cache!Put, Cache!EvictOldest
<1>7. /\ lastPut' = [n \in Names |-> lastPut'[n]] /\ lastPut'[k] = p
      /\ \A n \in Names \ {k} : lastPut'[n] = lastPut[n]
  BY <1>1, <1>5
<1> HIDE DEF k, p, e, U, m
<1>8. ASSUME InFront(ll', e, ll), Len(ll') <= MaxEntries, items' = Cache!Keys(ll')
      PROVE  CacheInv'
  <2>1. ll' \in Seq(Item)
    BY <1>8 DEF InFront
  <2>2. Ordered(ll', recent')
    BY <1>1, <1>3, <1>5, <1>8, Reordered DEF U
  <2>3. \A i \in DOMAIN ll' : Backed(ll'[i], lastPut'[ll'[i].key])
    BY <1>3, <1>4, <1>5, <1>7, <1>8, StillBacked
  <2>4. items' = Cache!Keys(ll)'
    BY <1>8 DEF Cache!Keys
  <2>5. Ordered(ll, recent)'
    BY <2>2 DEF Ordered
  <2>6. (\A i \in DOMAIN ll : Backed(ll[i], lastPut[ll[i].key]))'
    BY <2>3 DEF Backed
  <2>7. QED
    BY <1>7, <1>8, <2>1, <2>4, <2>5, <2>6 DEF CacheInv
<1>9. Cache!ServesLatest
  BY <1>1 DEF Cache!ServesLatest
<1>10. CASE k \in items
  <2>1. /\ InFront(ll', e, ll) /\ Len(ll') = Len(ll) /\ Cache!Keys(ll') = Cache!Keys(ll)
    BY <1>3, <1>5, <1>6, <1>10, MovedToFront
  <2>2. items' = items
    BY <1>6, <1>10
  <2>3. QED
    BY <1>5, <1>8, <1>9, <2>1, <2>2 DEF CacheKept, Cache!DropsLeastRecent
<1>11. ASSUME k \notin items
       PROVE  /\ InFront(m, e, ll) /\ Len(m) = Len(ll) + 1
              /\ Cache!Keys(m) = Cache!Keys(ll) \cup {k}
              /\ Len(ll) > 0 =>
                   /\ InFront(Cache!Front(m), e, ll) /\ Len(Cache!Front(m)) = Len(ll)
                   /\ Cache!Last(m) = ll[Len(ll)]
                   /\ Cache!Keys(Cache!Front(m)) = (Cache!Keys(ll) \cup {k}) \ {ll[Len(ll)].key}
  <2>1. e.key \notin Cache!Keys(ll)
    BY <1>3, <1>5, <1>11
  <2>2. QED
    BY <1>3, <1>5, <2>1, PushedInFront DEF m
<1>12. CASE k \notin items /\ ~(Len(m) > MaxEntries)
  <2>1. ll' = m /\ items' = items \cup {k}
    BY <1>6, <1>12
  <2>2. Len(m) <= MaxEntries
    <3>1. Len(ll) \in Nat
      <4>1. ll \in Seq(Item)
        BY <1>5
      <4>2. QED
        BY <4>1
    <3>2. Len(m) = Len(ll) + 1
      BY <1>11, <1>12
    <3>3. MaxEntries \in Nat
      BY TrackersAssumption
    <3>4. QED
      BY <1>12, <3>1, <3>2, <3>3
  <2>3. QED
    BY <1>5, <1>8, <1>9, <1>11, <1>12, <2>1, <2>2 DEF CacheKept, Cache!DropsLeastRecent
<1>13. CASE k \notin items /\ Len(m) > MaxEntries
  <2> DEFINE z == Len(ll)
             n == ll[z].key
  <2>1. z \in Nat /\ z = MaxEntries /\ z > 0 /\ z \in DOMAIN ll /\ DOMAIN ll = 1 .. z
    <3>1. z \in Nat /\ DOMAIN ll = 1 .. z /\ z <= MaxEntries
      <4>1. ll \in Seq(Item) /\ Len(ll) <= MaxEntries
        BY <1>5
      <4>2. QED
        BY <4>1
    <3>2. MaxEntries \in Nat \ {0}
      BY TrackersAssumption
    <3>3. Len(m) = z + 1
      BY <1>11, <1>13
    <3>4. Len(m) > MaxEntries
      BY <1>13
    <3> HIDE DEF z
    <3>5. z = MaxEntries /\ z > 0
      BY <3>1, <3>2, <3>3, <3>4
    <3>6. QED
      BY <3>1, <3>5
  <2>2. ll' = Cache!Front(m) /\ items' = (items \cup {k}) \ {n}
    BY <1>6, <1>11, <1>13, <2>1
  <2>3. n \in Names /\ n # k /\ n \in items
    BY <1>5, <1>13, <2>1, KeyIsName DEF Cache!Keys
  <2>4. CacheInv'
    BY <1>5, <1>8, <1>11, <1>13, <2>1, <2>2
  <2>5. Cardinality(items) = MaxEntries
    BY <1>5, <2>1, KeysCounted
  <2>6. ASSUME NEW y \in items' PROVE <<y, n>> \in recent'
    <3>1. CASE y = k
      BY <1>1, <2>3, <3>1 DEF U
    <3>2. CASE y # k
      <4>1. PICK a \in DOMAIN ll : y = ll[a].key
        BY <1>5, <2>2, <2>6, <3>2 DEF Cache!Keys
      <4>2. a # z
        BY <2>2, <2>6, <4>1
      <4>3. a < z
        BY <2>1, <4>2
      <4>4. <<y, n>> \in recent
        BY <1>5, <2>1, <4>1, <4>3 DEF Ordered
      <4>5. QED
        BY <1>1, <2>3, <4>4 DEF U
    <3>3. QED
      BY <3>1, <3>2
  <2>7. items' \ items # {}
    BY <1>13, <2>2, <2>3
  <2>8. items \ items' \subseteq {n}
    BY <2>2
  <2> HIDE DEF n, z
  <2>9. Cardinality(items) = Cache!Cardinality(items)
    BY DEF Cardinality, Cache!Cardinality
  <2>10. Cache!DropsLeastRecent
    BY <2>5, <2>6, <2>7, <2>8, <2>9 DEF Cache!DropsLeastRecent
  <2>11. QED
    BY <1>9, <2>4, <2>10 DEF CacheKept
<1>14. QED
  BY <1>10, <1>12, <1>13

(* GetStale of an answer it may still serve. *)
LEMMA CacheServes ==
  ASSUME CacheInv, clock \in Nat, NEW q \in Cache!Questions, Cache!GetStaleHit(q)
  PROVE  CacheInv' /\ CacheKept
<1> DEFINE k == q.name
           x == Cache!Element(ll, k)
           e == ll[x]
<1>1. /\ k \in Names /\ Cache!CacheKey(q) = k /\ k \in items /\ clock <= e.expiresAt + StaleFor
      /\ ll' = Cache!ToFront(e, ll) /\ items' = items /\ lastPut' = lastPut /\ clock' = clock
      /\ served' = [name |-> k, body |-> e.body, at |-> clock]
      /\ recent' = {y \in recent : y[2] # k} \cup {<<k, n>> : n \in Names \ {k}}
  BY DEF Cache!GetStaleHit, Cache!Questions, Cache!CacheKey, Cache!Used, Cache!Retained, Cache!Entry
<1>2. /\ ll \in Seq(Item) /\ Len(ll) <= MaxEntries /\ items = Cache!Keys(ll)
      /\ Ordered(ll, recent) /\ lastPut = [n \in Names |-> lastPut[n]]
      /\ \A i \in DOMAIN ll : Backed(ll[i], lastPut[ll[i].key])
  BY DEF CacheInv
<1>3. x \in DOMAIN ll /\ e.key = k
  BY <1>1, <1>2, KeyOf
<1> HIDE DEF x
<1>4. e \in Item /\ e.expiresAt \in Nat
  BY <1>2, <1>3, KeyIsName
<1>5. Backed(e, lastPut[k])
  BY <1>2, <1>3
<1> HIDE DEF e, k
<1>6. /\ InFront(ll', e, ll) /\ Len(ll') = Len(ll) /\ Cache!Keys(ll') = Cache!Keys(ll)
  BY <1>1, <1>2, <1>3, <1>4, MovedToFront
<1>7. ll' \in Seq(Item)
  BY <1>6 DEF InFront
<1>8. Ordered(ll', recent')
  BY <1>1, <1>2, <1>3, <1>4, <1>6, Reordered
<1>9. \A i \in DOMAIN ll' : Backed(ll'[i], lastPut'[ll'[i].key])
  <2>1. Backed(e, lastPut[e.key])
    BY <1>3, <1>5
  <2>2. \A i \in DOMAIN ll' : Backed(ll'[i], lastPut[ll'[i].key])
    BY <1>2, <1>4, <1>6, <2>1, StillBacked
  <2>3. QED
    BY <1>1, <2>2
<1>10. CacheInv'
  <2>1. items' = Cache!Keys(ll)'
    BY <1>1, <1>2, <1>6 DEF Cache!Keys
  <2>2. Ordered(ll, recent)'
    BY <1>8 DEF Ordered
  <2>3. (\A i \in DOMAIN ll : Backed(ll[i], lastPut[ll[i].key]))'
    BY <1>9 DEF Backed
  <2>4. QED
    BY <1>1, <1>2, <1>6, <1>7, <2>1, <2>2, <2>3 DEF CacheInv
<1>11. Cache!ServesLatest
  <2>1. served'.name = k /\ served'.body = e.body
    BY <1>1
  <2>2. e.body = lastPut[k].body /\ lastPut[k].at \in Nat
    BY <1>5 DEF Backed
  <2>3. PICK t \in lastPut[k].ttls : /\ e.expiresAt = lastPut[k].at + t
                                     /\ \A u \in lastPut[k].ttls : u \in Nat /\ t <= u
    BY <1>5 DEF Backed
  <2>4. ASSUME NEW u \in lastPut[k].ttls PROVE ~(clock > lastPut[k].at + u + StaleFor)
    <3>1. u \in Nat /\ t \in Nat /\ t <= u /\ StaleFor \in Nat
      BY <2>3, TrackersAssumption
    <3>2. clock <= (lastPut[k].at + t) + StaleFor
      BY <1>1, <2>3
    <3>3. QED
      BY <2>2, <3>1, <3>2
  <2>5. ~Cache!PastRetention(k)
    BY <2>4 DEF Cache!PastRetention
  <2>6. QED
    BY <2>1, <2>2, <2>5 DEF Cache!ServesLatest
<1>12. QED
  BY <1>1, <1>10, <1>11 DEF CacheKept, Cache!DropsLeastRecent

(* GetStale of an answer past its retention. *)
LEMMA CacheExpires ==
  ASSUME CacheInv, clock \in Nat, NEW q \in Cache!Questions, Cache!GetStaleExpired(q)
  PROVE  CacheInv' /\ CacheKept
<1> DEFINE k == q.name
           x == Cache!Element(ll, k)
           e == ll[x]
<1>1. /\ k \in Names /\ Cache!CacheKey(q) = k /\ k \in items /\ ~(clock <= e.expiresAt + StaleFor)
      /\ ll' = Cache!RemoveAt(ll, x) /\ items' = items \ {k} /\ lastPut' = lastPut
      /\ served' = served /\ recent' = recent
  BY DEF Cache!GetStaleExpired, Cache!Questions, Cache!CacheKey, Cache!Retained, Cache!Entry
<1>2. /\ ll \in Seq(Item) /\ Len(ll) <= MaxEntries /\ items = Cache!Keys(ll)
      /\ Ordered(ll, recent) /\ lastPut = [n \in Names |-> lastPut[n]]
      /\ \A i \in DOMAIN ll : Backed(ll[i], lastPut[ll[i].key])
  BY DEF CacheInv
<1>3. /\ ll' \in Seq(Item) /\ Len(ll') = Len(ll) - 1
      /\ Ordered(ll', recent) /\ Cache!Keys(ll') = Cache!Keys(ll) \ {k}
      /\ \A i \in DOMAIN ll' : \E a \in DOMAIN ll : ll'[i] = ll[a]
  BY <1>1, <1>2, OneRemoved
<1>4. x \in DOMAIN ll /\ e.key = k
  BY <1>1, <1>2, KeyOf
<1> HIDE DEF x
<1>5. e \in Item /\ e.expiresAt \in Nat
  BY <1>2, <1>4, KeyIsName
<1>6. Backed(e, lastPut[k])
  BY <1>2, <1>4
<1> HIDE DEF e, k
<1>7. CacheInv'
  <2>1. items' = Cache!Keys(ll)'
    BY <1>1, <1>2, <1>3 DEF Cache!Keys
  <2>2. Ordered(ll, recent)'
    BY <1>1, <1>3 DEF Ordered
  <2>3. \A i \in DOMAIN ll' : Backed(ll'[i], lastPut'[ll'[i].key])
    BY <1>1, <1>2, <1>3
  <2>4. (\A i \in DOMAIN ll : Backed(ll[i], lastPut[ll[i].key]))'
    BY <2>3 DEF Backed
  <2>5. Len(ll') <= MaxEntries
    BY <1>2, <1>3, TrackersAssumption
  <2>6. QED
    BY <1>1, <1>2, <1>3, <2>1, <2>2, <2>4, <2>5 DEF CacheInv
<1>8. Cache!PastRetention(k)
  <2>1. PICK t \in lastPut[k].ttls : e.expiresAt = lastPut[k].at + t
    BY <1>6 DEF Backed
  <2>2. clock > e.expiresAt + StaleFor
    BY <1>1, <1>5, TrackersAssumption
  <2>3. QED
    BY <2>1, <2>2 DEF Cache!PastRetention
<1>9. QED
  BY <1>1, <1>7, <1>8 DEF CacheKept, Cache!ServesLatest, Cache!DropsLeastRecent

LEMMA CacheStep ==
  ASSUME CacheInv, clock \in Nat, CacheStepped
  PROVE  CacheInv' /\ CacheKept
<1>1. CASE UNCHANGED cacheVars
  <2>1. CacheInv'
    BY <1>1 DEF CacheInv, cacheVars, Cache!Keys, Ordered, Backed
  <2>2. QED
    BY <1>1, <2>1 DEF cacheVars, CacheKept, Cache!ServesLatest, Cache!DropsLeastRecent
<1>2. CASE Cache!Tick
  BY <1>1, <1>2 DEF Cache!Tick, Cache!cacheVars, cacheVars
<1>3. QED
  BY <1>1, <1>2, CachePuts, CacheServes, CacheExpires DEF CacheStepped, Cache!Next

-----------------------------------------------------------------------------
(* How long before the slice c the slice s was in use, at least. *)
Age(c, s) == (IF s <= c THEN c - s ELSE c - s + SliceCount) * SliceSize

Points == {"rest", "load", "reset", "start", "counters", "store", "add"}
RecState == [at : Points, now : 0 .. clock, slice : Metrics!Slices]

MetricTypes ==
  /\ current \in Metrics!Slices
  /\ start \in [Metrics!Slices -> 0 .. clock] /\ total \in [Metrics!Slices -> SUBSET recorded]
  /\ IsFiniteSet(recorded)
  /\ \A a \in recorded : a.no \in 1 .. Cardinality(recorded) /\ a.at \in 0 .. clock
  /\ rec \in [Recorders -> RecState]
  /\ raced \in BOOLEAN

Writing(r, s) == rec[r].at = "add" /\ rec[r].slice = s
Restarted(s) == \E r \in Recorders : rec[r].at = "counters" /\ rec[r].slice = s

(* A rotation found the current slice past its time and works on the one after
   it, which no handler writes. *)
RotationInv(r) ==
  /\ rec[r].now >= start[current] + SliceSize
  /\ rec[r].at # "load" =>
       /\ rec[r].slice = Metrics!NextSlice(current)
       /\ \A o \in Recorders : ~Writing(o, rec[r].slice)
  /\ rec[r].at \in {"start", "store"} => total[rec[r].slice] = {}
  /\ rec[r].at = "counters" =>
       \A a \in total[rec[r].slice] : a.at + Metrics!WindowSize < rec[r].now + SliceSize
  /\ rec[r].at \in {"counters", "store"} => start[rec[r].slice] = rec[r].now

(* A slice holds the records of its own time, and was in use its turns ago. *)
SliceInv(s) ==
  /\ \A a \in total[s] : start[s] <= a.at /\ a.at < start[s] + SliceSize
  /\ total[s] # {} \/ (\E r \in Recorders : Writing(r, s)) =>
       start[s] + Age(current, s) <= start[current]

SlicesInv ==
  /\ \A r, o \in Recorders : Metrics!Rotating(r) /\ Metrics!Rotating(o) => r = o
  /\ \A r \in Recorders : Metrics!Rotating(r) => RotationInv(r)
  /\ \A s \in Metrics!Slices : ~Restarted(s) => SliceInv(s)
  /\ \A s, u \in Metrics!Slices : s # u => total[s] \cap total[u] = {}
  /\ \A a \in recorded :
       a.at >= clock - Metrics!WindowSize + SliceSize => \E s \in Metrics!Slices : a \in total[s]

MetricInv == MetricTypes /\ (~raced => SlicesInv)

MetricStepped == Metrics!Next \/ UNCHANGED metricVars

(* The ring: the slice after c is another one, and the oldest. *)
LEMMA Ring ==
  ASSUME NEW c \in Metrics!Slices
  PROVE  Metrics!NextSlice(c) \in Metrics!Slices /\ Metrics!NextSlice(c) # c
<1>1. SliceCount \in Nat /\ SliceCount >= 2
  BY TrackersAssumption
<1>2. c \in Nat /\ c < SliceCount
  BY <1>1 DEF Metrics!Slices
<1>3. CASE c + 1 < SliceCount
  <2>1. (c + 1) % SliceCount = c + 1
    BY <1>1, <1>2, <1>3
  <2>2. QED
    BY <1>1, <1>2, <1>3, <2>1 DEF Metrics!Slices, Metrics!NextSlice
<1>4. CASE c + 1 = SliceCount
  <2>1. SliceCount % SliceCount = 0
    BY <1>1
  <2>2. (c + 1) % SliceCount = 0
    BY <1>4, <2>1
  <2>3. QED
    BY <1>1, <1>2, <1>4, <2>2 DEF Metrics!Slices, Metrics!NextSlice
<1>5. QED
  BY <1>1, <1>2, <1>3, <1>4

LEMMA Ages ==
  ASSUME NEW c \in Metrics!Slices, NEW s \in Metrics!Slices
  PROVE  /\ Age(c, s) \in Nat /\ Age(c, c) = 0
         /\ Age(c, Metrics!NextSlice(c)) + SliceSize = Metrics!WindowSize
         /\ s # Metrics!NextSlice(c) => Age(Metrics!NextSlice(c), s) = Age(c, s) + SliceSize
         /\ Metrics!WindowSize \in Nat
<1> DEFINE n == Metrics!NextSlice(c)
           Far(x, y) == IF y <= x THEN x - y ELSE x - y + SliceCount
<1>1. SliceCount \in Nat /\ SliceCount >= 2 /\ SliceSize \in Nat
  BY TrackersAssumption
<1>2. c \in Nat /\ c < SliceCount /\ s \in Nat /\ s < SliceCount
  BY <1>1 DEF Metrics!Slices
<1>3. n = IF c + 1 = SliceCount THEN 0 ELSE c + 1
  <2>1. CASE c + 1 < SliceCount
    <3>1. (c + 1) % SliceCount = c + 1
      BY <1>1, <1>2, <2>1
    <3>2. QED
      BY <1>1, <1>2, <2>1, <3>1 DEF Metrics!NextSlice
  <2>2. CASE c + 1 = SliceCount
    <3>1. SliceCount % SliceCount = 0
      BY <1>1
    <3>2. QED
      BY <2>2, <3>1 DEF Metrics!NextSlice
  <2>3. QED
    BY <1>1, <1>2, <2>1, <2>2
<1> HIDE DEF n
<1>4. Far(c, s) \in Nat /\ Far(c, c) = 0 /\ Far(c, n) = SliceCount - 1 /\ n \in Nat
  BY <1>1, <1>2, <1>3
<1>5. s # n => Far(n, s) = Far(c, s) + 1
  BY <1>1, <1>2, <1>3
<1>6. Age(c, s) = Far(c, s) * SliceSize /\ Age(c, c) = Far(c, c) * SliceSize
      /\ Age(c, n) = Far(c, n) * SliceSize /\ Age(n, s) = Far(n, s) * SliceSize
  BY DEF Age
<1> HIDE DEF Far
<1>7. \A x \in Nat : x * SliceSize \in Nat /\ (x + 1) * SliceSize = x * SliceSize + SliceSize
  BY <1>1
<1>8. Age(c, s) \in Nat /\ Age(c, c) = 0
  BY <1>1, <1>4, <1>6
<1>9. Age(c, n) + SliceSize = Metrics!WindowSize
  <2>1. SliceCount - 1 \in Nat /\ (SliceCount - 1) + 1 = SliceCount
    BY <1>1
  <2>2. ((SliceCount - 1) + 1) * SliceSize = (SliceCount - 1) * SliceSize + SliceSize
    BY <1>7, <2>1
  <2>3. QED
    BY <1>4, <1>6, <2>1, <2>2 DEF Metrics!WindowSize
<1>10. s # n => Age(n, s) = Age(c, s) + SliceSize
  BY <1>4, <1>5, <1>6, <1>7
<1>11. Metrics!WindowSize \in Nat
  BY <1>1 DEF Metrics!WindowSize
<1>12. QED
  BY <1>8, <1>9, <1>10, <1>11 DEF n

(* A handler moves on; the others stay where they are. *)
LEMMA RecMoved ==
  ASSUME rec \in [Recorders -> RecState], NEW r \in Recorders, NEW p \in Points,
         NEW n \in 0 .. clock, NEW s \in Metrics!Slices, clock' = clock,
         rec' = [rec EXCEPT ![r] = [at |-> p, now |-> n, slice |-> s]]
  PROVE  /\ rec' \in [Recorders -> RecState']
         /\ rec'[r].at = p /\ rec'[r].now = n /\ rec'[r].slice = s
         /\ \A o \in Recorders \ {r} : rec'[o] = rec[o]
<1>1. [at |-> p, now |-> n, slice |-> s] \in RecState
  BY DEF RecState
<1>2. RecState' = RecState
  BY DEF RecState
<1> HIDE DEF RecState
<1>3. QED
  BY <1>1, <1>2

LEMMA RecAt ==
  ASSUME rec \in [Recorders -> RecState], NEW r \in Recorders, NEW p
  PROVE  /\ rec[r].now \in 0 .. clock /\ rec[r].slice \in Metrics!Slices /\ rec[r].at \in Points
         /\ [rec EXCEPT ![r].at = p]
            = [rec EXCEPT ![r] = [at |-> p, now |-> rec[r].now, slice |-> rec[r].slice]]
<1>1. rec[r] \in RecState
  OBVIOUS
<1>2. rec[r] \in [at : Points, now : 0 .. clock, slice : Metrics!Slices]
  BY <1>1 DEF RecState
<1> HIDE DEF Points
<1>3. [rec[r] EXCEPT !.at = p] = [at |-> p, now |-> rec[r].now, slice |-> rec[r].slice]
  BY <1>2
<1>4. QED
  BY <1>2, <1>3

(* Time passes. *)
LEMMA MetricWaits ==
  ASSUME MetricInv, clock \in Nat, clock' \in Nat, clock <= clock', UNCHANGED metricVars
  PROVE  MetricInv'
<1> USE DEF metricVars
<1>1. MetricTypes'
  <2>1. \A x \in 0 .. clock : x \in 0 .. clock'
    OBVIOUS
  <2>2. rec \in [Recorders -> RecState']
    <3>1. \A x \in RecState : x \in RecState'
      BY <2>1 DEF RecState
    <3>2. QED
      BY <3>1 DEF MetricInv, MetricTypes
  <2>3. start \in [Metrics!Slices -> 0 .. clock']
    BY <2>1 DEF MetricInv, MetricTypes
  <2>4. QED
    BY <2>1, <2>2, <2>3 DEF MetricInv, MetricTypes
<1>2. ASSUME ~raced PROVE SlicesInv'
  <2>1. SlicesInv
    BY <1>2 DEF MetricInv
  <2>2. ASSUME NEW a \in recorded, a.at >= clock' - Metrics!WindowSize + SliceSize
        PROVE  \E s \in Metrics!Slices : a \in total[s]
    <3>1. a.at \in Nat
      BY DEF MetricInv, MetricTypes
    <3>2. Metrics!WindowSize \in Nat /\ SliceSize \in Nat
      BY TrackersAssumption, Ages DEF MetricInv, MetricTypes
    <3>3. a.at >= clock - Metrics!WindowSize + SliceSize
      BY <2>2, <3>1, <3>2
    <3>4. QED
      BY <2>1, <3>3 DEF SlicesInv
  <2>3. \A r \in Recorders : Metrics!Rotating(r)' <=> Metrics!Rotating(r)
    BY DEF Metrics!Rotating
  <2>4. \A r \in Recorders : RotationInv(r) => RotationInv(r)'
    BY DEF RotationInv, Writing
  <2>5. \A s \in Metrics!Slices : (SliceInv(s)' <=> SliceInv(s)) /\ (Restarted(s)' <=> Restarted(s))
    BY DEF SliceInv, Writing, Restarted
  <2>6. QED
    BY <2>1, <2>2, <2>3, <2>4, <2>5 DEF SlicesInv
<1>3. QED
  BY <1>1, <1>2 DEF MetricInv

(* currentSlice finds the slice in use within its time, or starts a rotation. *)
LEMMA MetricFinds ==
  ASSUME MetricInv, clock \in Nat, NEW r \in Recorders, Metrics!CurrentSlice(r)
  PROVE  MetricInv'
<1> PICK c : c = current
  OBVIOUS
<1>1. /\ rec[r].at = "rest" /\ clock' = clock
      /\ UNCHANGED <<current, start, total, recorded>>
      /\ \/ /\ rec' = [rec EXCEPT ![r] = [at |-> "add", now |-> clock, slice |-> c]]
            /\ raced' = raced
         \/ /\ ~(clock < start[c] + SliceSize)
            /\ rec' = [rec EXCEPT ![r] = [at |-> "load", now |-> clock, slice |-> c]]
            /\ raced' = (raced \/ \E o \in Recorders : Metrics!Rotating(o))
  BY DEF Metrics!CurrentSlice, Metrics!Goto, Metrics!Resting, Metrics!Within
<1>2. MetricTypes /\ c \in Metrics!Slices /\ clock \in 0 .. clock /\ rec \in [Recorders -> RecState]
  BY DEF MetricInv, MetricTypes
<1>3. PICK p \in {"add", "load"} :
        /\ rec' = [rec EXCEPT ![r] = [at |-> p, now |-> clock, slice |-> c]]
        /\ p = "add" => raced' = raced
        /\ p = "load" => /\ ~(clock < start[c] + SliceSize)
                         /\ raced' = (raced \/ \E o \in Recorders : Metrics!Rotating(o))
  BY <1>1
<1>4. /\ rec' \in [Recorders -> RecState']
      /\ rec'[r].at = p /\ rec'[r].now = clock /\ rec'[r].slice = c
      /\ \A o \in Recorders \ {r} : rec'[o] = rec[o]
  <2>1. p \in Points
    BY DEF Points
  <2>2. QED
    BY <1>1, <1>2, <1>3, <2>1, RecMoved
<1>5. MetricTypes'
  <2>1. raced' \in BOOLEAN
    BY <1>2, <1>3 DEF MetricTypes
  <2>2. QED
    BY <1>1, <1>2, <1>4, <2>1 DEF MetricTypes
<1>6. ASSUME ~raced' PROVE SlicesInv'
  <2>1. SlicesInv /\ (p = "load" => \A o \in Recorders : ~Metrics!Rotating(o))
    <3>1. CASE p = "add"
      BY <1>3, <1>6, <3>1 DEF MetricInv
    <3>2. CASE p = "load"
      <4>1. ~raced /\ ~(\E o \in Recorders : Metrics!Rotating(o))
        BY <1>3, <1>6, <3>2, Zenon
      <4>2. QED
        BY <4>1 DEF MetricInv
    <3>3. QED
      BY <3>1, <3>2
  <2>2. ASSUME NEW o \in Recorders, Metrics!Rotating(o)'
        PROVE  (o = r /\ p = "load") \/ (o # r /\ Metrics!Rotating(o))
    <3>1. CASE o = r
      <4>1. p # "add"
        BY <1>4, <2>2, <3>1 DEF Metrics!Rotating
      <4>2. p = "load"
        BY <1>3, <4>1
      <4>3. QED
        BY <3>1, <4>2
    <3>2. CASE o # r
      BY <1>4, <2>2, <3>2 DEF Metrics!Rotating
    <3>3. QED
      BY <3>1, <3>2
  <2>3. Metrics!NextSlice(c) # c
    BY <1>2, Ring
  <2>4. ASSUME NEW o \in Recorders, Metrics!Rotating(o)' PROVE RotationInv(o)'
    <3>1. CASE o = r
      <4>1. clock >= start[c] + SliceSize
        <5>1. start[c] \in Nat /\ SliceSize \in Nat
          BY <1>2, TrackersAssumption DEF MetricTypes
        <5>2. QED
          BY <1>3, <2>2, <2>4, <3>1, <5>1
      <4>2. rec'[r].at = "load" /\ rec'[r].now >= start'[current'] + SliceSize
        BY <1>1, <1>4, <2>2, <2>4, <3>1, <4>1
      <4>3. QED
        BY <3>1, <4>2 DEF RotationInv
    <3>2. CASE o # r
      <4>1. RotationInv(o) /\ rec'[o] = rec[o]
        BY <1>4, <2>1, <2>2, <2>4, <3>2 DEF SlicesInv
      <4>2. ASSUME rec[o].at # "load", NEW w \in Recorders
            PROVE  ~(rec'[w].at = "add" /\ rec'[w].slice = rec[o].slice)
        <5>1. rec[o].slice = Metrics!NextSlice(c) /\ ~Writing(w, rec[o].slice)
          BY <4>1, <4>2 DEF RotationInv
        <5>2. QED
          BY <1>4, <2>3, <5>1 DEF Writing
      <4>3. QED
        BY <1>1, <4>1, <4>2 DEF RotationInv, Writing, Metrics!NextSlice
    <3>3. QED
      BY <3>1, <3>2
  <2>5. ASSUME NEW s \in Metrics!Slices, ~Restarted(s)' PROVE SliceInv(s)'
    <3>1. SliceInv(s)
      <4>1. ~Restarted(s)
        BY <1>1, <1>4, <2>5 DEF Restarted
      <4>2. QED
        BY <2>1, <4>1 DEF SlicesInv
    <3>2. ASSUME NEW w \in Recorders, Writing(w, s)' PROVE s = c \/ Writing(w, s)
      BY <1>4, <3>2 DEF Writing
    <3>3. start[c] + Age(c, c) <= start[c]
      <4>1. start[c] \in Nat /\ Age(c, c) = 0
        BY <1>2, Ages DEF MetricTypes
      <4>2. QED
        BY <4>1
    <3>4. (total[s] # {} \/ \E w \in Recorders : Writing(w, s))' => start[s] + Age(c, s) <= start[c]
      BY <1>1, <3>1, <3>2, <3>3 DEF SliceInv
    <3>5. Age(current, s)' = Age(c, s)
      BY <1>1 DEF Age
    <3>6. QED
      BY <1>1, <3>1, <3>4, <3>5 DEF SliceInv
  <2>6. QED
    BY <1>1, <2>1, <2>2, <2>4, <2>5 DEF SlicesInv
<1>7. QED
  BY <1>5, <1>6 DEF MetricInv

(* The rotation picks the slice after the current one. *)
LEMMA MetricPicks ==
  ASSUME MetricInv, clock \in Nat, NEW r \in Recorders, Metrics!LoadNext(r)
  PROVE  MetricInv'
<1> PICK c, n, s : c = current /\ n = rec[r].now /\ s = Metrics!NextSlice(c)
  OBVIOUS
<1>1. /\ rec[r].at = "load" /\ clock' = clock
      /\ UNCHANGED <<current, start, total, recorded>>
      /\ rec' = [rec EXCEPT ![r] = [at |-> "reset", now |-> n, slice |-> s]]
      /\ raced' = (raced \/ \E o \in Recorders : rec[o].at = "add" /\ rec[o].slice = s)
  BY DEF Metrics!LoadNext, Metrics!Goto
<1>2. MetricTypes /\ c \in Metrics!Slices /\ s \in Metrics!Slices /\ rec \in [Recorders -> RecState]
  BY Ring DEF MetricInv, MetricTypes
<1>3. n \in 0 .. clock
  BY <1>2, RecAt
<1>4. /\ rec' \in [Recorders -> RecState']
      /\ rec'[r].at = "reset" /\ rec'[r].now = n /\ rec'[r].slice = s
      /\ \A o \in Recorders \ {r} : rec'[o] = rec[o]
  <2>1. "reset" \in Points
    BY DEF Points
  <2>2. QED
    BY <1>1, <1>2, <1>3, <2>1, RecMoved
<1>5. MetricTypes'
  <2>1. raced' \in BOOLEAN
    BY <1>1, <1>2 DEF MetricTypes
  <2>2. QED
    BY <1>1, <1>2, <1>4, <2>1 DEF MetricTypes
<1>6. ASSUME ~raced' PROVE SlicesInv'
  <2>1. SlicesInv /\ \A o \in Recorders : ~Writing(o, s)
    BY <1>1, <1>6 DEF MetricInv, Writing
  <2>2. \A o \in Recorders : Metrics!Rotating(o)' <=> Metrics!Rotating(o)
    BY <1>1, <1>4 DEF Metrics!Rotating
  <2>3. RotationInv(r) /\ Metrics!Rotating(r) /\ \A o \in Recorders : Metrics!Rotating(o) => o = r
    BY <1>1, <2>1 DEF SlicesInv, Metrics!Rotating
  <2>4. RotationInv(r)'
    <3>1. n >= start[c] + SliceSize
      BY <2>3 DEF RotationInv
    <3>2. \A o \in Recorders : ~Writing(o, s)'
      BY <1>4, <2>1 DEF Writing
    <3>3. \A o \in Recorders : ~Writing(o, rec[r].slice)'
      BY <1>4, <3>2 DEF Writing
    <3>4. QED
      BY <1>1, <1>4, <3>1, <3>3 DEF RotationInv, Metrics!NextSlice
  <2>5. ASSUME NEW u \in Metrics!Slices, ~Restarted(u)' PROVE SliceInv(u)'
    <3>1. SliceInv(u)
      <4>1. ~Restarted(u)
        BY <1>1, <1>4, <2>5 DEF Restarted
      <4>2. QED
        BY <2>1, <4>1 DEF SlicesInv
    <3>2. \A w \in Recorders : Writing(w, u)' => Writing(w, u)
      BY <1>4 DEF Writing
    <3>3. Age(current, u)' = Age(current, u)
      BY <1>1 DEF Age
    <3>4. QED
      BY <1>1, <3>1, <3>2, <3>3 DEF SliceInv
  <2>6. QED
    BY <1>1, <2>1, <2>2, <2>3, <2>4, <2>5 DEF SlicesInv
<1>7. QED
  BY <1>5, <1>6 DEF MetricInv

(* What the slice a rotation is about to reuse holds is out of the window. *)
LEMMA OutOfWindow ==
  ASSUME MetricTypes, SlicesInv, clock \in Nat, NEW r \in Recorders, rec[r].at = "reset",
         NEW a \in total[rec[r].slice]
  PROVE  a.at + Metrics!WindowSize < rec[r].now + SliceSize
<1> PICK c, n, s : c = current /\ n = rec[r].now /\ s = rec[r].slice
  OBVIOUS
<1>1. RotationInv(r) /\ Metrics!Rotating(r) /\ \A o \in Recorders : Metrics!Rotating(o) => o = r
  BY DEF SlicesInv, Metrics!Rotating
<1>2. n >= start[c] + SliceSize /\ s = Metrics!NextSlice(c)
  BY <1>1 DEF RotationInv
<1>3. ~Restarted(s)
  BY <1>1 DEF Restarted, Metrics!Rotating
<1>4. c \in Metrics!Slices /\ s \in Metrics!Slices /\ n \in 0 .. clock
  BY RecAt DEF MetricTypes
<1>5. SliceInv(s)
  BY <1>3, <1>4 DEF SlicesInv
<1>6. a.at < start[s] + SliceSize /\ start[s] + Age(c, s) <= start[c]
  BY <1>5 DEF SliceInv
<1>7. /\ Age(c, s) + SliceSize = Metrics!WindowSize /\ Age(c, s) \in Nat /\ SliceSize \in Nat
      /\ start[s] \in Nat /\ start[c] \in Nat
  BY <1>2, <1>4, Ages, TrackersAssumption DEF MetricTypes
<1>8. a.at \in Nat
  BY <1>4 DEF MetricTypes
<1>9. QED
  BY <1>2, <1>4, <1>6, <1>7, <1>8

(* The reset writes the start of the slice. *)
LEMMA MetricRestarts ==
  ASSUME MetricInv, clock \in Nat, NEW r \in Recorders, Metrics!ResetStart(r)
  PROVE  MetricInv'
<1> PICK c, n, s, p, f : /\ c = current /\ n = rec[r].now /\ s = rec[r].slice /\ f = rec[r].at
                         /\ p = IF rec[r].at = "reset" THEN "counters" ELSE "store"
  OBVIOUS
<1>1. /\ f \in {"reset", "start"} /\ clock' = clock
      /\ UNCHANGED <<current, total, recorded, raced>>
      /\ start' = [start EXCEPT ![s] = n] /\ rec' = [rec EXCEPT ![r].at = p]
  BY DEF Metrics!ResetStart
<1>2. MetricTypes /\ c \in Metrics!Slices /\ rec \in [Recorders -> RecState]
  BY DEF MetricInv, MetricTypes
<1>3. /\ n \in 0 .. clock /\ s \in Metrics!Slices
      /\ rec' = [rec EXCEPT ![r] = [at |-> p, now |-> n, slice |-> s]]
  BY <1>1, <1>2, RecAt
<1>4. /\ rec' \in [Recorders -> RecState']
      /\ rec'[r].at = p /\ rec'[r].now = n /\ rec'[r].slice = s
      /\ \A o \in Recorders \ {r} : rec'[o] = rec[o]
  <2>1. p \in Points
    BY DEF Points
  <2>2. /\ rec \in [Recorders -> RecState] /\ n \in 0 .. clock /\ s \in Metrics!Slices
        /\ clock' = clock /\ rec' = [rec EXCEPT ![r] = [at |-> p, now |-> n, slice |-> s]]
    BY <1>1, <1>2, <1>3
  <2>3. QED
    BY <2>1, <2>2, RecMoved
<1>5. start' \in [Metrics!Slices -> 0 .. clock] /\ start'[s] = n
      /\ \A u \in Metrics!Slices \ {s} : start'[u] = start[u]
  BY <1>1, <1>2, <1>3 DEF MetricTypes
<1>6. MetricTypes'
  BY <1>1, <1>2, <1>4, <1>5 DEF MetricTypes
<1>7. ASSUME ~raced PROVE SlicesInv'
  <2>1. SlicesInv
    BY <1>7 DEF MetricInv
  <2>2. RotationInv(r) /\ Metrics!Rotating(r) /\ \A o \in Recorders : Metrics!Rotating(o) => o = r
    BY <1>1, <2>1 DEF SlicesInv, Metrics!Rotating
  <2>3. \A o \in Recorders : Metrics!Rotating(o)' => o = r
    BY <1>4, <2>2 DEF Metrics!Rotating
  <2>4. /\ n >= start[c] + SliceSize /\ s = Metrics!NextSlice(c) /\ s # c
        /\ \A o \in Recorders : ~Writing(o, s)
    BY <1>1, <1>2, <2>2, Ring DEF RotationInv
  <2>5. \A o \in Recorders : \A u : Writing(o, u)' => Writing(o, u)
    BY <1>4 DEF Writing
  <2>6. start'[c] = start[c]
    BY <1>2, <1>5, <2>4
  <2>7. p = "store" => total[s] = {}
    BY <1>1, <2>2 DEF RotationInv
  <2>8. p = "counters" => \A a \in total[s] : a.at + Metrics!WindowSize < n + SliceSize
    BY <1>1, <1>2, <2>1, OutOfWindow
  <2>9. RotationInv(r)'
    <3>1. \A o \in Recorders : ~Writing(o, rec[r].slice)'
      BY <1>4, <2>4, <2>5 DEF Writing
    <3>2. (rec[r].now >= start[current] + SliceSize)'
      BY <1>1, <1>4, <2>4, <2>6
    <3>3. (rec[r].slice = Metrics!NextSlice(current))'
      BY <1>1, <1>4, <2>4 DEF Metrics!NextSlice
    <3>4. (total[rec[r].slice])' = total[s] /\ (start[rec[r].slice])' = n
      BY <1>1, <1>4, <1>5
    <3>5. QED
      BY <1>4, <2>7, <2>8, <3>1, <3>2, <3>3, <3>4 DEF RotationInv
  <2>10. ASSUME NEW u \in Metrics!Slices, ~Restarted(u)' PROVE SliceInv(u)'
    <3>1. CASE u = s
      <4>1. p = "store"
        BY <1>4, <2>10, <3>1 DEF Restarted
      <4>2. total'[u] = {} /\ \A o \in Recorders : ~Writing(o, u)'
        BY <1>1, <2>4, <2>5, <2>7, <3>1, <4>1
      <4>3. QED
        BY <4>2 DEF SliceInv
    <3>2. CASE u # s
      <4>1. ~Restarted(u)
        BY <1>4, <2>10, <3>2 DEF Restarted
      <4>2. SliceInv(u)
        BY <2>1, <4>1 DEF SlicesInv
      <4>3. Age(current, u)' = Age(current, u)
        BY <1>1 DEF Age
      <4>4. start'[u] = start[u] /\ (start[current])' = start[current] /\ total'[u] = total[u]
        BY <1>1, <1>5, <2>6, <3>2
      <4>5. QED
        BY <2>5, <4>2, <4>3, <4>4 DEF SliceInv
    <3>3. QED
      BY <3>1, <3>2
  <2>11. QED
    BY <1>1, <2>1, <2>3, <2>9, <2>10 DEF SlicesInv
<1>8. QED
  BY <1>1, <1>6, <1>7 DEF MetricInv

(* The reset clears the counters of the slice. *)
LEMMA MetricClears ==
  ASSUME MetricInv, clock \in Nat, NEW r \in Recorders, Metrics!ResetCounters(r)
  PROVE  MetricInv'
<1> PICK c, n, s, p, f : /\ c = current /\ n = rec[r].now /\ s = rec[r].slice /\ f = rec[r].at
                         /\ p = IF rec[r].at = "reset" THEN "start" ELSE "store"
  OBVIOUS
<1>1. /\ f \in {"reset", "counters"} /\ clock' = clock
      /\ UNCHANGED <<current, start, recorded, raced>>
      /\ total' = [total EXCEPT ![s] = {}] /\ rec' = [rec EXCEPT ![r].at = p]
  BY DEF Metrics!ResetCounters, Metrics!ResetTotal
<1>2. MetricTypes /\ c \in Metrics!Slices /\ rec \in [Recorders -> RecState]
  BY DEF MetricInv, MetricTypes
<1>3. /\ n \in 0 .. clock /\ s \in Metrics!Slices
      /\ rec' = [rec EXCEPT ![r] = [at |-> p, now |-> n, slice |-> s]]
  BY <1>1, <1>2, RecAt
<1>4. /\ rec' \in [Recorders -> RecState']
      /\ rec'[r].at = p /\ rec'[r].now = n /\ rec'[r].slice = s
      /\ \A o \in Recorders \ {r} : rec'[o] = rec[o]
  <2>1. p \in Points
    BY DEF Points
  <2>2. /\ rec \in [Recorders -> RecState] /\ n \in 0 .. clock /\ s \in Metrics!Slices
        /\ clock' = clock /\ rec' = [rec EXCEPT ![r] = [at |-> p, now |-> n, slice |-> s]]
    BY <1>1, <1>2, <1>3
  <2>3. QED
    BY <2>1, <2>2, RecMoved
<1>5. total' \in [Metrics!Slices -> SUBSET recorded] /\ total'[s] = {}
      /\ \A u \in Metrics!Slices \ {s} : total'[u] = total[u]
  BY <1>1, <1>2, <1>3 DEF MetricTypes
<1>6. MetricTypes'
  BY <1>1, <1>2, <1>4, <1>5 DEF MetricTypes
<1>7. ASSUME ~raced PROVE SlicesInv'
  <2>1. SlicesInv
    BY <1>7 DEF MetricInv
  <2>2. RotationInv(r) /\ Metrics!Rotating(r) /\ \A o \in Recorders : Metrics!Rotating(o) => o = r
    BY <1>1, <2>1 DEF SlicesInv, Metrics!Rotating
  <2>3. \A o \in Recorders : Metrics!Rotating(o)' => o = r
    BY <1>4, <2>2 DEF Metrics!Rotating
  <2>4. /\ n >= start[c] + SliceSize /\ s = Metrics!NextSlice(c)
        /\ \A o \in Recorders : ~Writing(o, s)
    BY <1>1, <2>2 DEF RotationInv
  <2>5. \A o \in Recorders : \A u : Writing(o, u)' => Writing(o, u)
    BY <1>4 DEF Writing
  <2>6. p = "store" => start[s] = n
    BY <1>1, <2>2 DEF RotationInv
  <2>7. \A a \in total[s] : a.at + Metrics!WindowSize < n + SliceSize
    <3>1. CASE f = "reset"
      BY <1>2, <2>1, <3>1, OutOfWindow
    <3>2. CASE f = "counters"
      BY <2>2, <3>2 DEF RotationInv
    <3>3. QED
      BY <1>1, <3>1, <3>2
  <2>8. RotationInv(r)'
    <3>1. \A o \in Recorders : ~Writing(o, rec[r].slice)'
      BY <1>4, <2>4, <2>5 DEF Writing
    <3>2. (rec[r].now >= start[current] + SliceSize)'
      BY <1>1, <1>4, <2>4
    <3>3. (rec[r].slice = Metrics!NextSlice(current))'
      BY <1>1, <1>4, <2>4 DEF Metrics!NextSlice
    <3>4. (total[rec[r].slice])' = {} /\ (start[rec[r].slice])' = start[s]
      BY <1>1, <1>4, <1>5
    <3>5. rec'[r].at \in {"start", "store"} /\ (rec'[r].at = "store" => start[s] = n)
      BY <1>4, <2>6
    <3>6. QED
      BY <1>4, <3>1, <3>2, <3>3, <3>4, <3>5 DEF RotationInv
  <2>9. ASSUME NEW u \in Metrics!Slices, ~Restarted(u)' PROVE SliceInv(u)'
    <3>1. CASE u = s
      <4>1. total'[u] = {} /\ \A o \in Recorders : ~Writing(o, u)'
        BY <1>5, <2>4, <2>5, <3>1
      <4>2. QED
        BY <4>1 DEF SliceInv
    <3>2. CASE u # s
      <4>1. ~Restarted(u)
        BY <1>4, <2>9, <3>2 DEF Restarted
      <4>2. SliceInv(u)
        BY <2>1, <4>1 DEF SlicesInv
      <4>3. Age(current, u)' = Age(current, u)
        BY <1>1 DEF Age
      <4>4. total'[u] = total[u]
        BY <1>5, <3>2
      <4>5. QED
        BY <1>1, <2>5, <4>2, <4>3, <4>4 DEF SliceInv
    <3>3. QED
      BY <3>1, <3>2
  <2>10. \A u, v \in Metrics!Slices : u # v => total'[u] \cap total'[v] = {}
    <3>1. \A u \in Metrics!Slices : total'[u] \subseteq total[u]
      BY <1>5
    <3>2. QED
      BY <2>1, <3>1 DEF SlicesInv
  <2>11. ASSUME NEW a \in recorded, a.at >= clock - Metrics!WindowSize + SliceSize
         PROVE  \E u \in Metrics!Slices : a \in total'[u]
    <3>1. PICK u \in Metrics!Slices : a \in total[u]
      BY <2>1, <2>11 DEF SlicesInv
    <3>2. a.at \in Nat /\ Metrics!WindowSize \in Nat /\ SliceSize \in Nat /\ n <= clock /\ n \in Nat
      BY <1>2, <1>3, Ages, TrackersAssumption DEF MetricTypes
    <3>3. u # s
      <4>1. ~(a.at + Metrics!WindowSize < n + SliceSize)
        BY <2>11, <3>2
      <4>2. QED
        BY <2>7, <3>1, <4>1
    <3>4. QED
      BY <1>5, <3>1, <3>3
  <2>12. QED
    BY <1>1, <2>3, <2>8, <2>9, <2>10, <2>11 DEF SlicesInv
<1>8. QED
  BY <1>1, <1>6, <1>7 DEF MetricInv

(* The rotation ends: the slice after the current one is the current one. *)
LEMMA MetricTurns ==
  ASSUME MetricInv, clock \in Nat, NEW r \in Recorders, Metrics!StoreCurrent(r)
  PROVE  MetricInv'
<1> PICK c, n, s : c = current /\ n = rec[r].now /\ s = rec[r].slice
  OBVIOUS
<1>1. /\ rec[r].at = "store" /\ clock' = clock
      /\ UNCHANGED <<start, total, recorded, raced>>
      /\ current' = s /\ rec' = [rec EXCEPT ![r].at = "add"]
  BY DEF Metrics!StoreCurrent
<1>2. MetricTypes /\ c \in Metrics!Slices /\ rec \in [Recorders -> RecState]
  BY DEF MetricInv, MetricTypes
<1>3. /\ n \in 0 .. clock /\ s \in Metrics!Slices
      /\ rec' = [rec EXCEPT ![r] = [at |-> "add", now |-> n, slice |-> s]]
  BY <1>1, <1>2, RecAt
<1>4. /\ rec' \in [Recorders -> RecState']
      /\ rec'[r].at = "add" /\ rec'[r].now = n /\ rec'[r].slice = s
      /\ \A o \in Recorders \ {r} : rec'[o] = rec[o]
  <2>1. "add" \in Points /\ clock' = clock
    BY <1>1 DEF Points
  <2>2. QED
    BY <1>2, <1>3, <2>1, RecMoved
<1>5. MetricTypes'
  BY <1>1, <1>2, <1>3, <1>4 DEF MetricTypes
<1>6. ASSUME ~raced PROVE SlicesInv'
  <2>1. SlicesInv
    BY <1>6 DEF MetricInv
  <2>2. RotationInv(r) /\ Metrics!Rotating(r) /\ \A o \in Recorders : Metrics!Rotating(o) => o = r
    BY <1>1, <2>1 DEF SlicesInv, Metrics!Rotating
  <2>3. \A o \in Recorders : ~Metrics!Rotating(o)'
    BY <1>4, <2>2 DEF Metrics!Rotating
  <2>4. /\ n >= start[c] + SliceSize /\ s = Metrics!NextSlice(c)
        /\ total[s] = {} /\ start[s] = n
    BY <1>1, <2>2 DEF RotationInv
  <2>5. \A u : ~Restarted(u)
    BY <1>1, <2>2 DEF Restarted, Metrics!Rotating
  <2>6. ASSUME NEW u \in Metrics!Slices PROVE SliceInv(u)'
    <3>1. SliceInv(u)
      BY <2>1, <2>5 DEF SlicesInv
    <3>2. CASE u = s
      <4>1. Age(s, s) = 0 /\ start[s] \in Nat
        BY <1>2, <1>3, Ages DEF MetricTypes
      <4>2. Age(current, u)' = Age(s, s)
        BY <1>1, <3>2 DEF Age
      <4>3. (start[u] + Age(current, u) <= start[current])'
        BY <1>1, <3>2, <4>1, <4>2
      <4>4. total'[u] = {}
        BY <1>1, <2>4, <3>2
      <4>5. QED
        BY <4>3, <4>4 DEF SliceInv
    <3>3. CASE u # s
      <4>1. /\ Age(s, u) = Age(c, u) + SliceSize /\ Age(c, u) \in Nat /\ SliceSize \in Nat
            /\ start[u] \in Nat /\ start[c] \in Nat /\ start[s] \in Nat
        BY <1>2, <1>3, <2>4, <3>3, Ages, TrackersAssumption DEF MetricTypes
      <4>2. start[u] + Age(c, u) <= start[c] => start[u] + Age(s, u) <= start[s]
        BY <2>4, <4>1
      <4>3. Age(current, u)' = Age(s, u)
        BY <1>1 DEF Age
      <4>4. \A o \in Recorders : Writing(o, u)' => Writing(o, u)
        BY <1>4, <3>3 DEF Writing
      <4>5. (total[u] # {} \/ \E o \in Recorders : Writing(o, u))' => start[u] + Age(s, u) <= start[s]
        BY <1>1, <3>1, <4>2, <4>4 DEF SliceInv
      <4>6. QED
        BY <1>1, <3>1, <4>3, <4>5 DEF SliceInv
    <3>4. QED
      BY <3>2, <3>3
  <2>7. QED
    BY <1>1, <2>1, <2>3, <2>6 DEF SlicesInv
<1>7. QED
  BY <1>1, <1>5, <1>6 DEF MetricInv

(* Record counts in the slice that was found. *)
LEMMA MetricRecords ==
  ASSUME MetricInv, clock \in Nat, NEW r \in Recorders, Metrics!Record(r)
  PROVE  MetricInv'
<1> PICK c, s, k : c = current /\ s = rec[r].slice /\ k = Cardinality(recorded)
  OBVIOUS
<1> DEFINE new == [no |-> k + 1, at |-> clock]
<1>1. /\ rec[r].at = "add" /\ clock' = clock /\ UNCHANGED <<current, start>>
      /\ total' = [total EXCEPT ![s] = @ \cup {new}] /\ recorded' = recorded \cup {new}
      /\ raced' = (raced \/ clock >= start[s] + SliceSize)
      /\ rec' = [rec EXCEPT ![r] = [at |-> "rest", now |-> 0, slice |-> 0]]
  BY DEF Metrics!Record, Metrics!Resting, Cardinality, Metrics!Cardinality
<1>2. /\ MetricTypes /\ c \in Metrics!Slices /\ rec \in [Recorders -> RecState]
      /\ s \in Metrics!Slices
  BY RecAt DEF MetricInv, MetricTypes
<1>3. k \in Nat /\ IsFiniteSet(recorded) /\ \A a \in recorded : a.no \in 1 .. k /\ a.at \in 0 .. clock
  BY <1>2, FS_CardinalityType DEF MetricTypes
<1>4. new \notin recorded
  <2>1. \A a \in recorded : a.no # k + 1
    BY <1>3
  <2>2. QED
    BY <2>1
<1>5. IsFiniteSet(recorded') /\ Cardinality(recorded') = k + 1
  BY <1>1, <1>3, <1>4, FS_AddElement
<1>6. /\ rec' \in [Recorders -> RecState']
      /\ rec'[r].at = "rest" /\ \A o \in Recorders \ {r} : rec'[o] = rec[o]
  <2>1. "rest" \in Points /\ clock' = clock /\ 0 \in 0 .. clock /\ 0 \in Metrics!Slices
    BY <1>1, TrackersAssumption DEF Points, Metrics!Slices
  <2>2. rec' = [rec EXCEPT ![r] = [at |-> "rest", now |-> 0, slice |-> 0]]
    BY <1>1
  <2>3. QED
    BY <1>2, <2>1, <2>2, RecMoved
<1>7. new.no = k + 1 /\ new.at = clock
  OBVIOUS
<1> HIDE DEF new
<1>8. /\ total' \in [Metrics!Slices -> SUBSET recorded'] /\ total'[s] = total[s] \cup {new}
      /\ \A u \in Metrics!Slices \ {s} : total'[u] = total[u]
  BY <1>1, <1>2 DEF MetricTypes
<1>9. MetricTypes'
  <2>1. \A a \in recorded' : a.no \in 1 .. k + 1 /\ a.at \in 0 .. clock
    BY <1>1, <1>3, <1>7
  <2>2. raced' \in BOOLEAN
    BY <1>1, <1>2 DEF MetricTypes
  <2>3. QED
    BY <1>1, <1>2, <1>5, <1>6, <1>8, <2>1, <2>2 DEF MetricTypes
<1>10. ASSUME ~raced' PROVE SlicesInv'
  <2>1. ~raced /\ ~(clock >= start[s] + SliceSize)
    BY <1>1, <1>10, Zenon
  <2>2. SlicesInv
    BY <2>1 DEF MetricInv
  <2>3. \A o \in Recorders : Metrics!Rotating(o)' => Metrics!Rotating(o) /\ o # r /\ rec'[o] = rec[o]
    BY <1>6 DEF Metrics!Rotating
  <2>4. \A o \in Recorders : \A u : Writing(o, u)' => Writing(o, u)
    BY <1>6 DEF Writing
  <2>5. Writing(r, s)
    BY <1>1 DEF Writing
  <2>6. ASSUME NEW o \in Recorders, Metrics!Rotating(o)' PROVE RotationInv(o)'
    <3>1. RotationInv(o) /\ rec'[o] = rec[o] /\ rec[o].slice \in Metrics!Slices
      BY <1>2, <2>2, <2>3, <2>6, RecAt DEF SlicesInv
    <3>2. rec[o].at # "load" => rec[o].slice # s
      BY <2>5, <3>1 DEF RotationInv
    <3>3. rec[o].at # "load" => total'[rec[o].slice] = total[rec[o].slice]
      BY <1>8, <3>1, <3>2
    <3>4. \A w \in Recorders : Writing(w, rec[o].slice)' => Writing(w, rec[o].slice)
      BY <2>4, <3>1 DEF Writing
    <3>5. QED
      BY <1>1, <3>1, <3>3, <3>4 DEF RotationInv, Metrics!NextSlice
  <2>7. ~Restarted(s)
    <3>1. ASSUME NEW o \in Recorders, rec[o].at = "counters", rec[o].slice = s PROVE FALSE
      <4>1. RotationInv(o)
        BY <2>2, <3>1 DEF SlicesInv, Metrics!Rotating
      <4>2. QED
        BY <2>5, <3>1, <4>1 DEF RotationInv
    <3>2. QED
      BY <3>1 DEF Restarted
  <2>8. ASSUME NEW u \in Metrics!Slices, ~Restarted(u)' PROVE SliceInv(u)'
    <3>1. Age(current, u)' = Age(current, u)
      BY <1>1 DEF Age
    <3>2. CASE u = s
      <4>1. SliceInv(s)
        BY <1>2, <2>2, <2>7 DEF SlicesInv
      <4>2. start[s] + Age(current, s) <= start[current]
        BY <2>5, <4>1 DEF SliceInv
      <4>3. start[s] <= clock /\ clock < start[s] + SliceSize
        <5>1. start[s] \in 0 .. clock /\ SliceSize \in Nat
          BY <1>2, TrackersAssumption DEF MetricTypes
        <5>2. QED
          BY <2>1, <5>1
      <4>4. \A a \in total'[s] : start[s] <= a.at /\ a.at < start[s] + SliceSize
        BY <1>7, <1>8, <4>1, <4>3 DEF SliceInv
      <4>5. QED
        BY <1>1, <3>1, <3>2, <4>2, <4>4 DEF SliceInv
    <3>3. CASE u # s
      <4>1. ~Restarted(u)
        BY <1>1, <1>6, <2>8 DEF Restarted
      <4>2. SliceInv(u)
        BY <2>2, <4>1 DEF SlicesInv
      <4>3. total'[u] = total[u]
        BY <1>8, <3>3
      <4>4. QED
        BY <1>1, <2>4, <3>1, <4>2, <4>3 DEF SliceInv
    <3>4. QED
      BY <3>2, <3>3
  <2>9. ASSUME NEW u \in Metrics!Slices, NEW v \in Metrics!Slices, u # v
        PROVE  total'[u] \cap total'[v] = {}
    <3>1. total[u] \cap total[v] = {} /\ new \notin total[u] /\ new \notin total[v]
      BY <1>2, <1>4, <2>2, <2>9 DEF SlicesInv, MetricTypes
    <3>2. CASE u = s
      BY <1>8, <2>9, <3>1, <3>2
    <3>3. CASE v = s
      BY <1>8, <2>9, <3>1, <3>3
    <3>4. CASE u # s /\ v # s
      BY <1>8, <3>1, <3>4
    <3>5. QED
      BY <3>2, <3>3, <3>4
  <2>10. ASSUME NEW a \in recorded', a.at >= clock - Metrics!WindowSize + SliceSize
         PROVE  \E u \in Metrics!Slices : a \in total'[u]
    <3>1. CASE a = new
      BY <1>2, <1>8, <3>1
    <3>2. CASE a # new
      <4>1. PICK u \in Metrics!Slices : a \in total[u]
        BY <1>1, <2>2, <2>10, <3>2 DEF SlicesInv
      <4>2. QED
        BY <1>8, <4>1
    <3>3. QED
      BY <3>1, <3>2
  <2>11. QED
    BY <1>1, <2>2, <2>3, <2>6, <2>8, <2>9, <2>10 DEF SlicesInv
<1>11. QED
  BY <1>9, <1>10 DEF MetricInv

LEMMA MetricStep ==
  ASSUME MetricInv, clock \in Nat, clock' \in Nat, clock <= clock', MetricStepped
  PROVE  MetricInv'
<1>1. CASE UNCHANGED metricVars
  BY <1>1, MetricWaits
<1>2. CASE Metrics!Tick
  BY <1>1, <1>2 DEF Metrics!Tick, Metrics!metricVars, metricVars
<1>3. QED
  BY <1>1, <1>2, MetricFinds, MetricPicks, MetricRestarts, MetricClears, MetricTurns,
     MetricRecords DEF MetricStepped, Metrics!Next

(* A slice of the window holds what its start promises. *)
LEMMA MetricPromise ==
  ASSUME MetricInv, clock \in Nat
  PROVE  WindowIsExactUnlessRaced
<1>1. SUFFICES ASSUME ~raced, \A r \in Recorders : ~Metrics!Rotating(r)
               PROVE  /\ Metrics!RecordedSince(clock - Metrics!WindowSize + SliceSize) \subseteq Metrics!Aggregate
                      /\ Metrics!Aggregate \subseteq Metrics!RecordedSince(clock - Metrics!WindowSize)
                      /\ \A s, u \in Metrics!Included : s # u => total[s] \cap total[u] = {}
  BY DEF WindowIsExactUnlessRaced, Metrics!WindowIsExactUnlessRaced
<1>2. SlicesInv /\ MetricTypes
  BY <1>1 DEF MetricInv
<1>3. \A s \in Metrics!Slices : SliceInv(s) /\ start[s] \in Nat /\ total[s] \subseteq recorded
  BY <1>1, <1>2 DEF SlicesInv, Restarted, Metrics!Rotating, MetricTypes
<1>4. \A a \in recorded : a.at \in Nat
  BY <1>2 DEF MetricTypes
<1>5. Metrics!WindowSize \in Nat /\ SliceSize \in Nat
  BY <1>2, Ages, TrackersAssumption DEF MetricTypes
<1>6. ASSUME NEW a \in recorded, a.at >= clock - Metrics!WindowSize + SliceSize
      PROVE  \E s \in Metrics!Included : a \in total[s]
  <2>1. PICK s \in Metrics!Slices : a \in total[s]
    BY <1>2, <1>6 DEF SlicesInv
  <2>2. a.at < start[s] + SliceSize
    BY <1>3, <2>1 DEF SliceInv
  <2>3. start[s] >= clock - Metrics!WindowSize
    BY <1>3, <1>4, <1>5, <1>6, <2>2
  <2>4. QED
    BY <2>1, <2>3 DEF Metrics!Included
<1>7. ASSUME NEW s \in Metrics!Included, NEW a \in total[s]
      PROVE  a \in recorded /\ a.at >= clock - Metrics!WindowSize
  <2>1. s \in Metrics!Slices /\ start[s] >= clock - Metrics!WindowSize
    BY DEF Metrics!Included
  <2>2. start[s] <= a.at /\ a \in recorded
    BY <1>3, <2>1 DEF SliceInv
  <2>3. QED
    BY <1>3, <1>4, <1>5, <2>1, <2>2
<1>8. \A s, u \in Metrics!Included : s # u => total[s] \cap total[u] = {}
  BY <1>2 DEF SlicesInv, Metrics!Included
<1>9. QED
  BY <1>6, <1>7, <1>8 DEF Metrics!RecordedSince, Metrics!Aggregate

-----------------------------------------------------------------------------
(* A loop of n turns has a value after each of them: it starts with z, and turn i
   makes G[i, v] of the value v. *)
StaysIn(V, n, G) == \A i \in 1 .. n, v \in V : G[<<i, v>>] \in V
Turns(V, z, n, G) ==
  \E f \in [0 .. n -> V] : f[0] = z /\ \A i \in 1 .. n : f[i] = G[<<i, f[i - 1]>>]

LEMMA LoopTurns ==
  ASSUME NEW V, NEW z \in V, NEW n \in Nat, NEW G, StaysIn(V, n, G)
  PROVE  Turns(V, z, n, G)
<1> DEFINE P(m) == \E f \in [0 .. m -> V] : f[0] = z /\ \A i \in 1 .. m : f[i] = G[<<i, f[i - 1]>>]
           S == {m \in 0 .. n : ~P(m)}
<1>1. SUFFICES ASSUME S # {} PROVE FALSE
  BY n \in 0 .. n DEF Turns
<1>2. PICK m \in S : \A k \in S : m <= k
  <2>1. S \subseteq Nat
    OBVIOUS
  <2> HIDE DEF S
  <2>2. QED
    BY <1>1, <2>1, LeastNatural
<1>3. m # 0
  <2>1. P(0)
    <3> DEFINE f == [i \in 0 .. 0 |-> z]
    <3>1. f \in [0 .. 0 -> V] /\ f[0] = z /\ 1 .. 0 = {}
      OBVIOUS
    <3>2. QED
      BY <3>1
  <2>2. QED
    BY <2>1
<1>4. m - 1 \in 0 .. n /\ m - 1 \notin S /\ m \in 1 .. n
  BY <1>2, <1>3
<1>5. PICK f \in [0 .. m - 1 -> V] : f[0] = z /\ \A i \in 1 .. m - 1 : f[i] = G[<<i, f[i - 1]>>]
  BY <1>4
<1> DEFINE g == [i \in 0 .. m |-> IF i = m THEN G[<<m, f[m - 1]>>] ELSE f[i]]
<1>6. f[m - 1] \in V /\ G[<<m, f[m - 1]>>] \in V
  BY <1>4, <1>5 DEF StaysIn
<1>7. g \in [0 .. m -> V] /\ g[0] = z
  BY <1>4, <1>5, <1>6
<1>8. ASSUME NEW i \in 1 .. m PROVE g[i] = G[<<i, g[i - 1]>>]
  <2>1. g[i - 1] = f[i - 1]
    BY <1>4
  <2>2. CASE i = m
    <3>1. g[m] = G[<<m, f[m - 1]>>]
      BY <1>4
    <3>2. QED
      BY <2>1, <2>2, <3>1
  <2>3. CASE i # m
    <3>1. i \in 1 .. m - 1 /\ g[i] = f[i]
      BY <1>4, <2>3
    <3>2. QED
      BY <1>5, <2>1, <3>1
  <2>4. QED
    BY <2>2, <2>3
<1>9. P(m)
  BY <1>7, <1>8
<1>10. QED
  BY <1>2, <1>9

(* What damerauLevenshtein computes for one cell from the cells above, to the
   left, across, and two across. *)
Cell(a, b, i, j, up, left, across, two) ==
  LET d == Threat!Min3(up + 1, left + 1, across + (IF a[i] = b[j] THEN 0 ELSE 1))
  IN  IF Threat!Transposes(a, b, i, j) /\ two + 1 < d THEN two + 1 ELSE d

LEMMA CellType ==
  ASSUME NEW a, NEW b, NEW i, NEW j, NEW up \in Nat, NEW left \in Nat, NEW across \in Nat, NEW two,
         Threat!Transposes(a, b, i, j) => two \in Nat
  PROVE  Cell(a, b, i, j, up, left, across, two) \in Nat
BY DEF Cell, Threat!Min3

(* The inner loop fills a row. *)
IsRow(a, b, i, prev2, prev, r) ==
  /\ r \in [0 .. Len(b) -> Nat] /\ r[0] = i
  /\ \A j \in 1 .. Len(b) :
       r[j] = Cell(a, b, i, j, prev[j], r[j - 1], prev[j - 1], prev2[j - 2])

LEMMA RowFilled ==
  ASSUME NEW a, NEW b, Len(b) \in Nat, NEW i \in Nat,
         NEW prev2 \in [0 .. Len(b) -> Nat], NEW prev \in [0 .. Len(b) -> Nat]
  PROVE  IsRow(a, b, i, prev2, prev, Threat!Row(a, b, i, prev2, prev))
<1> DEFINE n == Len(b)
           r == Threat!Row(a, b, i, prev2, prev)
           C(j, v) == Cell(a, b, i, j, prev[j], v, prev[j - 1], prev2[j - 2])
           G == [p \in (1 .. n) \X Nat |-> C(p[1], p[2])]
           Filled(f) == [j \in 0 .. n |-> IF j = 0 THEN i ELSE C(j, f[j - 1])]
<1>1. \A j \in 1 .. n, v \in Nat : C(j, v) \in Nat
  <2>1. SUFFICES ASSUME NEW j \in 1 .. n, NEW v \in Nat PROVE C(j, v) \in Nat
    OBVIOUS
  <2>2. prev[j] \in Nat /\ prev[j - 1] \in Nat
    OBVIOUS
  <2>3. Threat!Transposes(a, b, i, j) => prev2[j - 2] \in Nat
    BY DEF Threat!Transposes
  <2>4. QED
    BY <2>2, <2>3, CellType
<1> HIDE DEF C
<1>3. \A j \in 1 .. n, v \in Nat : G[<<j, v>>] = C(j, v)
  OBVIOUS
<1> HIDE DEF G
<1>4. PICK f \in [0 .. n -> Nat] : f[0] = i /\ \A j \in 1 .. n : f[j] = G[<<j, f[j - 1]>>]
  <2>1. n \in Nat /\ StaysIn(Nat, n, G)
    BY <1>1, <1>3 DEF StaysIn
  <2> HIDE DEF n
  <2>2. Turns(Nat, i, n, G)
    BY <2>1, LoopTurns
  <2>3. QED
    BY <2>2 DEF Turns
<1>5. f = Filled(f)
  <2>1. \A j \in 1 .. n : f[j - 1] \in Nat
    <3>1. \A j \in 1 .. n : j - 1 \in 0 .. n
      OBVIOUS
    <3>2. QED
      BY <1>4, <3>1
  <2>2. \A j \in 1 .. n : f[j] = C(j, f[j - 1])
    BY <1>3, <1>4, <2>1
  <2>3. QED
    BY <1>4, <2>2
<1>6. r = CHOOSE g : g = Filled(g)
  BY DEF Threat!Row, Cell, C
<1> HIDE DEF r
<1>7. r = Filled(r)
  <2> HIDE DEF Filled
  <2>1. QED
    BY <1>5, <1>6
<1>8. r[0] = i /\ DOMAIN r = 0 .. n /\ \A j \in 1 .. n : r[j] = C(j, r[j - 1])
  BY <1>7
<1>9. r \in [0 .. n -> Nat]
  <2> DEFINE S == {j \in 0 .. n : r[j] \notin Nat}
  <2>1. SUFFICES ASSUME S # {} PROVE FALSE
    BY <1>7
  <2>2. PICK j \in S : \A k \in S : j <= k
    <3>1. S \subseteq Nat
      OBVIOUS
    <3> HIDE DEF S
    <3>2. QED
      BY <2>1, <3>1, LeastNatural
  <2>3. j # 0
    BY <1>8, <2>2
  <2>4. j \in 1 .. n /\ j - 1 \in 0 .. n /\ j - 1 \notin S
    BY <2>2, <2>3
  <2>5. r[j - 1] \in Nat
    BY <2>4
  <2>6. r[j] \in Nat
    BY <1>1, <1>8, <2>4, <2>5
  <2>7. QED
    BY <2>2, <2>6
<1>10. QED
  BY <1>8, <1>9 DEF r, C, IsRow

(* The table whose rows the outer loop fills: only the last two are kept. *)
Table(a, b, T) ==
  /\ T \in [0 .. Len(a) -> [0 .. Len(b) -> Nat]]
  /\ \A j \in 0 .. Len(b) : T[0][j] = j
  /\ \A i \in 0 .. Len(a) : T[i][0] = i
  /\ \A i \in 1 .. Len(a), j \in 1 .. Len(b) :
       T[i][j] = Cell(a, b, i, j, T[i - 1][j], T[i][j - 1], T[i - 1][j - 1], T[i - 2][j - 2])

LEMMA TableFilled ==
  ASSUME NEW a, NEW b, Len(a) \in Nat, Len(b) \in Nat
  PROVE  \E T : Table(a, b, T) /\ Threat!Distance(a, b) = T[Len(a)][Len(b)]
<1> DEFINE m == Len(a)
           n == Len(b)
           Line  == [0 .. n -> Nat]
           V     == Line \X Line
           first == [j \in 0 .. n |-> j]
           z     == <<first, first>>
           G     == [p \in (1 .. m) \X V |-> <<p[2][2], Threat!Row(a, b, p[1], p[2][1], p[2][2])>>]
           Filled(f) == [i \in 0 .. m |->
                          IF i = 0 THEN z
                          ELSE <<f[i - 1][2], Threat!Row(a, b, i, f[i - 1][1], f[i - 1][2])>>]
<1>1. m \in Nat /\ n \in Nat /\ z \in V
  OBVIOUS
<1>2. \A i \in 1 .. m, v \in V :
        /\ v[1] \in Line /\ v[2] \in Line /\ Threat!Row(a, b, i, v[1], v[2]) \in Line
        /\ G[<<i, v>>] = <<v[2], Threat!Row(a, b, i, v[1], v[2])>>
  <2>1. SUFFICES ASSUME NEW i \in 1 .. m, NEW v \in V
                 PROVE  /\ v[1] \in Line /\ v[2] \in Line /\ Threat!Row(a, b, i, v[1], v[2]) \in Line
                        /\ G[<<i, v>>] = <<v[2], Threat!Row(a, b, i, v[1], v[2])>>
    OBVIOUS
  <2>2. v[1] \in Line /\ v[2] \in Line
    OBVIOUS
  <2>3. Threat!Row(a, b, i, v[1], v[2]) \in Line
    <3>1. i \in Nat
      OBVIOUS
    <3>2. QED
      BY <2>2, <3>1, RowFilled DEF IsRow
  <2> HIDE DEF V
  <2>4. G[<<i, v>>] = <<v[2], Threat!Row(a, b, i, v[1], v[2])>>
    OBVIOUS
  <2>5. QED
    BY <2>2, <2>3, <2>4
<1>3. StaysIn(V, m, G)
  <2>1. SUFFICES ASSUME NEW i \in 1 .. m, NEW v \in V PROVE G[<<i, v>>] \in V
    BY DEF StaysIn
  <2>2. v[2] \in Line /\ Threat!Row(a, b, i, v[1], v[2]) \in Line
    BY <1>2
  <2>3. G[<<i, v>>] = <<v[2], Threat!Row(a, b, i, v[1], v[2])>>
    BY <1>2
  <2> HIDE DEF G, Line
  <2>4. QED
    BY <2>2, <2>3
<1>4. PICK f \in [0 .. m -> V] : f[0] = z /\ \A i \in 1 .. m : f[i] = G[<<i, f[i - 1]>>]
  <2> HIDE DEF m, V, z, G
  <2>1. Turns(V, z, m, G)
    BY <1>1, <1>3, LoopTurns
  <2>2. QED
    BY <2>1 DEF Turns
<1> HIDE DEF G
<1>5. f = Filled(f)
  <2> HIDE DEF V, z, Line, m
  <2>1. \A i \in 1 .. m : i - 1 \in 0 .. m
    BY <1>1
  <2>2. \A i \in 1 .. m : f[i - 1] \in V
    BY <1>4, <2>1
  <2>3. \A i \in 1 .. m : f[i] = <<f[i - 1][2], Threat!Row(a, b, i, f[i - 1][1], f[i - 1][2])>>
    BY <1>2, <1>4, <2>2
  <2>4. 0 \in 0 .. m /\ \A i \in 0 .. m : i # 0 => i \in 1 .. m
    BY <1>1
  <2>5. \A i \in 0 .. m : f[i] = Filled(f)[i]
    BY <1>4, <2>3, <2>4
  <2>6. QED
    BY <1>4, <2>5
<1> DEFINE rows == CHOOSE g : g = Filled(g)
<1>6. Threat!Distance(a, b) = rows[m][2][n]
  BY DEF Threat!Distance
<1>7. rows = Filled(rows)
  <2> HIDE DEF Filled
  <2>1. QED
    BY <1>5
<1> HIDE DEF rows
<1>8. rows[0] = z /\ \A i \in 1 .. m :
        rows[i] = <<rows[i - 1][2], Threat!Row(a, b, i, rows[i - 1][1], rows[i - 1][2])>>
  <2> HIDE DEF z
  <2>1. QED
    BY <1>1, <1>7

<1>9. \A i \in 0 .. m : rows[i] \in V
  <2> DEFINE S == {i \in 0 .. m : rows[i] \notin V}
  <2>1. SUFFICES ASSUME S # {} PROVE FALSE
    OBVIOUS
  <2>2. PICK i \in S : \A k \in S : i <= k
    <3>1. S \subseteq Nat
      BY <1>1
    <3> HIDE DEF S
    <3>2. QED
      BY <2>1, <3>1, LeastNatural
  <2> HIDE DEF z, V, Line
  <2>3. i # 0
    BY <1>1, <1>8, <2>2
  <2>4. i \in 1 .. m /\ i - 1 \in 0 .. m /\ i - 1 \notin S
    BY <1>1, <2>2, <2>3
  <2>5. rows[i - 1] \in V
    BY <2>4
  <2>6. <<rows[i - 1][2], Threat!Row(a, b, i, rows[i - 1][1], rows[i - 1][2])>> \in V
    BY <1>2, <2>4, <2>5 DEF V
  <2>7. rows[i] \in V
    BY <1>8, <2>4, <2>6
  <2>8. QED
    BY <2>2, <2>7
<1> DEFINE T == [i \in 0 .. m |-> rows[i][2]]
<1>10. \A i \in 0 .. m : T[i] \in Line /\ T[i] = rows[i][2]
  <2> HIDE DEF Line
  <2>1. QED
    BY <1>9
<1>11. T[0] = first
  BY <1>1, <1>8
<1>12. ASSUME NEW i \in 1 .. m
       PROVE  /\ T[i][0] = i
              /\ \A j \in 1 .. n :
                   T[i][j] = Cell(a, b, i, j, T[i - 1][j], T[i][j - 1], T[i - 1][j - 1], T[i - 2][j - 2])
  <2> DEFINE prev2 == rows[i - 1][1]
             prev  == rows[i - 1][2]
  <2>1. i - 1 \in 0 .. m /\ i \in 0 .. m /\ i \in Nat
    BY <1>1
  <2>2. prev2 \in Line /\ prev \in Line
    <3> HIDE DEF Line
    <3>1. QED
      BY <1>9, <2>1
  <2>3. T[i - 1] = prev
    BY <1>10, <2>1
  <2>4. T[i] = Threat!Row(a, b, i, prev2, prev)
    <3>1. rows[i][2] = Threat!Row(a, b, i, prev2, prev)
      BY <1>8
    <3>2. QED
      BY <1>10, <2>1, <3>1
  <2>5. i > 1 => T[i - 2] = prev2
    <3>1. SUFFICES ASSUME i > 1 PROVE T[i - 2] = prev2
      OBVIOUS
    <3>2. i - 1 \in 1 .. m /\ (i - 1) - 1 = i - 2 /\ i - 2 \in 0 .. m
      BY <1>1, <3>1
    <3>3. rows[i - 1][1] = rows[i - 2][2]
      BY <1>8, <3>2
    <3>4. QED
      BY <1>10, <3>2, <3>3
  <2> HIDE DEF prev2, prev, T
  <2>6. /\ T[i][0] = i
        /\ \A j \in 1 .. n : T[i][j] = Cell(a, b, i, j, prev[j], T[i][j - 1], prev[j - 1], prev2[j - 2])
    <3> DEFINE r == Threat!Row(a, b, i, prev2, prev)
    <3>1. /\ r[0] = i
          /\ \A j \in 1 .. n : r[j] = Cell(a, b, i, j, prev[j], r[j - 1], prev[j - 1], prev2[j - 2])
      <4>1. IsRow(a, b, i, prev2, prev, r)
        BY <1>1, <2>1, <2>2, RowFilled
      <4> HIDE DEF r
      <4>2. QED
        BY <4>1 DEF IsRow
    <3> HIDE DEF r
    <3>2. T[i] = r
      BY <2>4 DEF r
    <3>3. QED
      BY <3>1, <3>2
  <2>7. \A j \in 1 .. n : \A up, left, across :
          Cell(a, b, i, j, up, left, across, prev2[j - 2])
            = Cell(a, b, i, j, up, left, across, T[i - 2][j - 2])
    <3>1. \A j : Threat!Transposes(a, b, i, j) => T[i - 2] = prev2
      BY <2>5 DEF Threat!Transposes
    <3>2. QED
      BY <3>1 DEF Cell
  <2>8. ASSUME NEW j \in 1 .. n
        PROVE  T[i][j] = Cell(a, b, i, j, T[i - 1][j], T[i][j - 1], T[i - 1][j - 1], T[i - 2][j - 2])
    <3>1. T[i][j] = Cell(a, b, i, j, prev[j], T[i][j - 1], prev[j - 1], prev2[j - 2])
      BY <2>6
    <3>2. T[i][j] = Cell(a, b, i, j, prev[j], T[i][j - 1], prev[j - 1], T[i - 2][j - 2])
      BY <2>7, <3>1
    <3>3. QED
      BY <2>3, <3>2
  <2>9. QED
    BY <2>6, <2>8
<1>13. Table(a, b, T)
  <2>1. T \in [0 .. m -> [0 .. n -> Nat]]
    BY <1>10
  <2> HIDE DEF T
  <2>2. \A j \in 0 .. n : T[0][j] = j
    BY <1>11
  <2>3. \A i \in 0 .. m : T[i][0] = i
    <3>1. T[0][0] = 0
      BY <1>1, <2>2
    <3>2. \A i \in 0 .. m : i # 0 => i \in 1 .. m
      BY <1>1
    <3>3. QED
      BY <1>12, <3>1, <3>2
  <2>4. QED
    BY <1>12, <2>1, <2>2, <2>3 DEF Table
<1>14. Threat!Distance(a, b) = T[m][n]
  BY <1>1, <1>6, <1>10
<1>15. QED
  <2> HIDE DEF T
  <2>1. QED
    BY <1>13, <1>14

-----------------------------------------------------------------------------
(* What a cell can be: its neighbours bound it from above, and it is one of the
   bounds. *)
LEMMA CellBounds ==
  ASSUME NEW a, NEW b, NEW T, Len(a) \in Nat, Len(b) \in Nat, Table(a, b, T),
         NEW i \in 1 .. Len(a), NEW j \in 1 .. Len(b)
  PROVE  /\ T[i][j] \in Nat /\ T[i - 1][j] \in Nat /\ T[i][j - 1] \in Nat /\ T[i - 1][j - 1] \in Nat
         /\ T[i][j] <= T[i - 1][j] + 1 /\ T[i][j] <= T[i][j - 1] + 1
         /\ T[i][j] <= T[i - 1][j - 1] + 1
         /\ a[i] = b[j] => T[i][j] <= T[i - 1][j - 1]
         /\ Threat!Transposes(a, b, i, j) =>
              /\ i > 1 /\ j > 1 /\ T[i - 2][j - 2] \in Nat
              /\ T[i][j] <= T[i - 2][j - 2] + 1
         /\ \/ T[i][j] = T[i - 1][j] + 1 \/ T[i][j] = T[i][j - 1] + 1
            \/ T[i][j] = T[i - 1][j - 1] + 1
            \/ a[i] = b[j] /\ T[i][j] = T[i - 1][j - 1]
            \/ Threat!Transposes(a, b, i, j) /\ T[i][j] = T[i - 2][j - 2] + 1
<1> DEFINE up == T[i - 1][j]
           left == T[i][j - 1]
           across == T[i - 1][j - 1]
           two == T[i - 2][j - 2]
<1>1. i \in 0 .. Len(a) /\ i - 1 \in 0 .. Len(a) /\ j \in 0 .. Len(b) /\ j - 1 \in 0 .. Len(b)
  OBVIOUS
<1>2. T[i][j] \in Nat /\ up \in Nat /\ left \in Nat /\ across \in Nat
  BY <1>1 DEF Table
<1>3. Threat!Transposes(a, b, i, j) => i > 1 /\ j > 1 /\ two \in Nat
  <2>1. SUFFICES ASSUME Threat!Transposes(a, b, i, j) PROVE i > 1 /\ j > 1 /\ two \in Nat
    OBVIOUS
  <2>2. i > 1 /\ j > 1
    BY <2>1 DEF Threat!Transposes
  <2>3. i - 2 \in 0 .. Len(a) /\ j - 2 \in 0 .. Len(b)
    BY <2>2
  <2>4. QED
    BY <2>2, <2>3 DEF Table
<1>4. T[i][j] = Cell(a, b, i, j, up, left, across, two)
  BY DEF Table
<1> HIDE DEF up, left, across, two
<1>5. /\ T[i][j] <= up + 1 /\ T[i][j] <= left + 1 /\ T[i][j] <= across + 1
      /\ a[i] = b[j] => T[i][j] <= across
      /\ Threat!Transposes(a, b, i, j) => T[i][j] <= two + 1
      /\ \/ T[i][j] = up + 1 \/ T[i][j] = left + 1 \/ T[i][j] = across + 1
         \/ a[i] = b[j] /\ T[i][j] = across
         \/ Threat!Transposes(a, b, i, j) /\ T[i][j] = two + 1
  BY <1>2, <1>3, <1>4 DEF Cell, Threat!Min3
<1>6. QED
  BY <1>2, <1>3, <1>5 DEF up, left, across, two

(* Positions i in a and j in b move along equal letters to k and l, or by one
   edit. *)
Along(a, b, i, j, k, l) == i <= k /\ k - i = l - j /\ \A h \in 1 .. k - i : a[i + h] = b[j + h]
Edit(a, b, i, j, k, l) ==
  \/ k = i + 1 /\ l = j
  \/ k = i /\ l = j + 1
  \/ k = i + 1 /\ l = j + 1
  \/ k = i + 2 /\ l = j + 2 /\ a[i + 1] = b[j + 2] /\ a[i + 2] = b[j + 1]

LEMMA AlongGoesOn ==
  ASSUME NEW a, NEW b, NEW i \in Nat, NEW j \in Nat, NEW k \in Nat, NEW l \in Nat
  PROVE  /\ Along(a, b, i, j, i, j)
         /\ k > 0 /\ l > 0 /\ Along(a, b, i, j, k - 1, l - 1) /\ a[k] = b[l] => Along(a, b, i, j, k, l)
         /\ \A p, q \in Nat : Along(a, b, i, j, k, l) /\ Along(a, b, k, l, p, q) => Along(a, b, i, j, p, q)
<1>1. Along(a, b, i, j, i, j)
  BY DEF Along
<1>2. ASSUME k > 0, l > 0, Along(a, b, i, j, k - 1, l - 1), a[k] = b[l]
      PROVE  Along(a, b, i, j, k, l)
  <2>1. i <= k - 1 /\ (k - 1) - i = (l - 1) - j /\ \A h \in 1 .. (k - 1) - i : a[i + h] = b[j + h]
    BY <1>2 DEF Along
  <2>2. ASSUME NEW h \in 1 .. k - i PROVE a[i + h] = b[j + h]
    <3>1. CASE h = k - i
      <4>1. i + h = k /\ j + h = l
        BY <2>1, <3>1
      <4>2. QED
        BY <1>2, <4>1
    <3>2. CASE h # k - i
      <4>1. h \in 1 .. (k - 1) - i
        BY <2>1, <3>2
      <4>2. QED
        BY <2>1, <4>1
    <3>3. QED
      BY <3>1, <3>2
  <2>3. QED
    BY <2>1, <2>2 DEF Along
<1>3. ASSUME NEW p \in Nat, NEW q \in Nat, Along(a, b, i, j, k, l), Along(a, b, k, l, p, q)
      PROVE  Along(a, b, i, j, p, q)
  <2>1. /\ i <= k /\ k - i = l - j /\ \A h \in 1 .. k - i : a[i + h] = b[j + h]
        /\ k <= p /\ p - k = q - l /\ \A h \in 1 .. p - k : a[k + h] = b[l + h]
    BY <1>3 DEF Along
  <2>2. ASSUME NEW h \in 1 .. p - i PROVE a[i + h] = b[j + h]
    <3>1. CASE h <= k - i
      BY <2>1, <3>1
    <3>2. CASE h > k - i
      <4>1. h - (k - i) \in 1 .. p - k
        BY <2>1, <3>2
      <4>2. k + (h - (k - i)) = i + h /\ l + (h - (k - i)) = j + h
        BY <2>1
      <4>3. QED
        BY <2>1, <4>1, <4>2
    <3>3. QED
      BY <2>1, <3>1, <3>2
  <2>3. QED
    BY <2>1, <2>2 DEF Along
<1>4. QED
  BY <1>1, <1>2, <1>3

(* Equal letters cost nothing, *)
LEMMA AlongIsFree ==
  ASSUME NEW a, NEW b, NEW T, Len(a) \in Nat, Len(b) \in Nat, Table(a, b, T),
         NEW i \in 0 .. Len(a), NEW k \in 0 .. Len(a), NEW j \in 0 .. Len(b), NEW l \in 0 .. Len(b),
         Along(a, b, i, j, k, l)
  PROVE  T[k][l] <= T[i][j]
<1>1. i <= k /\ k - i = l - j /\ \A h \in 1 .. k - i : a[i + h] = b[j + h]
  BY DEF Along
<1> DEFINE S == {h \in 0 .. k - i : ~(T[i + h][j + h] <= T[i][j])}
<1>2. SUFFICES ASSUME S # {} PROVE FALSE
  <2>1. k - i \in 0 .. k - i /\ i + (k - i) = k /\ j + (k - i) = l
    BY <1>1
  <2>2. QED
    BY <2>1
<1>3. PICK h \in S : \A g \in S : h <= g
  <2>1. S \subseteq Nat
    BY <1>1
  <2> HIDE DEF S
  <2>2. QED
    BY <1>2, <2>1, LeastNatural
<1>4. T[i][j] \in Nat
  BY DEF Table
<1>5. h # 0
  <2>1. i + 0 = i /\ j + 0 = j /\ T[i][j] <= T[i][j]
    BY <1>4
  <2>2. QED
    BY <1>3, <2>1
<1>6. h \in 1 .. k - i /\ h - 1 \in 0 .. k - i /\ h - 1 \notin S
  <2>1. h \in 0 .. k - i
    BY <1>3
  <2>2. h \in 1 .. k - i /\ h - 1 \in 0 .. k - i /\ ~(h <= h - 1)
    BY <1>1, <1>5, <2>1
  <2> HIDE DEF S
  <2>3. QED
    BY <1>3, <2>2
<1>7. i + h \in 1 .. Len(a) /\ j + h \in 1 .. Len(b) /\ (i + h) - 1 = i + (h - 1) /\ (j + h) - 1 = j + (h - 1)
  BY <1>1, <1>6
<1>8. T[i + (h - 1)][j + (h - 1)] <= T[i][j]
  BY <1>6
<1>9. T[i + h][j + h] <= T[i + (h - 1)][j + (h - 1)]
      /\ T[i + h][j + h] \in Nat /\ T[i + (h - 1)][j + (h - 1)] \in Nat
  <2>1. a[i + h] = b[j + h]
    BY <1>1, <1>6
  <2>2. QED
    BY <1>7, <2>1, CellBounds
<1>10. T[i + h][j + h] <= T[i][j]
  BY <1>4, <1>8, <1>9
<1>11. QED
  BY <1>3, <1>10

(* and an edit costs one at most. *)
LEMMA EditCostsOne ==
  ASSUME NEW a, NEW b, NEW T, Len(a) \in Nat, Len(b) \in Nat, Table(a, b, T),
         NEW i \in 0 .. Len(a), NEW k \in 0 .. Len(a), NEW j \in 0 .. Len(b), NEW l \in 0 .. Len(b),
         Edit(a, b, i, j, k, l)
  PROVE  T[k][l] <= T[i][j] + 1
<1>1. T[i][0] = i /\ T[k][0] = k /\ T[0][j] = j /\ T[0][l] = l
  BY DEF Table
<1>2. CASE k = i + 1 /\ l = j
  <2>1. CASE l = 0
    BY <1>1, <1>2, <2>1
  <2>2. CASE l # 0
    <3>1. k \in 1 .. Len(a) /\ l \in 1 .. Len(b) /\ k - 1 = i
      BY <1>2, <2>2
    <3>2. QED
      BY <1>2, <3>1, CellBounds
  <2>3. QED
    BY <2>1, <2>2
<1>3. CASE k = i /\ l = j + 1
  <2>1. CASE k = 0
    BY <1>1, <1>3, <2>1
  <2>2. CASE k # 0
    <3>1. k \in 1 .. Len(a) /\ l \in 1 .. Len(b) /\ l - 1 = j
      BY <1>3, <2>2
    <3>2. QED
      BY <1>3, <3>1, CellBounds
  <2>3. QED
    BY <2>1, <2>2
<1>4. CASE k = i + 1 /\ l = j + 1
  <2>1. k \in 1 .. Len(a) /\ l \in 1 .. Len(b) /\ k - 1 = i /\ l - 1 = j
    BY <1>4
  <2>2. QED
    BY <2>1, CellBounds
<1>5. CASE k = i + 2 /\ l = j + 2 /\ a[i + 1] = b[j + 2] /\ a[i + 2] = b[j + 1]
  <2>1. /\ k \in 1 .. Len(a) /\ l \in 1 .. Len(b) /\ k > 1 /\ l > 1
        /\ k - 2 = i /\ l - 2 = j /\ k - 1 = i + 1 /\ l - 1 = j + 1
    BY <1>5
  <2>2. Threat!Transposes(a, b, k, l)
    BY <1>5, <2>1 DEF Threat!Transposes
  <2>3. QED
    BY <2>1, <2>2, CellBounds
<1>6. QED
  BY <1>2, <1>3, <1>4, <1>5 DEF Edit

(* The positions a given number of edits leads to, and those the table gives a
   number to. *)
Grid(a, b) == (0 .. Len(a)) \X (0 .. Len(b))
Start(a, b) == {p \in Grid(a, b) : Along(a, b, 0, 0, p[1], p[2])}
Beyond(a, b, S, k, l) ==
  \E i \in 0 .. Len(a), j \in 0 .. Len(b), g \in 0 .. Len(a), h \in 0 .. Len(b) :
    <<i, j>> \in S /\ Edit(a, b, i, j, g, h) /\ Along(a, b, g, h, k, l)
Further(a, b, S) == {p \in Grid(a, b) : p \in S \/ Beyond(a, b, S, p[1], p[2])}
UpTo(a, b, T, e) == {p \in Grid(a, b) : T[p[1]][p[2]] <= e}

LEMMA InSets ==
  ASSUME NEW a, NEW b, NEW T, NEW e, NEW S, NEW k, NEW l
  PROVE  /\ <<k, l>> \in Start(a, b) <=>
              k \in 0 .. Len(a) /\ l \in 0 .. Len(b) /\ Along(a, b, 0, 0, k, l)
         /\ <<k, l>> \in Further(a, b, S) <=>
              k \in 0 .. Len(a) /\ l \in 0 .. Len(b) /\ (<<k, l>> \in S \/ Beyond(a, b, S, k, l))
         /\ <<k, l>> \in UpTo(a, b, T, e) <=>
              k \in 0 .. Len(a) /\ l \in 0 .. Len(b) /\ T[k][l] <= e
<1>1. <<k, l>> \in Grid(a, b) <=> k \in 0 .. Len(a) /\ l \in 0 .. Len(b)
  BY DEF Grid
<1>2. <<k, l>>[1] = k /\ <<k, l>>[2] = l
  OBVIOUS
<1>3. QED
  BY <1>1, <1>2 DEF Start, Further, UpTo

LEMMA InTable ==
  ASSUME NEW a, NEW b, NEW T, Len(a) \in Nat, Len(b) \in Nat, Table(a, b, T)
  PROVE  /\ \A i \in 0 .. Len(a), j \in 0 .. Len(b) : T[i][j] \in Nat
         /\ \A j \in 0 .. Len(b) : T[0][j] = j
         /\ \A i \in 0 .. Len(a) : T[i][0] = i
BY DEF Table

(* Whatever one edit more reaches, the table counts one more for at most. *)
LEMMA FurtherIsCounted ==
  ASSUME NEW a, NEW b, NEW T, Len(a) \in Nat, Len(b) \in Nat, Table(a, b, T), NEW e \in Nat,
         NEW k, NEW l, <<k, l>> \in Further(a, b, UpTo(a, b, T, e))
  PROVE  <<k, l>> \in UpTo(a, b, T, e + 1)
<1> DEFINE S == UpTo(a, b, T, e)
<1>1. k \in 0 .. Len(a) /\ l \in 0 .. Len(b) /\ (<<k, l>> \in S \/ Beyond(a, b, S, k, l))
  BY InSets
<1>2. T[k][l] \in Nat
  BY <1>1, InTable
<1>3. CASE <<k, l>> \in S
  <2>1. T[k][l] <= e
    BY <1>3, InSets
  <2>2. T[k][l] <= e + 1
    BY <1>2, <2>1
  <2>3. QED
    BY <1>1, <2>2, InSets
<1>4. CASE Beyond(a, b, S, k, l)
  <2>1. PICK i \in 0 .. Len(a), j \in 0 .. Len(b), g \in 0 .. Len(a), h \in 0 .. Len(b) :
          <<i, j>> \in S /\ Edit(a, b, i, j, g, h) /\ Along(a, b, g, h, k, l)
    BY <1>4 DEF Beyond
  <2>2. T[i][j] <= e
    BY <2>1, InSets
  <2>3. T[g][h] <= T[i][j] + 1
    BY <2>1, EditCostsOne
  <2>4. T[k][l] <= T[g][h]
    BY <1>1, <2>1, AlongIsFree
  <2>5. T[i][j] \in Nat /\ T[g][h] \in Nat
    BY InTable
  <2>6. T[k][l] <= e + 1
    BY <1>2, <2>2, <2>3, <2>4, <2>5
  <2>7. QED
    BY <1>1, <2>6, InSets
<1>5. QED
  BY <1>1, <1>3, <1>4

(* Where the last edit of the table leads. *)
LEMMA LastEdit ==
  ASSUME NEW a, NEW b, Len(a) \in Nat, Len(b) \in Nat, NEW S,
         NEW i \in 0 .. Len(a), NEW j \in 0 .. Len(b), NEW k \in 0 .. Len(a), NEW l \in 0 .. Len(b),
         <<i, j>> \in S, Edit(a, b, i, j, k, l)
  PROVE  <<k, l>> \in Further(a, b, S)
<1>1. Along(a, b, k, l, k, l)
  <2>1. k \in Nat /\ l \in Nat
    OBVIOUS
  <2>2. QED
    BY <2>1, AlongGoesOn
<1>2. Beyond(a, b, S, k, l)
  BY <1>1 DEF Beyond
<1>3. QED
  BY <1>2, InSets

LEMMA LastMatch ==
  ASSUME NEW a, NEW b, NEW T, Len(a) \in Nat, Len(b) \in Nat, Table(a, b, T), NEW e \in Nat,
         NEW k \in 1 .. Len(a), NEW l \in 1 .. Len(b), a[k] = b[l],
         <<k - 1, l - 1>> \in Further(a, b, UpTo(a, b, T, e))
  PROVE  <<k, l>> \in Further(a, b, UpTo(a, b, T, e))
<1> DEFINE S == UpTo(a, b, T, e)
<1>1. <<k - 1, l - 1>> \in S \/ Beyond(a, b, S, k - 1, l - 1)
  BY InSets
<1>2. k \in 0 .. Len(a) /\ l \in 0 .. Len(b)
  OBVIOUS
<1>3. CASE <<k - 1, l - 1>> \in S
  <2>1. T[k - 1][l - 1] <= e
    BY <1>3, InSets
  <2>2. T[k][l] <= T[k - 1][l - 1] /\ T[k][l] \in Nat /\ T[k - 1][l - 1] \in Nat
    BY CellBounds
  <2>3. T[k][l] <= e
    BY <2>1, <2>2
  <2>4. <<k, l>> \in S
    BY <1>2, <2>3, InSets
  <2>5. QED
    BY <1>2, <2>4, InSets
<1>4. CASE Beyond(a, b, S, k - 1, l - 1)
  <2>1. PICK i \in 0 .. Len(a), j \in 0 .. Len(b), g \in 0 .. Len(a), h \in 0 .. Len(b) :
          <<i, j>> \in S /\ Edit(a, b, i, j, g, h) /\ Along(a, b, g, h, k - 1, l - 1)
    BY <1>4 DEF Beyond
  <2>2. Along(a, b, g, h, k, l)
    <3>1. g \in Nat /\ h \in Nat /\ k \in Nat /\ l \in Nat /\ k > 0 /\ l > 0
      OBVIOUS
    <3>2. QED
      BY <2>1, <3>1, AlongGoesOn
  <2>3. Beyond(a, b, S, k, l)
    BY <2>1, <2>2 DEF Beyond
  <2>4. QED
    BY <1>2, <2>3, InSets
<1>5. QED
  BY <1>1, <1>3, <1>4

(* And what the table counts one more for, one edit more reaches: a position
   nearest to the start that it does not would have a neighbour that is. *)
LEMMA CountedIsFurther ==
  ASSUME NEW a, NEW b, NEW T, Len(a) \in Nat, Len(b) \in Nat, Table(a, b, T), NEW e \in Nat,
         NEW k, NEW l, <<k, l>> \in UpTo(a, b, T, e + 1)
  PROVE  <<k, l>> \in Further(a, b, UpTo(a, b, T, e))
<1> DEFINE S == UpTo(a, b, T, e)
           Missed(i, j) == <<i, j>> \in UpTo(a, b, T, e + 1) /\ <<i, j>> \notin Further(a, b, S)
           Sums == {s \in Nat : \E i \in 0 .. Len(a), j \in 0 .. Len(b) : i + j = s /\ Missed(i, j)}
<1>1. SUFFICES ASSUME Missed(k, l) PROVE FALSE
  OBVIOUS
<1>2. k \in 0 .. Len(a) /\ l \in 0 .. Len(b)
  BY InSets
<1>3. k + l \in Sums
  <2> HIDE DEF Missed
  <2>1. QED
    BY <1>1, <1>2
<1>4. PICK s \in Sums : \A r \in Sums : s <= r
  <2>1. Sums \subseteq Nat
    OBVIOUS
  <2> HIDE DEF Sums
  <2>2. QED
    BY <1>3, <2>1, LeastNatural
<1>5. PICK i \in 0 .. Len(a), j \in 0 .. Len(b) : i + j = s /\ Missed(i, j)
  BY <1>4
<1>6. ASSUME NEW g \in 0 .. Len(a), NEW h \in 0 .. Len(b), g + h < i + j, T[g][h] <= e + 1
      PROVE  <<g, h>> \in Further(a, b, S)
  <2>1. <<g, h>> \in UpTo(a, b, T, e + 1)
    BY <1>6, InSets
  <2>2. ~Missed(g, h)
    <3> HIDE DEF Missed
    <3>1. SUFFICES ASSUME Missed(g, h) PROVE FALSE
      OBVIOUS
    <3>2. g + h \in Nat
      OBVIOUS
    <3>3. g + h \in Sums
      BY <3>1, <3>2
    <3>4. s <= g + h /\ s \in Nat
      BY <1>4, <3>3
    <3>5. QED
      BY <1>5, <1>6, <3>4
  <2>3. QED
    BY <2>1, <2>2
<1>7. T[i][j] <= e + 1 /\ T[i][j] \in Nat /\ <<i, j>> \notin Further(a, b, S)
  <2>1. T[i][j] <= e + 1
    BY <1>5, InSets
  <2>2. QED
    BY <1>5, <2>1, InTable
<1>8. ASSUME NEW g \in 0 .. Len(a), NEW h \in 0 .. Len(b), T[g][h] <= e, Edit(a, b, g, h, i, j)
      PROVE  FALSE
  <2>1. <<g, h>> \in S
    BY <1>8, InSets
  <2> HIDE DEF S
  <2>2. <<i, j>> \in Further(a, b, S)
    BY <1>8, <2>1, LastEdit
  <2>3. QED
    BY <1>7, <2>2
<1>9. CASE i = 0 /\ j = 0
  <2>1. T[i][j] <= e
    BY <1>9, InTable
  <2>2. <<i, j>> \in S
    BY <2>1, InSets
  <2>3. QED
    BY <1>7, <2>2, InSets
<1>10. CASE i = 0 /\ j # 0
  <2>1. T[i][j] = j /\ j - 1 \in 0 .. Len(b) /\ T[i][j - 1] = j - 1
    BY <1>10, InTable
  <2>2. T[i][j - 1] <= e
    BY <1>7, <2>1
  <2>3. Edit(a, b, i, j - 1, i, j)
    BY DEF Edit
  <2>4. QED
    BY <1>8, <2>1, <2>2, <2>3
<1>11. CASE i # 0 /\ j = 0
  <2>1. T[i][j] = i /\ i - 1 \in 0 .. Len(a) /\ T[i - 1][j] = i - 1
    BY <1>11, InTable
  <2>2. T[i - 1][j] <= e
    BY <1>7, <2>1
  <2>3. Edit(a, b, i - 1, j, i, j)
    BY DEF Edit
  <2>4. QED
    BY <1>8, <2>1, <2>2, <2>3
<1>12. CASE i # 0 /\ j # 0
  <2>1. /\ i \in 1 .. Len(a) /\ j \in 1 .. Len(b)
        /\ i - 1 \in 0 .. Len(a) /\ j - 1 \in 0 .. Len(b)
    BY <1>12
  <2>2. T[i - 1][j] \in Nat /\ T[i][j - 1] \in Nat /\ T[i - 1][j - 1] \in Nat
    BY <2>1, CellBounds
  <2>3. CASE T[i][j] = T[i - 1][j] + 1
    <3>1. T[i - 1][j] <= e
      BY <1>7, <2>2, <2>3
    <3>2. Edit(a, b, i - 1, j, i, j)
      BY DEF Edit
    <3>3. QED
      BY <1>8, <2>1, <3>1, <3>2
  <2>4. CASE T[i][j] = T[i][j - 1] + 1
    <3>1. T[i][j - 1] <= e
      BY <1>7, <2>2, <2>4
    <3>2. Edit(a, b, i, j - 1, i, j)
      BY DEF Edit
    <3>3. QED
      BY <1>8, <2>1, <3>1, <3>2
  <2>5. CASE T[i][j] = T[i - 1][j - 1] + 1
    <3>1. T[i - 1][j - 1] <= e
      BY <1>7, <2>2, <2>5
    <3>2. Edit(a, b, i - 1, j - 1, i, j)
      BY DEF Edit
    <3>3. QED
      BY <1>8, <2>1, <3>1, <3>2
  <2>6. CASE a[i] = b[j] /\ T[i][j] = T[i - 1][j - 1]
    <3>1. T[i - 1][j - 1] <= e + 1 /\ (i - 1) + (j - 1) < i + j
      BY <1>7, <2>6
    <3>2. <<i - 1, j - 1>> \in Further(a, b, S)
      BY <1>6, <2>1, <3>1
    <3>3. <<i, j>> \in Further(a, b, S)
      BY <2>1, <2>6, <3>2, LastMatch
    <3>4. QED
      BY <1>7, <3>3
  <2>7. CASE Threat!Transposes(a, b, i, j) /\ T[i][j] = T[i - 2][j - 2] + 1
    <3>1. i > 1 /\ j > 1 /\ T[i - 2][j - 2] \in Nat
      BY <2>1, <2>7, CellBounds
    <3>2. T[i - 2][j - 2] <= e /\ i - 2 \in 0 .. Len(a) /\ j - 2 \in 0 .. Len(b)
      BY <1>7, <2>7, <3>1
    <3>3. a[i] = b[j - 1] /\ a[i - 1] = b[j]
      BY <2>7 DEF Threat!Transposes
    <3>4. (i - 2) + 1 = i - 1 /\ (i - 2) + 2 = i /\ (j - 2) + 1 = j - 1 /\ (j - 2) + 2 = j
      OBVIOUS
    <3>5. Edit(a, b, i - 2, j - 2, i, j)
      BY <3>3, <3>4 DEF Edit
    <3>6. QED
      BY <1>8, <3>2, <3>5
  <2>8. QED
    BY <2>1, <2>3, <2>4, <2>5, <2>6, <2>7, CellBounds
<1>13. QED
  BY <1>9, <1>10, <1>11, <1>12

(* The table counts nothing exactly for equal beginnings. *)
LEMMA NothingCounted ==
  ASSUME NEW a, NEW b, NEW T, Len(a) \in Nat, Len(b) \in Nat, Table(a, b, T), NEW k, NEW l
  PROVE  <<k, l>> \in UpTo(a, b, T, 0) <=> <<k, l>> \in Start(a, b)
<1>1. ASSUME <<k, l>> \in Start(a, b) PROVE <<k, l>> \in UpTo(a, b, T, 0)
  <2>1. k \in 0 .. Len(a) /\ l \in 0 .. Len(b) /\ Along(a, b, 0, 0, k, l)
    BY <1>1, InSets
  <2>2. 0 \in 0 .. Len(a) /\ 0 \in 0 .. Len(b) /\ T[0][0] = 0
    BY InTable
  <2>3. T[k][l] <= T[0][0]
    BY <2>1, <2>2, AlongIsFree
  <2>4. QED
    BY <2>1, <2>2, <2>3, InSets
<1>2. ASSUME <<k, l>> \in UpTo(a, b, T, 0) PROVE <<k, l>> \in Start(a, b)
  <2>1. k \in 0 .. Len(a) /\ l \in 0 .. Len(b) /\ T[k][l] <= 0
    BY <1>2, InSets
  <2> DEFINE S == {i \in 0 .. Len(a) : \E j \in 0 .. Len(b) : T[i][j] <= 0 /\ ~Along(a, b, 0, 0, i, j)}
  <2>2. SUFFICES ASSUME S # {} PROVE FALSE
    BY <2>1, InSets
  <2>3. PICK i \in S : \A g \in S : i <= g
    <3>1. S \subseteq Nat
      OBVIOUS
    <3> HIDE DEF S
    <3>2. QED
      BY <2>2, <3>1, LeastNatural
  <2>4. PICK j \in 0 .. Len(b) : T[i][j] <= 0 /\ ~Along(a, b, 0, 0, i, j)
    BY <2>3
  <2>5. i \in 0 .. Len(a) /\ T[i][j] = 0
    <3>1. i \in 0 .. Len(a)
      BY <2>3
    <3>2. T[i][j] \in Nat
      BY <3>1, InTable
    <3>3. QED
      BY <2>4, <3>1, <3>2
  <2>6. CASE i = 0
    <3>1. j = 0
      BY <2>5, <2>6, InTable
    <3>2. QED
      BY <2>4, <2>6, <3>1, AlongGoesOn
  <2>7. CASE i # 0 /\ j = 0
    BY <2>5, <2>7, InTable
  <2>8. CASE i # 0 /\ j # 0
    <3>1. /\ i \in 1 .. Len(a) /\ j \in 1 .. Len(b) /\ i - 1 \in 0 .. Len(a) /\ j - 1 \in 0 .. Len(b)
          /\ i \in Nat /\ j \in Nat /\ i > 0 /\ j > 0 /\ ~(i <= i - 1)
      BY <2>5, <2>8
    <3>2. a[i] = b[j] /\ T[i - 1][j - 1] = 0
      <4>1. /\ T[i - 1][j] \in Nat /\ T[i][j - 1] \in Nat /\ T[i - 1][j - 1] \in Nat
            /\ Threat!Transposes(a, b, i, j) => T[i - 2][j - 2] \in Nat
            /\ \/ T[i][j] = T[i - 1][j] + 1 \/ T[i][j] = T[i][j - 1] + 1
               \/ T[i][j] = T[i - 1][j - 1] + 1
               \/ a[i] = b[j] /\ T[i][j] = T[i - 1][j - 1]
               \/ Threat!Transposes(a, b, i, j) /\ T[i][j] = T[i - 2][j - 2] + 1
        BY <3>1, CellBounds
      <4>2. \A x \in Nat : x + 1 # 0
        OBVIOUS
      <4>3. QED
        BY <2>5, <4>1, <4>2, Zenon
    <3>3. Along(a, b, 0, 0, i - 1, j - 1)
      <4>1. i - 1 \notin S
        <5> HIDE DEF S
        <5>1. QED
          BY <2>3, <3>1
      <4>2. QED
        BY <3>1, <3>2, <4>1
    <3>4. Along(a, b, 0, 0, i, j)
      BY <3>1, <3>2, <3>3, AlongGoesOn
    <3>5. QED
      BY <2>4, <3>4
  <2>9. QED
    BY <2>6, <2>7, <2>8
<1>3. QED
  BY <1>1, <1>2

-----------------------------------------------------------------------------
(* Sequences with a letter put in or taken out, and pieces of them. *)
WithLetter(x, i, c, z) ==
  /\ Len(z) = Len(x) + 1
  /\ \A j \in 1 .. Len(x) + 1 : z[j] = IF j < i THEN x[j] ELSE IF j = i THEN c ELSE x[j - 1]
WithoutLetter(x, i, z) ==
  /\ Len(z) = Len(x) - 1
  /\ \A j \in 1 .. Len(x) - 1 : z[j] = IF j < i THEN x[j] ELSE x[j + 1]

LEMMA Inserted ==
  ASSUME NEW S, NEW x \in Seq(S), NEW i \in 1 .. Len(x) + 1, NEW c \in S
  PROVE  Threat!InsertAt(x, i, c) \in Seq(S) /\ WithLetter(x, i, c, Threat!InsertAt(x, i, c))
<1> DEFINE u == SubSeq(x, 1, i - 1)
           w == SubSeq(x, i, Len(x))
           v == u \o <<c>>
<1>1. u \in Seq(S) /\ Len(u) = i - 1 /\ \A j \in 1 .. i - 1 : u[j] = x[j]
  OBVIOUS
<1>2. w \in Seq(S) /\ Len(w) = (Len(x) - i) + 1 /\ \A j \in 1 .. (Len(x) - i) + 1 : w[j] = x[(i + j) - 1]
  OBVIOUS
<1> HIDE DEF u, w
<1>3. v \in Seq(S) /\ Len(v) = i /\ \A j \in 1 .. i : v[j] = IF j < i THEN x[j] ELSE c
  <2>1. /\ v \in Seq(S) /\ Len(v) = Len(u) + 1
        /\ \A j \in 1 .. Len(u) : v[j] = u[j] /\ v[Len(u) + 1] = c
    BY <1>1
  <2>2. v[i] = c
    BY <1>1
  <2>3. QED
    BY <1>1, <2>1, <2>2
<1> HIDE DEF v
<1>4. /\ v \o w \in Seq(S) /\ Len(v \o w) = Len(v) + Len(w)
      /\ \A j \in 1 .. Len(v) + Len(w) : (v \o w)[j] = IF j <= Len(v) THEN v[j] ELSE w[j - Len(v)]
  BY <1>2, <1>3, ConcatProperties
<1>5. Len(v) + Len(w) = Len(x) + 1 /\ Len(v) = i
  BY <1>2, <1>3
<1>6. ASSUME NEW j \in 1 .. Len(x) + 1
      PROVE  (v \o w)[j] = IF j < i THEN x[j] ELSE IF j = i THEN c ELSE x[j - 1]
  <2>1. (v \o w)[j] = IF j <= i THEN v[j] ELSE w[j - i]
    BY <1>4, <1>5
  <2>2. CASE j <= i
    BY <1>3, <2>1, <2>2
  <2>3. CASE j > i
    <3>1. j - i \in 1 .. (Len(x) - i) + 1 /\ (i + (j - i)) - 1 = j - 1
      BY <2>3
    <3>2. w[j - i] = x[j - 1]
      BY <1>2, <3>1
    <3>3. QED
      BY <2>1, <2>3, <3>2
  <2>4. j <= i \/ j > i
    OBVIOUS
  <2>5. QED
    BY <2>2, <2>3, <2>4, Zenon
<1>7. Threat!InsertAt(x, i, c) = v \o w
  BY DEF Threat!InsertAt, v, u, w
<1>8. QED
  BY <1>4, <1>5, <1>6, <1>7 DEF WithLetter

LEMMA LetterRemoved ==
  ASSUME NEW S, NEW x \in Seq(S), NEW i \in 1 .. Len(x)
  PROVE  Threat!RemoveAt(x, i) \in Seq(S) /\ WithoutLetter(x, i, Threat!RemoveAt(x, i))
<1>1. Threat!RemoveAt(x, i) = Cache!RemoveAt(x, i)
  BY DEF Threat!RemoveAt, Cache!RemoveAt
<1>2. QED
  BY <1>1, Removed DEF WithoutLetter

LEMMA Piece ==
  ASSUME NEW S, NEW x \in Seq(S), NEW j \in 0 .. Len(x), NEW i \in 0 .. j
  PROVE  /\ SubSeq(x, i + 1, j) \in Seq(S) /\ Len(SubSeq(x, i + 1, j)) = j - i
         /\ \A h \in 1 .. j - i : SubSeq(x, i + 1, j)[h] = x[i + h]
OBVIOUS

(* Two sequences with the same elements. *)
LEMMA SameElements ==
  ASSUME NEW S, NEW x \in Seq(S), NEW y \in Seq(S), Len(x) = Len(y),
         \A i \in 1 .. Len(x) : x[i] = y[i]
  PROVE  x = y
OBVIOUS

(* From (i, j) to (k, l) by one edit at most. *)
Step(a, b, i, j, k, l) ==
  \/ Along(a, b, i, j, k, l)
  \/ \E p, g \in i .. k, q, h \in j .. l :
       Along(a, b, i, j, p, q) /\ Edit(a, b, p, q, g, h) /\ Along(a, b, g, h, k, l)

(* Near is a step through both labels: each way of editing x, *)
LEMMA NearIsStep ==
  ASSUME NEW x \in Seq(Letters), NEW y \in Seq(Letters), y \in Threat!Near(x)
  PROVE  Step(y, x, 0, 0, Len(y), Len(x))
<1> DEFINE n == Len(x)
           m == Len(y)
<1>0. n \in Nat /\ m \in Nat
  OBVIOUS
<1>1. CASE y = x
  BY <1>0, <1>1 DEF Step, Along
<1>2. ASSUME NEW i \in 1 .. n + 1, NEW c \in Letters, y = Threat!InsertAt(x, i, c)
      PROVE  Step(y, x, 0, 0, m, n)
  <2>1. m = n + 1 /\ \A j \in 1 .. n + 1 : y[j] = IF j < i THEN x[j] ELSE IF j = i THEN c ELSE x[j - 1]
    <3>1. WithLetter(x, i, c, y)
      BY <1>2, Inserted
    <3>2. QED
      BY <3>1 DEF WithLetter
  <2> HIDE DEF n, m
  <2>2. Along(y, x, 0, 0, i - 1, i - 1)
    BY <1>0, <2>1 DEF Along
  <2>3. Edit(y, x, i - 1, i - 1, i, i - 1)
    BY <1>0 DEF Edit
  <2>4. Along(y, x, i, i - 1, m, n)
    <3>1. \A h \in 1 .. m - i : i + h \in 1 .. n + 1 /\ i + h > i /\ (i + h) - 1 = (i - 1) + h
      BY <1>0, <2>1
    <3>2. \A h \in 1 .. m - i : y[i + h] = x[(i - 1) + h]
      BY <1>0, <2>1, <3>1
    <3>3. i <= m /\ m - i = n - (i - 1)
      BY <1>0, <2>1
    <3>4. QED
      BY <3>2, <3>3 DEF Along
  <2>5. i - 1 \in 0 .. m /\ i \in 0 .. m /\ i - 1 \in 0 .. n
    BY <1>0, <2>1
  <2>6. QED
    BY <2>2, <2>3, <2>4, <2>5 DEF Step
<1>3. ASSUME NEW i \in DOMAIN x, y = Threat!RemoveAt(x, i)
      PROVE  Step(y, x, 0, 0, m, n)
  <2>0. i \in 1 .. n
    OBVIOUS
  <2>1. m = n - 1 /\ \A j \in 1 .. n - 1 : y[j] = IF j < i THEN x[j] ELSE x[j + 1]
    <3>1. WithoutLetter(x, i, y)
      BY <1>3, <2>0, LetterRemoved
    <3>2. QED
      BY <3>1 DEF WithoutLetter
  <2> HIDE DEF n, m
  <2>2. Along(y, x, 0, 0, i - 1, i - 1)
    BY <1>0, <2>0, <2>1 DEF Along
  <2>3. Edit(y, x, i - 1, i - 1, i - 1, i)
    BY <1>0, <2>0 DEF Edit
  <2>4. Along(y, x, i - 1, i, m, n)
    <3>1. m = n - 1 /\ i \in Nat
      BY <1>0, <2>0, <2>1
    <3>2. ASSUME NEW h \in 1 .. m - (i - 1)
          PROVE  y[(i - 1) + h] = x[i + h]
      <4>1. (i - 1) + h \in 1 .. n - 1 /\ ~((i - 1) + h < i) /\ ((i - 1) + h) + 1 = i + h
        BY <1>0, <2>0, <3>1
      <4>2. QED
        BY <2>1, <4>1
    <3>3. i - 1 <= m /\ m - (i - 1) = n - i
      BY <1>0, <2>0, <2>1
    <3>4. QED
      BY <3>2, <3>3 DEF Along
  <2>5. i - 1 \in 0 .. m /\ i \in 0 .. n /\ i - 1 \in 0 .. n
    BY <1>0, <2>0, <2>1
  <2>6. QED
    BY <2>2, <2>3, <2>4, <2>5 DEF Step
<1>4. ASSUME NEW i \in DOMAIN x, NEW c \in Letters, y = Threat!ReplaceAt(x, i, c)
      PROVE  Step(y, x, 0, 0, m, n)
  <2>0. i \in 1 .. n
    OBVIOUS
  <2>1. m = n /\ \A j \in 1 .. n : j # i => y[j] = x[j]
    BY <1>4 DEF Threat!ReplaceAt
  <2> HIDE DEF n, m
  <2>2. Along(y, x, 0, 0, i - 1, i - 1)
    BY <1>0, <2>0, <2>1 DEF Along
  <2>3. Edit(y, x, i - 1, i - 1, i, i)
    BY <1>0, <2>0 DEF Edit
  <2>4. Along(y, x, i, i, m, n)
    BY <1>0, <2>0, <2>1 DEF Along
  <2>5. i - 1 \in 0 .. m /\ i \in 0 .. n /\ i - 1 \in 0 .. n /\ i \in 0 .. m
    BY <1>0, <2>0, <2>1
  <2>6. QED
    BY <2>2, <2>3, <2>4, <2>5 DEF Step
<1>5. ASSUME NEW i \in 1 .. n - 1, y = [x EXCEPT ![i] = x[i + 1], ![i + 1] = x[i]]
      PROVE  Step(y, x, 0, 0, m, n)
  <2>1. m = n /\ y[i] = x[i + 1] /\ y[i + 1] = x[i] /\ \A j \in 1 .. n : j # i /\ j # i + 1 => y[j] = x[j]
    BY <1>5
  <2> HIDE DEF n, m
  <2>2. Along(y, x, 0, 0, i - 1, i - 1)
    BY <1>0, <2>1 DEF Along
  <2>3. Edit(y, x, i - 1, i - 1, i + 1, i + 1)
    <3>1. (i - 1) + 1 = i /\ (i - 1) + 2 = i + 1
      OBVIOUS
    <3>2. QED
      BY <2>1, <3>1 DEF Edit
  <2>4. Along(y, x, i + 1, i + 1, m, n)
    <3>1. ASSUME NEW h \in 1 .. m - (i + 1)
          PROVE  y[(i + 1) + h] = x[(i + 1) + h]
      <4>1. (i + 1) + h \in 1 .. n /\ (i + 1) + h # i /\ (i + 1) + h # i + 1
        BY <1>0, <2>1
      <4>2. QED
        BY <2>1, <4>1
    <3>2. i + 1 <= m /\ m - (i + 1) = n - (i + 1)
      BY <1>0, <2>1
    <3>3. QED
      BY <3>1, <3>2 DEF Along
  <2>5. i - 1 \in 0 .. m /\ i + 1 \in 0 .. n /\ i - 1 \in 0 .. n /\ i + 1 \in 0 .. m
    BY <1>0, <2>1
  <2>6. QED
    BY <2>2, <2>3, <2>4, <2>5 DEF Step
<1>6. QED
  BY <1>1, <1>2, <1>3, <1>4, <1>5 DEF Threat!Near, Threat!OneEdit

(* and every step through both is one of them. *)
LEMMA FromStart ==
  ASSUME NEW y, NEW x, NEW p \in Nat, NEW q \in Nat, Along(y, x, 0, 0, p, q)
  PROVE  p = q /\ \A h \in 1 .. p : y[h] = x[h]
<1>1. p - 0 = q - 0 /\ \A h \in 1 .. p - 0 : y[0 + h] = x[0 + h]
  BY DEF Along
<1>2. p - 0 = p /\ q - 0 = q /\ \A h \in 1 .. p : 0 + h = h
  OBVIOUS
<1>3. QED
  BY <1>1, <1>2

(* To the end, from one position, or from one behind it. *)
LEMMA ToEnd ==
  ASSUME NEW y, NEW x, NEW g \in Nat, NEW h \in Nat, NEW m \in Nat, NEW n \in Nat,
         Along(y, x, g, h, m, n)
  PROVE  m - g = n - h /\ \A j \in g + 1 .. m : y[j] = x[(j - g) + h]
<1>1. m - g = n - h /\ \A k \in 1 .. m - g : y[g + k] = x[h + k]
  BY DEF Along
<1>2. ASSUME NEW j \in g + 1 .. m PROVE y[j] = x[(j - g) + h]
  <2>1. j - g \in 1 .. m - g /\ g + (j - g) = j /\ h + (j - g) = (j - g) + h
    OBVIOUS
  <2>2. QED
    BY <1>1, <2>1
<1>3. QED
  BY <1>1, <1>2

LEMMA StepIsNear ==
  ASSUME NEW x \in Seq(Letters), NEW y \in Seq(Letters), Step(y, x, 0, 0, Len(y), Len(x))
  PROVE  y \in Threat!Near(x)
<1> DEFINE n == Len(x)
           m == Len(y)
<1>0. /\ n \in Nat /\ m \in Nat /\ DOMAIN x = 1 .. n
      /\ \A j \in 1 .. m : y[j] \in Letters
      /\ \A j \in 1 .. n : x[j] \in Letters
  OBVIOUS
<1>1. CASE Along(y, x, 0, 0, m, n)
  <2>1. m = n /\ \A h \in 1 .. m : y[h] = x[h]
    BY <1>0, <1>1, FromStart
  <2>2. y = x
    BY <2>1, SameElements
  <2>3. QED
    BY <2>2 DEF Threat!Near
<1>2. CASE \E p, g \in 0 .. m, q, h \in 0 .. n :
             Along(y, x, 0, 0, p, q) /\ Edit(y, x, p, q, g, h) /\ Along(y, x, g, h, m, n)
  <2>1. PICK p \in 0 .. m, g \in 0 .. m, q \in 0 .. n, h \in 0 .. n :
               Along(y, x, 0, 0, p, q) /\ Edit(y, x, p, q, g, h) /\ Along(y, x, g, h, m, n)
    BY <1>2
  <2> HIDE DEF m, n
  <2>2. p \in Nat /\ q \in Nat /\ g \in Nat /\ h \in Nat
    BY <1>0
  <2>3. p = q /\ \A j \in 1 .. p : y[j] = x[j]
    BY <2>1, <2>2, FromStart
  <2>4. m - g = n - h /\ \A j \in g + 1 .. m : y[j] = x[(j - g) + h]
    BY <1>0, <2>1, <2>2, ToEnd
  <2>5. CASE g = p + 1 /\ h = q
    <3>1. m = n + 1 /\ p + 1 \in 1 .. n + 1 /\ p + 1 \in 1 .. m
      BY <1>0, <2>1, <2>2, <2>3, <2>4, <2>5
    <3>2. ASSUME NEW j \in 1 .. n + 1
          PROVE  y[j] = IF j < p + 1 THEN x[j] ELSE IF j = p + 1 THEN y[p + 1] ELSE x[j - 1]
      <4>1. CASE j < p + 1
        <5>1. j \in 1 .. p
          BY <2>2, <4>1, <1>0
        <5>2. QED
          BY <2>3, <4>1, <5>1
      <4>2. CASE j = p + 1
        BY <4>2, <2>2
      <4>3. CASE j > p + 1
        <5>1. j \in g + 1 .. m /\ (j - g) + h = j - 1
          BY <1>0, <2>2, <2>3, <2>5, <3>1, <4>3
        <5>2. y[j] = x[j - 1]
          BY <2>4, <5>1
        <5>3. ~(j < p + 1) /\ j # p + 1
          BY <1>0, <2>2, <4>3
        <5>4. QED
          BY <5>2, <5>3
      <4>4. j < p + 1 \/ j = p + 1 \/ j > p + 1
        BY <1>0, <2>2
      <4>5. QED
        BY <4>1, <4>2, <4>3, <4>4, Zenon
    <3> DEFINE z == Threat!InsertAt(x, p + 1, y[p + 1])
    <3>3. y[p + 1] \in Letters
      BY <1>0, <3>1
    <3>4. z \in Seq(Letters) /\ WithLetter(x, p + 1, y[p + 1], z)
      BY <3>1, <3>3, Inserted DEF n
    <3> HIDE DEF z
    <3>5. Len(z) = n + 1 /\ \A j \in 1 .. n + 1 : z[j] = IF j < p + 1 THEN x[j] ELSE IF j = p + 1 THEN y[p + 1] ELSE x[j - 1]
      BY <3>4 DEF WithLetter, n
    <3>6. Len(y) = Len(z) /\ \A j \in 1 .. Len(y) : y[j] = z[j]
      BY <3>1, <3>2, <3>5 DEF m
    <3>7. y = z
      BY <3>4, <3>6, SameElements
    <3>8. QED
      BY <3>1, <3>3, <3>7 DEF Threat!Near, Threat!OneEdit, z, n
  <2>6. CASE g = p /\ h = q + 1
    <3>1. m = n - 1 /\ p + 1 \in 1 .. n
      BY <1>0, <2>1, <2>2, <2>3, <2>4, <2>6
    <3>2. ASSUME NEW j \in 1 .. n - 1
          PROVE  y[j] = IF j < p + 1 THEN x[j] ELSE x[j + 1]
      <4>1. CASE j < p + 1
        <5>1. j \in 1 .. p
          BY <2>2, <4>1, <1>0
        <5>2. QED
          BY <2>3, <4>1, <5>1
      <4>2. CASE ~(j < p + 1)
        <5>1. j \in g + 1 .. m /\ (j - g) + h = j + 1
          BY <1>0, <2>2, <2>3, <2>6, <3>1, <4>2
        <5>2. QED
          BY <2>4, <4>2, <5>1
      <4>3. QED
        BY <4>1, <4>2
    <3> DEFINE z == Threat!RemoveAt(x, p + 1)
    <3>4. z \in Seq(Letters) /\ WithoutLetter(x, p + 1, z)
      BY <3>1, LetterRemoved DEF n
    <3> HIDE DEF z
    <3>5. Len(z) = n - 1 /\ \A j \in 1 .. n - 1 : z[j] = IF j < p + 1 THEN x[j] ELSE x[j + 1]
      BY <3>4 DEF WithoutLetter, n
    <3>6. Len(y) = Len(z) /\ \A j \in 1 .. Len(y) : y[j] = z[j]
      BY <3>1, <3>2, <3>5 DEF m
    <3>7. y = z
      BY <3>4, <3>6, SameElements
    <3>8. p + 1 \in DOMAIN x
      BY <1>0, <3>1
    <3>9. QED
      BY <3>7, <3>8 DEF Threat!Near, Threat!OneEdit, z
  <2>7. CASE g = p + 1 /\ h = q + 1
    <3>1. m = n /\ p + 1 \in 1 .. n
      BY <1>0, <2>1, <2>2, <2>3, <2>4, <2>7
    <3>2. ASSUME NEW j \in 1 .. n, j # p + 1
          PROVE  y[j] = x[j]
      <4>1. CASE j < p + 1
        <5>1. j \in 1 .. p
          BY <2>2, <4>1, <1>0
        <5>2. QED
          BY <2>3, <5>1
      <4>2. CASE ~(j < p + 1)
        <5>1. j \in g + 1 .. m /\ (j - g) + h = j
          BY <1>0, <2>2, <2>3, <2>7, <3>1, <3>2, <4>2
        <5>2. QED
          BY <2>4, <5>1
      <4>3. QED
        BY <4>1, <4>2
    <3> DEFINE z == Threat!ReplaceAt(x, p + 1, y[p + 1])
    <3>3. y[p + 1] \in Letters
      BY <1>0, <3>1
    <3>4. z = [x EXCEPT ![p + 1] = y[p + 1]]
      BY DEF Threat!ReplaceAt
    <3>5. z \in Seq(Letters) /\ Len(z) = n /\ z[p + 1] = y[p + 1] /\ \A j \in 1 .. n : j # p + 1 => z[j] = x[j]
      <4> DEFINE k == p + 1
                 c == y[p + 1]
      <4>1. k \in DOMAIN x /\ c \in Letters
        BY <1>0, <3>1, <3>3
      <4> HIDE DEF k, c
      <4>2. /\ [x EXCEPT ![k] = c] \in Seq(Letters) /\ Len([x EXCEPT ![k] = c]) = Len(x)
            /\ [x EXCEPT ![k] = c][k] = c
            /\ \A j \in 1 .. Len(x) : j # k => [x EXCEPT ![k] = c][j] = x[j]
        BY <1>0, <4>1
      <4>3. z = [x EXCEPT ![k] = c]
        BY <3>4 DEF k, c
      <4> HIDE DEF z
      <4>4. QED
        BY <4>2, <4>3 DEF k, c, n
    <3> HIDE DEF z
    <3>6. Len(y) = Len(z) /\ \A j \in 1 .. Len(y) : y[j] = z[j]
      BY <3>1, <3>2, <3>5 DEF m
    <3>7. y = z
      BY <3>5, <3>6, SameElements
    <3>8. p + 1 \in DOMAIN x
      BY <1>0, <3>1
    <3>9. QED
      BY <3>3, <3>7, <3>8 DEF Threat!Near, Threat!OneEdit, z
  <2>8. CASE g = p + 2 /\ h = q + 2 /\ y[p + 1] = x[q + 2] /\ y[p + 2] = x[q + 1]
    <3> DEFINE i == p + 1
    <3>1. m = n /\ i \in 1 .. n - 1 /\ i \in 1 .. n /\ i + 1 \in 1 .. n /\ i # i + 1 /\ p + 2 = i + 1 /\ q + 2 = i + 1 /\ q + 1 = i
      BY <1>0, <2>1, <2>2, <2>3, <2>4, <2>8
    <3>2. ASSUME NEW j \in 1 .. n, j # i, j # i + 1
          PROVE  y[j] = x[j]
      <4>1. CASE j < p + 1
        <5>1. j \in 1 .. p
          BY <2>2, <4>1, <1>0
        <5>2. QED
          BY <2>3, <5>1
      <4>2. CASE ~(j < p + 1)
        <5>1. j \in g + 1 .. m /\ (j - g) + h = j
          BY <1>0, <2>2, <2>3, <2>8, <3>1, <3>2, <4>2
        <5>2. QED
          BY <2>4, <5>1
      <4>3. QED
        BY <4>1, <4>2
    <3>3. y[i] = x[i + 1] /\ y[i + 1] = x[i]
      BY <2>8, <3>1
    <3> HIDE DEF i
    <3> DEFINE z == [x EXCEPT ![i] = x[i + 1], ![i + 1] = x[i]]
    <3>4. z \in Seq(Letters) /\ Len(z) = n /\ z[i] = x[i + 1] /\ z[i + 1] = x[i] /\ \A j \in 1 .. n : j # i /\ j # i + 1 => z[j] = x[j]
      BY <1>0, <3>1 DEF n
    <3> HIDE DEF z
    <3>5. Len(y) = Len(z) /\ \A j \in 1 .. Len(y) : y[j] = z[j]
      <4>1. ASSUME NEW j \in 1 .. n PROVE y[j] = z[j]
        <5>1. CASE j = i
          BY <3>3, <3>4, <5>1
        <5>2. CASE j = i + 1
          BY <3>3, <3>4, <5>2
        <5>3. CASE j # i /\ j # i + 1
          BY <3>2, <3>4, <5>3
        <5>4. QED
          BY <5>1, <5>2, <5>3
      <4>2. QED
        BY <3>1, <3>4, <4>1 DEF m
    <3>6. y = z
      BY <3>4, <3>5, SameElements
    <3>7. y \in {[x EXCEPT ![k] = x[k + 1], ![k + 1] = x[k]] : k \in 1 .. Len(x) - 1}
      BY <3>1, <3>6 DEF z, n
    <3>8. {[x EXCEPT ![k] = x[k + 1], ![k + 1] = x[k]] : k \in 1 .. Len(x) - 1} \subseteq Threat!OneEdit(x)
      BY DEF Threat!OneEdit
    <3>9. QED
      BY <3>7, <3>8 DEF Threat!Near
  <2>9. QED
    BY <2>1, <2>5, <2>6, <2>7, <2>8 DEF Edit
<1>3. QED
  BY <1>1, <1>2 DEF Step

(* A step through pieces of two labels is a step between their ends in the
   labels themselves. *)
Shifted(y, a, s, m) == \A h \in 1 .. m : y[h] = a[s + h]

LEMMA AlongShifted ==
  ASSUME NEW y, NEW x, NEW a, NEW b, NEW s \in Nat, NEW t \in Nat, NEW m \in Nat, NEW n \in Nat,
         Shifted(y, a, s, m), Shifted(x, b, t, n),
         NEW p \in 0 .. m, NEW q \in 0 .. n, NEW g \in 0 .. m, NEW h \in 0 .. n
  PROVE  Along(y, x, p, q, g, h) <=> Along(a, b, s + p, t + q, s + g, t + h)
<1>1. (p <= g <=> s + p <= s + g) /\ (s + g) - (s + p) = g - p /\ (t + h) - (t + q) = h - q
  OBVIOUS
<1>2. ASSUME NEW k \in 1 .. g - p, g - p = h - q
      PROVE  y[p + k] = a[(s + p) + k] /\ x[q + k] = b[(t + q) + k]
  <2>1. p + k \in 1 .. m /\ q + k \in 1 .. n /\ s + (p + k) = (s + p) + k /\ t + (q + k) = (t + q) + k
    BY <1>2
  <2>2. QED
    BY <2>1 DEF Shifted
<1>3. QED
  BY <1>1, <1>2 DEF Along

LEMMA EditShifted ==
  ASSUME NEW y, NEW x, NEW a, NEW b, NEW s \in Nat, NEW t \in Nat, NEW m \in Nat, NEW n \in Nat,
         Shifted(y, a, s, m), Shifted(x, b, t, n),
         NEW p \in 0 .. m, NEW q \in 0 .. n, NEW g \in 0 .. m, NEW h \in 0 .. n
  PROVE  Edit(y, x, p, q, g, h) <=> Edit(a, b, s + p, t + q, s + g, t + h)
<1>1. /\ g = p + 1 <=> s + g = (s + p) + 1
      /\ h = q + 1 <=> t + h = (t + q) + 1
      /\ g = p <=> s + g = s + p
      /\ h = q <=> t + h = t + q
      /\ g = p + 2 <=> s + g = (s + p) + 2
      /\ h = q + 2 <=> t + h = (t + q) + 2
  OBVIOUS
<1>2. ASSUME g = p + 2, h = q + 2
      PROVE  /\ y[p + 1] = a[(s + p) + 1] /\ y[p + 2] = a[(s + p) + 2]
             /\ x[q + 1] = b[(t + q) + 1] /\ x[q + 2] = b[(t + q) + 2]
  <2>1. /\ p + 1 \in 1 .. m /\ p + 2 \in 1 .. m /\ q + 1 \in 1 .. n /\ q + 2 \in 1 .. n
        /\ s + (p + 1) = (s + p) + 1 /\ s + (p + 2) = (s + p) + 2
        /\ t + (q + 1) = (t + q) + 1 /\ t + (q + 2) = (t + q) + 2
    BY <1>2
  <2>2. QED
    BY <2>1 DEF Shifted
<1>3. QED
  BY <1>1, <1>2, Zenon DEF Edit

(* One edit, somewhere between two positions. *)
Edited(a, b, i, j, k, l, p, q, g, h) ==
  Along(a, b, i, j, p, q) /\ Edit(a, b, p, q, g, h) /\ Along(a, b, g, h, k, l)

LEMMA EditedIsStep ==
  ASSUME NEW a, NEW b, NEW i, NEW j, NEW k, NEW l,
         NEW p \in i .. k, NEW g \in i .. k, NEW q \in j .. l, NEW h \in j .. l,
         Edited(a, b, i, j, k, l, p, q, g, h)
  PROVE  Step(a, b, i, j, k, l)
BY DEF Step, Edited

LEMMA StepShifted ==
  ASSUME NEW y, NEW x, NEW a, NEW b, NEW s \in Nat, NEW t \in Nat, NEW m \in Nat, NEW n \in Nat,
         Shifted(y, a, s, m), Shifted(x, b, t, n)
  PROVE  Step(y, x, 0, 0, m, n) <=> Step(a, b, s, t, s + m, t + n)
<1>0. /\ 0 \in 0 .. m /\ m \in 0 .. m /\ 0 \in 0 .. n /\ n \in 0 .. n /\ s + 0 = s /\ t + 0 = t
      /\ \A p \in 0 .. m : s + p \in s .. s + m
      /\ \A q \in 0 .. n : t + q \in t .. t + n
  OBVIOUS
<1>1. Along(y, x, 0, 0, m, n) <=> Along(a, b, s, t, s + m, t + n)
  <2>1. Along(y, x, 0, 0, m, n) <=> Along(a, b, s + 0, t + 0, s + m, t + n)
    BY <1>0, AlongShifted
  <2>2. QED
    BY <1>0, <2>1
<1>2. ASSUME NEW p \in 0 .. m, NEW q \in 0 .. n, NEW g \in 0 .. m, NEW h \in 0 .. n
      PROVE  Edited(y, x, 0, 0, m, n, p, q, g, h)
               <=> Edited(a, b, s, t, s + m, t + n, s + p, t + q, s + g, t + h)
  <2>1. Along(y, x, 0, 0, p, q) <=> Along(a, b, s + 0, t + 0, s + p, t + q)
    BY <1>0, AlongShifted
  <2>2. Edit(y, x, p, q, g, h) <=> Edit(a, b, s + p, t + q, s + g, t + h)
    BY EditShifted
  <2>3. Along(y, x, g, h, m, n) <=> Along(a, b, s + g, t + h, s + m, t + n)
    BY <1>0, AlongShifted
  <2>4. QED
    BY <1>0, <2>1, <2>2, <2>3 DEF Edited
<1>3. ASSUME Step(y, x, 0, 0, m, n), ~Along(y, x, 0, 0, m, n)
      PROVE  Step(a, b, s, t, s + m, t + n)
  <2>1. PICK p \in 0 .. m, g \in 0 .. m, q \in 0 .. n, h \in 0 .. n : Edited(y, x, 0, 0, m, n, p, q, g, h)
    BY <1>3 DEF Step, Edited
  <2>2. Edited(a, b, s, t, s + m, t + n, s + p, t + q, s + g, t + h)
    BY <1>2, <2>1
  <2>3. s + p \in s .. s + m /\ s + g \in s .. s + m /\ t + q \in t .. t + n /\ t + h \in t .. t + n
    BY <1>0
  <2>4. QED
    BY <2>2, <2>3, EditedIsStep
<1>4. ASSUME Step(a, b, s, t, s + m, t + n), ~Along(a, b, s, t, s + m, t + n)
      PROVE  Step(y, x, 0, 0, m, n)
  <2>1. PICK p \in s .. s + m, g \in s .. s + m, q \in t .. t + n, h \in t .. t + n :
               Edited(a, b, s, t, s + m, t + n, p, q, g, h)
    BY <1>4 DEF Step, Edited
  <2>2. /\ p - s \in 0 .. m /\ g - s \in 0 .. m /\ q - t \in 0 .. n /\ h - t \in 0 .. n
        /\ s + (p - s) = p /\ s + (g - s) = g /\ t + (q - t) = q /\ t + (h - t) = h
    OBVIOUS
  <2>3. Edited(y, x, 0, 0, m, n, p - s, q - t, g - s, h - t)
    BY <1>2, <2>1, <2>2
  <2>4. QED
    BY <2>2, <2>3, EditedIsStep
<1>5. QED
  BY <1>1, <1>3, <1>4 DEF Step

LEMMA PieceIsNear ==
  ASSUME NEW a \in Seq(Letters), NEW b \in Seq(Letters),
         NEW k \in 0 .. Len(a), NEW i \in 0 .. k, NEW l \in 0 .. Len(b), NEW j \in 0 .. l
  PROVE  SubSeq(a, i + 1, k) \in Threat!Near(SubSeq(b, j + 1, l)) <=> Step(a, b, i, j, k, l)
<1> DEFINE y == SubSeq(a, i + 1, k)
           x == SubSeq(b, j + 1, l)
<1>1. y \in Seq(Letters) /\ Len(y) = k - i /\ Shifted(y, a, i, k - i)
  BY Piece DEF Shifted
<1>2. x \in Seq(Letters) /\ Len(x) = l - j /\ Shifted(x, b, j, l - j)
  BY Piece DEF Shifted
<1> HIDE DEF y, x
<1>3. y \in Threat!Near(x) <=> Step(y, x, 0, 0, k - i, l - j)
  BY <1>1, <1>2, NearIsStep, StepIsNear
<1>4. k - i \in Nat /\ l - j \in Nat /\ i \in Nat /\ j \in Nat /\ i + (k - i) = k /\ j + (l - j) = l
  OBVIOUS
<1>5. Step(y, x, 0, 0, k - i, l - j) <=> Step(a, b, i, j, i + (k - i), j + (l - j))
  BY <1>1, <1>2, <1>4, StepShifted
<1>6. QED
  BY <1>3, <1>4, <1>5 DEF y, x

(* The positions one step leads to, from the start and from any set of positions
   that is closed under equal letters. *)
Closed(a, b, S) ==
  \A i \in 0 .. Len(a), j \in 0 .. Len(b), k \in 0 .. Len(a), l \in 0 .. Len(b) :
    <<i, j>> \in S /\ Along(a, b, i, j, k, l) => <<k, l>> \in S

LEMMA StartIsClosed ==
  ASSUME NEW a, NEW b, Len(a) \in Nat, Len(b) \in Nat
  PROVE  Closed(a, b, Start(a, b))
<1>1. SUFFICES ASSUME NEW i \in 0 .. Len(a), NEW j \in 0 .. Len(b), NEW k \in 0 .. Len(a), NEW l \in 0 .. Len(b),
                      <<i, j>> \in Start(a, b), Along(a, b, i, j, k, l)
               PROVE  <<k, l>> \in Start(a, b)
  BY DEF Closed
<1>2. Along(a, b, 0, 0, i, j)
  BY <1>1, InSets
<1>3. i \in Nat /\ j \in Nat /\ k \in Nat /\ l \in Nat /\ 0 \in Nat
  OBVIOUS
<1>4. Along(a, b, 0, 0, k, l)
  BY <1>1, <1>2, <1>3, AlongGoesOn
<1>5. QED
  BY <1>4, InSets

LEMMA FurtherIsClosed ==
  ASSUME NEW a, NEW b, Len(a) \in Nat, Len(b) \in Nat, NEW S, Closed(a, b, S)
  PROVE  Closed(a, b, Further(a, b, S))
<1>1. SUFFICES ASSUME NEW i \in 0 .. Len(a), NEW j \in 0 .. Len(b), NEW k \in 0 .. Len(a), NEW l \in 0 .. Len(b),
                      <<i, j>> \in Further(a, b, S), Along(a, b, i, j, k, l)
               PROVE  <<k, l>> \in Further(a, b, S)
  BY DEF Closed
<1>2. <<i, j>> \in S \/ Beyond(a, b, S, i, j)
  BY <1>1, InSets
<1>3. CASE <<i, j>> \in S
  <2>1. <<k, l>> \in S
    BY <1>1, <1>3 DEF Closed
  <2>2. QED
    BY <2>1, InSets
<1>4. CASE Beyond(a, b, S, i, j)
  <2>1. PICK p \in 0 .. Len(a), q \in 0 .. Len(b), g \in 0 .. Len(a), h \in 0 .. Len(b) :
          <<p, q>> \in S /\ Edit(a, b, p, q, g, h) /\ Along(a, b, g, h, i, j)
    BY <1>4 DEF Beyond
  <2>2. g \in Nat /\ h \in Nat /\ i \in Nat /\ j \in Nat /\ k \in Nat /\ l \in Nat
    OBVIOUS
  <2>3. Along(a, b, g, h, k, l)
    BY <1>1, <2>1, <2>2, AlongGoesOn
  <2>4. Beyond(a, b, S, k, l)
    BY <2>1, <2>3 DEF Beyond
  <2>5. QED
    BY <2>4, InSets
<1>5. QED
  BY <1>2, <1>3, <1>4

LEMMA StepIsFurther ==
  ASSUME NEW a, NEW b, Len(a) \in Nat, Len(b) \in Nat, NEW S, Closed(a, b, S),
         NEW i \in 0 .. Len(a), NEW j \in 0 .. Len(b), NEW k \in 0 .. Len(a), NEW l \in 0 .. Len(b),
         <<i, j>> \in S, Step(a, b, i, j, k, l)
  PROVE  <<k, l>> \in Further(a, b, S)
<1>1. CASE Along(a, b, i, j, k, l)
  <2>1. <<k, l>> \in S
    BY <1>1 DEF Closed
  <2>2. QED
    BY <2>1, InSets
<1>2. CASE ~Along(a, b, i, j, k, l)
  <2>1. PICK p \in i .. k, g \in i .. k, q \in j .. l, h \in j .. l : Edited(a, b, i, j, k, l, p, q, g, h)
    BY <1>2 DEF Step, Edited
  <2>2. p \in 0 .. Len(a) /\ g \in 0 .. Len(a) /\ q \in 0 .. Len(b) /\ h \in 0 .. Len(b)
    OBVIOUS
  <2>3. Along(a, b, i, j, p, q) /\ Edit(a, b, p, q, g, h) /\ Along(a, b, g, h, k, l)
    BY <2>1 DEF Edited
  <2>4. <<p, q>> \in S
    BY <2>2, <2>3 DEF Closed
  <2>5. Beyond(a, b, S, k, l)
    BY <2>2, <2>3, <2>4 DEF Beyond
  <2>6. QED
    BY <2>5, InSets
<1>3. QED
  BY <1>1, <1>2

(* Moves only go on. *)
LEMMA MovesGoOn ==
  ASSUME NEW a, NEW b, NEW i \in Nat, NEW j \in Nat, NEW k \in Nat, NEW l \in Nat
  PROVE  (Along(a, b, i, j, k, l) \/ Edit(a, b, i, j, k, l)) => i <= k /\ j <= l
BY DEF Along, Edit

LEMMA BeyondIsStep ==
  ASSUME NEW a, NEW b, Len(a) \in Nat, Len(b) \in Nat, NEW S,
         NEW k \in 0 .. Len(a), NEW l \in 0 .. Len(b), Beyond(a, b, S, k, l)
  PROVE  \E i \in 0 .. Len(a), j \in 0 .. Len(b) : <<i, j>> \in S /\ Step(a, b, i, j, k, l)
<1>1. PICK i \in 0 .. Len(a), j \in 0 .. Len(b), g \in 0 .. Len(a), h \in 0 .. Len(b) :
          <<i, j>> \in S /\ Edit(a, b, i, j, g, h) /\ Along(a, b, g, h, k, l)
  BY DEF Beyond
<1>2. i \in Nat /\ j \in Nat /\ g \in Nat /\ h \in Nat /\ k \in Nat /\ l \in Nat
  OBVIOUS
<1>3. i <= g /\ j <= h /\ g <= k /\ h <= l
  BY <1>1, <1>2, MovesGoOn
<1>4. i \in i .. k /\ g \in i .. k /\ j \in j .. l /\ h \in j .. l
  BY <1>2, <1>3
<1>5. Edited(a, b, i, j, k, l, i, j, g, h)
  BY <1>1, <1>2, AlongGoesOn DEF Edited
<1>6. QED
  BY <1>1, <1>4, <1>5, EditedIsStep

(* Two steps lead to where two edits lead. *)
TwoSteps(a, b, k, l) ==
  \E i \in 0 .. Len(a), j \in 0 .. Len(b) : Step(a, b, 0, 0, i, j) /\ Step(a, b, i, j, k, l)

LEMMA OneStep ==
  ASSUME NEW a, NEW b, Len(a) \in Nat, Len(b) \in Nat, NEW k \in 0 .. Len(a), NEW l \in 0 .. Len(b)
  PROVE  <<k, l>> \in Further(a, b, Start(a, b)) <=> Step(a, b, 0, 0, k, l)
<1>0. 0 \in 0 .. Len(a) /\ 0 \in 0 .. Len(b) /\ Along(a, b, 0, 0, 0, 0) /\ k \in Nat /\ l \in Nat
  <2>1. 0 \in Nat
    OBVIOUS
  <2>2. Along(a, b, 0, 0, 0, 0)
    BY <2>1, AlongGoesOn
  <2>3. QED
    BY <2>2
<1>1. <<0, 0>> \in Start(a, b)
  BY <1>0, InSets
<1>2. ASSUME Step(a, b, 0, 0, k, l) PROVE <<k, l>> \in Further(a, b, Start(a, b))
  BY <1>0, <1>1, <1>2, StartIsClosed, StepIsFurther
<1>3. ASSUME <<k, l>> \in Start(a, b) PROVE Step(a, b, 0, 0, k, l)
  <2>1. Along(a, b, 0, 0, k, l)
    BY <1>3, InSets
  <2>2. QED
    BY <2>1 DEF Step
<1>4. ASSUME Beyond(a, b, Start(a, b), k, l) PROVE Step(a, b, 0, 0, k, l)
  <2>1. PICK i \in 0 .. Len(a), j \in 0 .. Len(b), g \in 0 .. Len(a), h \in 0 .. Len(b) :
          <<i, j>> \in Start(a, b) /\ Edit(a, b, i, j, g, h) /\ Along(a, b, g, h, k, l)
    BY <1>4 DEF Beyond
  <2>2. Along(a, b, 0, 0, i, j)
    BY <2>1, InSets
  <2>3. i \in Nat /\ j \in Nat /\ g \in Nat /\ h \in Nat
    OBVIOUS
  <2>4. i <= g /\ j <= h /\ g <= k /\ h <= l
    BY <1>0, <2>1, <2>3, MovesGoOn
  <2>5. i \in 0 .. k /\ g \in 0 .. k /\ j \in 0 .. l /\ h \in 0 .. l
    BY <1>0, <2>3, <2>4
  <2>6. Edited(a, b, 0, 0, k, l, i, j, g, h)
    BY <2>1, <2>2 DEF Edited
  <2>7. QED
    BY <2>5, <2>6, EditedIsStep
<1>5. QED
  BY <1>2, <1>3, <1>4, InSets

LEMMA TwoEdits ==
  ASSUME NEW a, NEW b, Len(a) \in Nat, Len(b) \in Nat, NEW k \in 0 .. Len(a), NEW l \in 0 .. Len(b)
  PROVE  <<k, l>> \in Further(a, b, Further(a, b, Start(a, b))) <=> TwoSteps(a, b, k, l)
<1> DEFINE S == Further(a, b, Start(a, b))
<1>1. Closed(a, b, S)
  BY StartIsClosed, FurtherIsClosed
<1>2. \A i \in 0 .. Len(a), j \in 0 .. Len(b) : <<i, j>> \in S <=> Step(a, b, 0, 0, i, j)
  BY OneStep
<1> HIDE DEF S
<1>3. ASSUME TwoSteps(a, b, k, l) PROVE <<k, l>> \in Further(a, b, S)
  <2>1. PICK i \in 0 .. Len(a), j \in 0 .. Len(b) : Step(a, b, 0, 0, i, j) /\ Step(a, b, i, j, k, l)
    BY <1>3 DEF TwoSteps
  <2>2. QED
    BY <1>1, <1>2, <2>1, StepIsFurther
<1>4. ASSUME <<k, l>> \in S PROVE TwoSteps(a, b, k, l)
  <2>1. k \in Nat /\ l \in Nat
    OBVIOUS
  <2>2. Step(a, b, k, l, k, l)
    BY <2>1, AlongGoesOn DEF Step
  <2>3. QED
    BY <1>2, <1>4, <2>2 DEF TwoSteps
<1>5. ASSUME Beyond(a, b, S, k, l) PROVE TwoSteps(a, b, k, l)
  <2>1. PICK i \in 0 .. Len(a), j \in 0 .. Len(b) : <<i, j>> \in S /\ Step(a, b, i, j, k, l)
    BY <1>5, BeyondIsStep
  <2>2. QED
    BY <1>2, <2>1 DEF TwoSteps
<1>6. <<k, l>> \in Further(a, b, S) <=> TwoSteps(a, b, k, l)
  BY <1>3, <1>4, <1>5, InSets
<1>7. QED
  BY <1>6 DEF S

(* The reference definition of the model: two edits, none inside the other. *)
LEMMA WithinTwoIsTwoSteps ==
  ASSUME NEW a \in Seq(Letters), NEW b \in Seq(Letters)
  PROVE  Threat!WithinTwo(b, a) <=> TwoSteps(a, b, Len(a), Len(b))
<1>1. Len(a) \in Nat /\ Len(b) \in Nat
  OBVIOUS
<1>2. ASSUME NEW i \in 0 .. Len(a), NEW j \in 0 .. Len(b)
      PROVE  /\ SubSeq(a, 1, i) \in Threat!Near(SubSeq(b, 1, j)) <=> Step(a, b, 0, 0, i, j)
             /\ SubSeq(a, i + 1, Len(a)) \in Threat!Near(SubSeq(b, j + 1, Len(b)))
                  <=> Step(a, b, i, j, Len(a), Len(b))
  <2>1. 0 \in 0 .. i /\ 0 \in 0 .. j /\ 0 + 1 = 1 /\ Len(a) \in 0 .. Len(a) /\ Len(b) \in 0 .. Len(b)
    BY <1>1
  <2>2. SubSeq(a, 0 + 1, i) \in Threat!Near(SubSeq(b, 0 + 1, j)) <=> Step(a, b, 0, 0, i, j)
    BY <2>1, PieceIsNear
  <2>3. SubSeq(a, i + 1, Len(a)) \in Threat!Near(SubSeq(b, j + 1, Len(b)))
          <=> Step(a, b, i, j, Len(a), Len(b))
    BY <2>1, PieceIsNear
  <2>4. QED
    BY <2>1, <2>2, <2>3
<1>3. QED
  BY <1>2 DEF Threat!WithinTwo, TwoSteps

(* The rolling rows decide it: two or less exactly for two edits, and nothing
   exactly for the label itself. *)
LEMMA DistanceCounts ==
  ASSUME NEW a \in Seq(Letters), NEW b \in Seq(Letters)
  PROVE  /\ Threat!Distance(a, b) \in Nat
         /\ Threat!Distance(a, b) <= 2 <=> Threat!WithinTwo(b, a)
         /\ Threat!Distance(a, b) <= 0 <=> a = b
<1> DEFINE m == Len(a)
           n == Len(b)
<1>1. m \in Nat /\ n \in Nat /\ m \in 0 .. m /\ n \in 0 .. n
  OBVIOUS
<1>2. PICK T : Table(a, b, T) /\ Threat!Distance(a, b) = T[m][n]
  BY <1>1, TableFilled
<1>3. T[m][n] \in Nat
  BY <1>1, <1>2, InTable
<1>4. \A e : <<m, n>> \in UpTo(a, b, T, e) <=> T[m][n] <= e
  BY <1>1, InSets
<1>5. ASSUME NEW e \in Nat PROVE UpTo(a, b, T, e + 1) = Further(a, b, UpTo(a, b, T, e))
  <2>1. \A k, l : <<k, l>> \in UpTo(a, b, T, e + 1) <=> <<k, l>> \in Further(a, b, UpTo(a, b, T, e))
    BY <1>1, <1>2, FurtherIsCounted, CountedIsFurther
  <2>2. QED
    BY <2>1 DEF UpTo, Further, Grid
<1>6. UpTo(a, b, T, 0) = Start(a, b)
  <2>1. \A k, l : <<k, l>> \in UpTo(a, b, T, 0) <=> <<k, l>> \in Start(a, b)
    BY <1>1, <1>2, NothingCounted
  <2>2. QED
    BY <2>1 DEF UpTo, Start, Grid
<1>7. UpTo(a, b, T, 2) = Further(a, b, Further(a, b, Start(a, b)))
  <2>1. 0 + 1 = 1 /\ 1 + 1 = 2 /\ 0 \in Nat /\ 1 \in Nat
    OBVIOUS
  <2>2. UpTo(a, b, T, 0 + 1) = Further(a, b, UpTo(a, b, T, 0))
    BY <1>5, <2>1
  <2>3. UpTo(a, b, T, 1 + 1) = Further(a, b, UpTo(a, b, T, 1))
    BY <1>5, <2>1
  <2>4. QED
    BY <1>6, <2>1, <2>2, <2>3
<1>8. T[m][n] <= 2 <=> Threat!WithinTwo(b, a)
  <2>1. <<m, n>> \in UpTo(a, b, T, 2) <=> TwoSteps(a, b, m, n)
    BY <1>1, <1>7, TwoEdits
  <2>2. QED
    BY <1>4, <2>1, WithinTwoIsTwoSteps
<1>9. T[m][n] <= 0 <=> a = b
  <2>1. T[m][n] <= 0 <=> Along(a, b, 0, 0, m, n)
    BY <1>1, <1>4, <1>6, InSets
  <2>2. ASSUME Along(a, b, 0, 0, m, n) PROVE a = b
    BY <1>1, <2>2, FromStart, SameElements
  <2>3. ASSUME a = b PROVE Along(a, b, 0, 0, m, n)
    BY <1>1, <2>3 DEF Along
  <2>4. QED
    BY <2>1, <2>2, <2>3
<1>10. QED
  BY <1>2, <1>3, <1>8, <1>9

-----------------------------------------------------------------------------
(* The detector has a list of labels and a label, and its verdict is the one the
   loop over the list comes to. *)
ThreatInv ==
  /\ brands \in Seq([label : Seq(Letters), tld : STRING])
  /\ query.label \in Seq(Letters)
  /\ method # "new" => (method = "typosquat" <=> Threat!IsTyposquat)

ThreatStepped == Threat!Next \/ UNCHANGED threatVars

LEMMA ThreatStart ==
  ASSUME Threat!Init
  PROVE  ThreatInv
<1>1. brands \in Watchlists /\ query \in Threat!Queries /\ method = "new"
  BY DEF Threat!Init
<1>2. brands \in Seq([label : Seq(Letters), tld : STRING])
  BY <1>1, ThreatAssumption
<1>3. query.label \in Threat!Labels \/ \E c \in Letters : query.label = <<c>>
  BY <1>1 DEF Threat!Queries
<1>4. ASSUME query.label \in Threat!Labels PROVE query.label \in Seq(Letters)
  <2>1. PICK n \in 1 .. MaxLabel : query.label \in [1 .. n -> Letters]
    BY <1>4 DEF Threat!Labels
  <2>2. n \in Nat
    BY ThreatAssumption
  <2>3. QED
    BY <2>1, <2>2
<1>5. ASSUME NEW c \in Letters PROVE <<c>> \in Seq(Letters)
  OBVIOUS
<1>6. QED
  BY <1>1, <1>2, <1>3, <1>4, <1>5 DEF ThreatInv

LEMMA ThreatStep ==
  ASSUME ThreatInv, ThreatStepped
  PROVE  ThreatInv'
<1>1. brands' = brands /\ query' = query
  BY DEF ThreatStepped, threatVars, Threat!Next, Threat!Analyze
<1>2. Threat!IsTyposquat' <=> Threat!IsTyposquat
  BY <1>1 DEF Threat!IsTyposquat, Threat!Hit
<1>3. CASE method' = method
  BY <1>1, <1>2, <1>3 DEF ThreatInv
<1>4. CASE Threat!Analyze
  <2> DEFINE fire  == {i \in DOMAIN Threat!Others : Threat!Fires(Threat!Others[i])}
             first == CHOOSE i \in fire : \A j \in fire : i <= j
  <2>1. method' = IF Threat!IsTyposquat THEN "typosquat"
                  ELSE IF fire = {} THEN "none" ELSE Threat!Others[first]
    BY <1>4 DEF Threat!Analyze
  <2>2. \A i \in DOMAIN Threat!Others : i \in Nat /\ Threat!Others[i] # "typosquat"
    BY DEF Threat!Others
  <2>3. ASSUME fire # {} PROVE first \in DOMAIN Threat!Others
    <3>1. fire \subseteq Nat /\ fire \subseteq DOMAIN Threat!Others
      BY <2>2
    <3> HIDE DEF fire
    <3>2. \E i \in fire : \A j \in fire : i <= j
      BY <2>3, <3>1, LeastNatural
    <3>3. first \in fire
      BY <3>2
    <3>4. QED
      BY <3>1, <3>3
  <2> HIDE DEF fire, first
  <2>4. method' = "typosquat" <=> Threat!IsTyposquat
    BY <2>1, <2>2, <2>3
  <2>5. QED
    BY <1>1, <1>2, <2>4 DEF ThreatInv
<1>5. QED
  BY <1>3, <1>4 DEF ThreatStepped, threatVars, Threat!Next

(* A brand is hit by what reads within two edits of it and is not the brand. *)
LEMMA HitIsLookalike ==
  ASSUME ThreatInv, NEW i \in DOMAIN brands
  PROVE  /\ Threat!Hit(brands[i]) => Threat!WithinTwo(brands[i].label, Threat!Skeleton(query.label))
         /\ (query.label # brands[i].label
               /\ Threat!WithinTwo(brands[i].label, Threat!Skeleton(query.label)))
              => Threat!Hit(brands[i])
<1> DEFINE a == Threat!Skeleton(query.label)
           b == brands[i].label
           d == Threat!Distance(a, b)
<1>1. b \in Seq(Letters)
  <2>1. brands[i] \in [label : Seq(Letters), tld : STRING]
    <3> DEFINE R == [label : Seq(Letters), tld : STRING]
    <3>1. brands \in Seq(R)
      BY DEF ThreatInv
    <3> HIDE DEF R
    <3>2. brands[i] \in R
      BY <3>1
    <3>3. QED
      BY <3>2 DEF R
  <2>2. QED
    BY <2>1
<1>2. a \in Seq(Letters)
  <2>1. query.label \in Seq(Letters)
    BY DEF ThreatInv
  <2>2. /\ Len(query.label) \in Nat /\ DOMAIN query.label = 1 .. Len(query.label)
        /\ \A j \in DOMAIN query.label : query.label[j] \in Letters
    BY <2>1
  <2>3. a \in [1 .. Len(query.label) -> Letters]
    BY <2>2, ThreatAssumption DEF Threat!Skeleton
  <2> HIDE DEF a
  <2>4. QED
    BY <2>2, <2>3
<1> HIDE DEF a
<1>3. d \in Nat /\ (d <= 2 <=> Threat!WithinTwo(b, a)) /\ (d <= 0 <=> a = b)
  BY <1>1, <1>2, DistanceCounts
<1> HIDE DEF d
<1>4. d \in 1 .. MaxDistance <=> a # b /\ Threat!WithinTwo(b, a)
  BY <1>3, ThreatAssumption
<1>5. a = b => Threat!WithinTwo(b, a)
  BY <1>3
<1>6. Threat!Hit(brands[i]) <=>
        /\ ~(query.label = b /\ query.tld = brands[i].tld)
        /\ IF a = b THEN query.label # b ELSE d \in 1 .. MaxDistance
  BY DEF Threat!Hit, a, d
<1>7. /\ Threat!Hit(brands[i]) => Threat!WithinTwo(b, a)
      /\ query.label # b /\ Threat!WithinTwo(b, a) => Threat!Hit(brands[i])
  BY <1>4, <1>5, <1>6
<1>8. QED
  BY <1>7 DEF a

LEMMA ThreatPromise ==
  ASSUME ThreatInv
  PROVE  LookalikesAreFlagged
<1> DEFINE skel == Threat!Skeleton(query.label)
<1>1. SUFFICES ASSUME method # "new"
               PROVE  /\ (~query.infra /\ ~Threat!OnList
                           /\ \E b \in Threat!Labelled : query.label # b /\ Threat!WithinTwo(b, skel))
                           => method = "typosquat"
                      /\ method = "typosquat" =>
                           ~query.infra /\ \E b \in Threat!Labelled : Threat!WithinTwo(b, skel)
                      /\ Len(brands) = 1 /\ Threat!OnList => method # "typosquat"
  BY DEF LookalikesAreFlagged, Threat!LookalikesAreFlagged
<1>2. method = "typosquat" <=> ~query.infra /\ \E i \in DOMAIN brands : Threat!Hit(brands[i])
  BY <1>1 DEF ThreatInv, Threat!IsTyposquat
<1>3. ASSUME ~query.infra, ~Threat!OnList,
             \E b \in Threat!Labelled : query.label # b /\ Threat!WithinTwo(b, skel)
      PROVE  method = "typosquat"
  <2>1. PICK i \in DOMAIN brands : query.label # brands[i].label /\ Threat!WithinTwo(brands[i].label, skel)
    BY <1>3 DEF Threat!Labelled
  <2>2. Threat!Hit(brands[i])
    BY <2>1, HitIsLookalike
  <2>3. QED
    BY <1>2, <1>3, <2>2
<1>4. ASSUME method = "typosquat"
      PROVE  ~query.infra /\ \E b \in Threat!Labelled : Threat!WithinTwo(b, skel)
  <2>1. PICK i \in DOMAIN brands : Threat!Hit(brands[i])
    BY <1>2, <1>4
  <2>2. Threat!WithinTwo(brands[i].label, skel)
    BY <2>1, HitIsLookalike
  <2>3. QED
    BY <1>2, <1>4, <2>2 DEF Threat!Labelled
<1>5. ASSUME Len(brands) = 1, Threat!OnList
      PROVE  method # "typosquat"
  <2>1. brands \in Seq([label : Seq(Letters), tld : STRING])
    BY DEF ThreatInv
  <2>2. DOMAIN brands = {1}
    BY <1>5, <2>1
  <2>3. brands[1].label = query.label /\ brands[1].tld = query.tld
    BY <1>5, <2>2 DEF Threat!OnList
  <2>4. ~Threat!Hit(brands[1])
    BY <2>3 DEF Threat!Hit
  <2>5. QED
    BY <1>2, <2>2, <2>4
<1>6. QED
  BY <1>3, <1>4, <1>5

-----------------------------------------------------------------------------
(* The trackers share the clock and nothing else. *)
TrackersInv ==
  /\ clock \in Nat
  /\ NodInv /\ LanInv /\ FluxInv /\ AlertInv /\ LimitInv /\ CacheInv /\ MetricInv /\ ThreatInv

(* A step of the whole is a step of a part, or leaves it as it was. *)
LEMMA PartSteps ==
  ASSUME [Next]_vars
  PROVE  /\ NodStepped /\ LanStepped /\ FluxStepped /\ AlertStepped
         /\ LimitStepped /\ CacheStepped /\ MetricStepped /\ ThreatStepped
<1> USE DEF NodStepped, LanStepped, FluxStepped, AlertStepped, LimitStepped, CacheStepped,
            MetricStepped, ThreatStepped
<1>1. CASE CacheNext
  BY <1>1 DEF CacheNext
<1>2. CASE LimiterNext
  BY <1>2 DEF LimiterNext
<1>3. CASE FluxNext
  BY <1>3 DEF FluxNext
<1>4. CASE NodNext
  BY <1>4 DEF NodNext
<1>5. CASE AlerterNext
  BY <1>5 DEF AlerterNext
<1>6. CASE MetricsNext
  BY <1>6 DEF MetricsNext
<1>7. CASE LanNext
  BY <1>7 DEF LanNext
<1>8. CASE ThreatNext
  BY <1>8 DEF ThreatNext
<1>9. CASE UNCHANGED vars
  BY <1>9 DEF vars
<1>10. QED
  BY <1>1, <1>2, <1>3, <1>4, <1>5, <1>6, <1>7, <1>8, <1>9 DEF Next

(* Nothing has been seen at the start. *)
LEMMA TrackersStart ==
  ASSUME Init
  PROVE  TrackersInv
<1>1. clock = 0
  BY DEF Init, Nod!Init
<1>2. NodInv
  <2>1. /\ firstSeen = [d \in {} |-> 0] /\ aged = {}
        /\ ever = [d \in NodDomains |-> Nod!NeverSeen]
    BY DEF Init, Nod!Init
  <2>2. DOMAIN firstSeen = {}
    BY <2>1
  <2>3. IsFiniteSet({}) /\ Cardinality({}) = 0
    BY FS_EmptySet
  <2>4. IsFiniteSet(DOMAIN firstSeen) /\ Cardinality(DOMAIN firstSeen) <= MaxFirstSeen
    BY <2>2, <2>3, TrackersAssumption
  <2>5. QED
    BY <2>1, <2>2, <2>4 DEF NodInv
<1>3. LanInv
  <2>1. /\ arp = [ip \in IPs |-> Lan!None] /\ leases = [ip \in IPs |-> Lan!Unseen]
        /\ refresh = "idle" /\ arps = [ip \in IPs |-> Lan!None]
        /\ devices = [ip \in IPs |-> Lan!Unknown]
        /\ seen = [ip \in IPs |-> {}] /\ stale = IPs
    BY DEF Init, Lan!Init
  <2>2. Lan!Unknown.mac = Lan!None /\ Lan!Unknown.host = Lan!None
    BY DEF Lan!Unknown
  <2>3. QED
    BY <2>1, <2>2 DEF LanInv
<1>4. FluxInv
  <2>1. tracked = [d \in {} |-> 0] /\ observed = [d \in FluxDomains |-> <<>>]
    BY DEF Init, Flux!Init
  <2>2. DOMAIN tracked = {}
    BY <2>1
  <2>3. IsFiniteSet({}) /\ Cardinality({}) = 0
    BY FS_EmptySet
  <2>4. IsFiniteSet(DOMAIN tracked) /\ Cardinality(DOMAIN tracked) <= MaxDomains
    BY <2>2, <2>3, TrackersAssumption
  <2>5. <<>> \in Seq(Sighting)
    OBVIOUS
  <2>6. observed = [d \in FluxDomains |-> observed[d]] /\ \A d \in FluxDomains : observed[d] = <<>>
    BY <2>1
  <2>7. \A d \in FluxDomains : observed[d] \in Seq(Sighting)
    BY <2>5, <2>6, Zenon
  <2>8. QED
    BY <2>2, <2>4, <2>6, <2>7 DEF FluxInv
<1>5. AlertInv
  <2>1. /\ call = [b \in Blockers |-> Alerter!Returned] /\ hits = [c \in Devices |-> {}]
        /\ suspected = [c \in Devices |-> Alerter!NoAlert] /\ since = [c \in Devices |-> {}]
        /\ sent = [c \in Devices |-> 0] /\ fired = [c \in Devices |-> 0]
        /\ all = [c \in Devices |-> 0]
    BY DEF Init, Alerter!Init
  <2>2. IsFiniteSet({}) /\ Cardinality({}) = 0
    BY FS_EmptySet
  <2>3. ASSUME NEW c \in Devices PROVE ClientInv(c)
    <3>1. hits[c] = {} /\ since[c] = {} /\ fired[c] = 0 /\ all[c] = 0
      BY <2>1
    <3>2. AlertThreshold \in Nat /\ AlertThreshold > 0
      BY TrackersAssumption
    <3>3. 0 * AlertThreshold + 0 <= 0
      BY <3>2
    <3>4. QED
      BY <2>2, <3>1, <3>2, <3>3 DEF ClientInv
  <2>4. ASSUME NEW c \in Devices PROVE SinkInv(c)
    <3>1. AtSink(c) = {}
      BY <2>1 DEF AtSink, Alerter!Returned
    <3>2. QED
      BY <2>1, <2>2, <3>1 DEF SinkInv
  <2>5. \A b \in Blockers : CallInv(b)
    BY <2>1 DEF CallInv
  <2>6. QED
    BY <2>1, <2>3, <2>4, <2>5 DEF AlertInv
<1>6. LimitInv
  <2>1. /\ clients = [c \in {} |-> 0] /\ reading = [h \in Handlers |-> Limiter!NoCall]
        /\ admitted = [c \in Clients |-> <<>>] /\ late = FALSE /\ refusal = Limiter!NoClient
    BY DEF Init, Limiter!Init
  <2>2. DOMAIN clients = {} /\ clients = [c \in DOMAIN clients |-> clients[c]]
    BY <2>1
  <2>3. <<>> \in Seq(Admission)
    OBVIOUS
  <2>4. admitted \in [Clients -> Seq(Admission)]
    BY <2>1, <2>3
  <2>5. ASSUME NEW c \in Clients PROVE OnTime(c)
    <3>1. admitted[c] = <<>> /\ DOMAIN <<>> = {} /\ c \notin DOMAIN clients
      BY <2>1, <2>2
    <3>2. QED
      BY <3>1 DEF OnTime, WindowsApart, Forgotten
  <2>6. QED
    BY <2>1, <2>2, <2>4, <2>5 DEF LimitInv, RefusedInv
<1>7. CacheInv
  <2>1. ll = <<>> /\ items = {} /\ lastPut = [n \in Names |-> Cache!Nothing]
    BY DEF Init, Cache!Init
  <2>2. ll \in Seq(Item) /\ Len(ll) = 0 /\ DOMAIN ll = {}
    BY <2>1
  <2>3. Len(ll) <= MaxEntries
    BY <2>2, TrackersAssumption
  <2>4. Cache!Keys(ll) = {}
    BY <2>2 DEF Cache!Keys
  <2>5. QED
    BY <2>1, <2>2, <2>3, <2>4 DEF CacheInv, Ordered
<1>8. MetricInv
  <2>1. /\ current = 0 /\ start = [s \in Metrics!Slices |-> 0]
        /\ total = [s \in Metrics!Slices |-> {}] /\ recorded = {} /\ raced = FALSE
        /\ rec = [r \in Recorders |-> Metrics!Resting]
    BY DEF Init, Metrics!Init
  <2>2. 0 \in Metrics!Slices /\ 0 \in 0 .. clock
    BY <1>1, TrackersAssumption DEF Metrics!Slices
  <2>3. rec \in [Recorders -> RecState]
    BY <2>1, <2>2 DEF RecState, Points, Metrics!Resting
  <2>4. MetricTypes
    BY <2>1, <2>2, <2>3, FS_EmptySet DEF MetricTypes
  <2>5. \A r \in Recorders : ~Metrics!Rotating(r) /\ rec[r].at = "rest"
    BY <2>1 DEF Metrics!Rotating, Metrics!Resting
  <2>6. \A s \in Metrics!Slices : SliceInv(s)
    BY <2>1, <2>5 DEF SliceInv, Writing
  <2>7. SlicesInv
    BY <2>1, <2>5, <2>6 DEF SlicesInv
  <2>8. QED
    BY <2>4, <2>7 DEF MetricInv
<1>9. ThreatInv
  BY ThreatStart DEF Init
<1>10. QED
  BY <1>1, <1>2, <1>3, <1>4, <1>5, <1>6, <1>7, <1>8, <1>9 DEF TrackersInv

LEMMA TrackersStep ==
  ASSUME TrackersInv, [Next]_vars
  PROVE  TrackersInv'
BY TimePasses, PartSteps, NodStep, LanStep, FluxStep, AlertStep, LimitStep, CacheStep,
   MetricStep, ThreatStep DEF TrackersInv

(* The parts of the invariant hold together in every reachable state. *)
THEOREM TrackersInvariant == Spec => []TrackersInv
BY TrackersStart, TrackersStep, PTL DEF Spec

(* The inventory, for every network: a device carries the times of its first
   and its last observation, its MAC and its name were observed on its address,
   and an undisturbed refresh gives it a MAC its lease or ARP shows now. *)
THEOREM DevicesKnown == Spec => []DevicesAreKnown
<1>1. TrackersInv => DevicesAreKnown
  BY DEF TrackersInv, LanInv, DevicesAreKnown, Lan!DevicesAreKnown, Lan!Unseen
<1>2. QED
  BY <1>1, TrackersInvariant, PTL

(* The ledger, for every window and limit: a domain it never dropped is new
   exactly in the window after its first sight, and it drops the oldest, only
   when it is full. *)
THEOREM LedgerIsRight == Spec => LedgerTellsNew
<1>1. TrackersInv /\ [Next]_vars =>
        [Nod!NewMatchesFirstSight /\ Nod!DropsOldestFirst]_<<clock, Nod!nodVars>>
  BY PartSteps, NodAction DEF TrackersInv
<1>2. QED
  BY <1>1, TrackersInvariant, PTL DEF Spec, LedgerTellsNew, Nod!LedgerTellsNew

(* The fast-flux tracker, for every window, threshold and limit: each verdict
   fits the domain's history since its insertion, and a domain is
   forgotten only if none that stays was asked for earlier. *)
THEOREM FluxIsRight == Spec => FluxVerdictIsRight
<1>1. TrackersInv /\ [Next]_vars =>
        [Flux!FlagMatchesHistory /\ Flux!ForgetsLeastRecentlySeen]_<<clock, Flux!fluxVars>>
  BY PartSteps, FluxAction DEF TrackersInv
<1>2. QED
  BY <1>1, TrackersInvariant, PTL DEF Spec, FluxVerdictIsRight, Flux!FluxVerdictIsRight

(* The alerter, for every threshold and window and any number of handlers: an
   alert is for as many blocked queries as the threshold within one window, no
   query counts for two, every alert reaches the sink once, and no burst of the
   threshold within a window is left without one. *)
THEOREM AlertsAreRight == Spec => []AlertsMatchHits
<1>1. TrackersInv => AlertsMatchHits
  BY AlertPromise DEF TrackersInv
<1>2. QED
  BY <1>1, TrackersInvariant, PTL

(* The rate limiter, for every rate and any number of clients and handlers: while
   no handler is held up between the clock and the lock, a client is admitted at
   most twice the rate in any second, and refused only after the whole rate. *)
THEOREM LimitHolds == Spec => []LimitIsKept
<1>1. TrackersInv => LimitIsKept
  BY LimitPromise DEF TrackersInv
<1>2. QED
  BY <1>1, TrackersInvariant, PTL

(* The serve-stale cache, for every size and retention: the map and the list
   agree within the bound, a stale answer is the latest one within its retention,
   and what leaves is past it or was unused for longest. *)
THEOREM CacheIsRight == Spec => CacheIsLRU
<1>1. TrackersInv /\ TrackersInv' /\ [Next]_vars =>
        [/\ items' = Cache!Keys(ll') /\ Cache!Cardinality(items') = Len(ll')
         /\ Len(ll') <= MaxEntries
         /\ Cache!ServesLatest /\ Cache!DropsLeastRecent]_<<clock, Cache!cacheVars>>
  <2>1. SUFFICES ASSUME TrackersInv, TrackersInv', [Next]_vars
                 PROVE  /\ items' = Cache!Keys(ll') /\ Cache!Cardinality(items') = Len(ll')
                        /\ Len(ll') <= MaxEntries
                        /\ Cache!ServesLatest /\ Cache!DropsLeastRecent
    OBVIOUS
  <2>2. CacheKept
    BY <2>1, PartSteps, CacheStep DEF TrackersInv
  <2>3. /\ ll' \in Seq(Item) /\ Ordered(ll', recent')
        /\ items' = Cache!Keys(ll') /\ Len(ll') <= MaxEntries
    BY <2>1 DEF TrackersInv, CacheInv, Ordered, Cache!Keys
  <2>4. Cardinality(items') = Len(ll')
    BY <2>3, KeysCounted
  <2>5. Cache!Cardinality(items') = Cardinality(items')
    BY DEF Cardinality, Cache!Cardinality
  <2>6. QED
    BY <2>2, <2>3, <2>4, <2>5 DEF CacheKept
<1>2. QED
  BY <1>1, TrackersInvariant, PTL DEF Spec, CacheIsLRU, Cache!CacheIsLRU

(* The rolling counters, for every number and size of the slices and any number
   of handlers: unless rotations overlapped or a record came late, the window
   counts every record of its length less a slice, none older than the window
   and none twice. *)
THEOREM WindowIsExact == Spec => []WindowIsExactUnlessRaced
<1>1. TrackersInv => WindowIsExactUnlessRaced
  BY MetricPromise DEF TrackersInv
<1>2. QED
  BY <1>1, TrackersInvariant, PTL

(* The search for lookalikes, for every alphabet, every table of confusable
   letters and every list of brands: a name is reported exactly when it reads
   as a brand it is not, or as at most two edits away from one. The rows of
   damerauLevenshtein come to two or less for those labels and no others. *)
THEOREM LookalikesFlagged == Spec => []LookalikesAreFlagged
<1>1. TrackersInv => LookalikesAreFlagged
  BY ThreatPromise DEF TrackersInv
<1>2. QED
  BY <1>1, TrackersInvariant, PTL
=============================================================================
