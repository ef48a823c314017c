-------------------------- MODULE OperationsProofs --------------------------
(***************************************************************************)
(* Safety of the parts that keep a deployment running, for any thresholds, *)
(* intervals and numbers of boxes, requests, events and sinks. The parts   *)
(* share no state: each has an invariant that its own steps preserve and   *)
(* the steps of the others leave alone.                                    *)
(***************************************************************************)
EXTENDS MCOperations, Sequences, FiniteSetTheorems, TLAPS

-----------------------------------------------------------------------------
(* The HA pair.                                                              *)

(* Counter c counts the probes p at the head of history h, up to threshold t. *)
Counts(h, c, p, t) == LastAll(h, c, p) /\ (c < t => h[c + 1] # p)

(* What the manager of a node believes follows from its counters, and they
   count the probes of the history. *)
NodeInv(n) ==
  /\ state[n] = DesiredState(n, peerUp[n])
  /\ peerUp[n] => failures[n] < FailureThreshold
  /\ ~peerUp[n] => successes[n] < RecoveryThreshold /\ recent[n][1] # NoProbe
  /\ Counts(recent[n], failures[n], "failed", FailureThreshold)
  /\ Counts(recent[n], successes[n], "ok", RecoveryThreshold)

PairInv == TypeOK /\ \A n \in Nodes : NodeInv(n)

Histories == [1 .. HistoryLength -> {NoProbe, "ok", "failed"}]

(* The history is long enough for both counters. *)
LEMMA LongEnough ==
  /\ HistoryLength \in Nat \ {0}
  /\ FailureThreshold <= HistoryLength /\ RecoveryThreshold <= HistoryLength
  BY HAAssumption DEF HistoryLength

(* One more probe p: its counter counts it, a counter of others starts again. *)
LEMMA CountsShift ==
  ASSUME NEW h \in Histories, NEW t \in Nat \ {0}, t <= HistoryLength, NEW c \in 0 .. t,
         NEW p \in {"ok", "failed"}, Counts(h, c, p, t), NEW q \in {"ok", "failed"}, q # p
  PROVE  /\ Shifted(h, p) \in Histories /\ Shifted(h, p)[1] = p
         /\ CountUp(c, t) \in 1 .. t
         /\ Counts(Shifted(h, p), CountUp(c, t), p, t)
         /\ Counts(Shifted(h, q), 0, p, t)
<1> DEFINE g == Shifted(h, p)
<1> USE LongEnough
<1>1. \A i \in 1 .. HistoryLength : i # 1 => i - 1 \in 1 .. HistoryLength
  OBVIOUS
<1>2. 1 \in 1 .. HistoryLength
  OBVIOUS
<1>3. g \in Histories /\ g[1] = p /\ Shifted(h, q)[1] = q
  BY <1>1, <1>2 DEF Shifted, Histories
<1>4. \A i \in 1 .. HistoryLength : i # 1 => g[i] = h[i - 1]
  BY DEF Shifted
<1>5. CountUp(c, t) \in 1 .. t /\ (c < t => CountUp(c, t) = c + 1) /\ (c >= t => CountUp(c, t) = t /\ c = t)
  BY DEF CountUp
<1> HIDE DEF g
<1>6. ASSUME NEW i \in 1 .. CountUp(c, t) PROVE g[i] = p
  <2>1. i \in 1 .. HistoryLength /\ (i # 1 => i - 1 \in 1 .. c)
    BY <1>5
  <2>2. QED
    BY <1>3, <1>4, <2>1 DEF Counts, LastAll
<1>7. ASSUME CountUp(c, t) < t PROVE g[CountUp(c, t) + 1] # p
  <2>1. CountUp(c, t) = c + 1 /\ c < t /\ c + 2 \in 1 .. HistoryLength /\ c + 2 # 1 /\ (c + 2) - 1 = c + 1
    BY <1>5, <1>7
  <2>2. g[c + 2] = h[c + 1]
    BY <1>4, <2>1
  <2>3. QED
    BY <2>1, <2>2 DEF Counts
<1>8. Counts(Shifted(h, q), 0, p, t)
  BY <1>3 DEF Counts, LastAll
<1>9. QED
  BY <1>3, <1>5, <1>6, <1>7, <1>8 DEF g, Counts, LastAll

(* A counter of all the last t probes stands at its threshold. *)
LEMMA FullRun ==
  ASSUME NEW h \in Histories, NEW t \in Nat \ {0}, t <= HistoryLength, NEW c \in 0 .. t, NEW p,
         Counts(h, c, p, t)
  PROVE  LastAll(h, t, p) <=> c = t
<1>1. ASSUME LastAll(h, t, p), c < t PROVE FALSE
  <2>1. c + 1 \in 1 .. t
    BY <1>1
  <2>2. QED
    BY <1>1, <2>1 DEF LastAll, Counts
<1>2. QED
  BY <1>1 DEF Counts

(* Every step of a node or of its surroundings preserves it. *)
LEMMA PairStep == PairInv /\ [Next]_vars => PairInv'
<1> SUFFICES ASSUME PairInv, [Next]_vars PROVE PairInv'
  OBVIOUS
<1> USE HAAssumption, LongEnough DEF PairInv
<1>1. ASSUME UNCHANGED <<peerUp, failures, successes, state, recent>>, TypeOK' PROVE PairInv'
  BY <1>1 DEF NodeInv, Counts, LastAll
<1>2. ASSUME NEW n \in Nodes, HealthCheck(n) \/ Crash(n) PROVE PairInv'
  <2>1. TypeOK' /\ UNCHANGED <<peerUp, failures, successes, state, recent>>
    BY <1>2 DEF HealthCheck, Crash, mgrVars, TypeOK, NoProbe
  <2>2. QED
    BY <1>1, <2>1
<1>3. ASSUME NEW n \in Nodes, Tick(n) PROVE PairInv'
  <2>0. /\ probe[n] \in {"ok", "failed"} /\ recent[n] \in Histories
        /\ failures[n] \in 0 .. FailureThreshold /\ successes[n] \in 0 .. RecoveryThreshold
    BY <1>3 DEF Tick, TypeOK, Histories, NoProbe
  <2> DEFINE h == Shifted(recent[n], probe[n])
             f == IF probe[n] = "ok" THEN 0 ELSE CountUp(failures[n], FailureThreshold)
             s == IF probe[n] = "ok" THEN CountUp(successes[n], RecoveryThreshold) ELSE 0
             u == IF probe[n] = "ok" THEN peerUp[n] \/ s >= RecoveryThreshold
                                     ELSE peerUp[n] /\ f < FailureThreshold
  <2>1. /\ Counts(h, f, "failed", FailureThreshold) /\ Counts(h, s, "ok", RecoveryThreshold)
        /\ h \in Histories /\ h[1] = probe[n]
        /\ f \in 0 .. FailureThreshold /\ s \in 0 .. RecoveryThreshold
    <3>1. CASE probe[n] = "ok"
      BY <2>0, <3>1, CountsShift DEF NodeInv
    <3>2. CASE probe[n] = "failed"
      BY <2>0, <3>2, CountsShift DEF NodeInv
    <3>3. QED
      BY <2>0, <3>1, <3>2
  <2>2. u \in BOOLEAN /\ (u => f < FailureThreshold) /\ (~u => s < RecoveryThreshold)
    <3>1. peerUp[n] \in BOOLEAN
      BY DEF TypeOK
    <3>2. CASE probe[n] = "ok"
      BY <2>1, <3>1, <3>2
    <3>3. CASE probe[n] # "ok"
      BY <2>1, <3>1, <3>3
    <3>4. QED
      BY <3>2, <3>3
  <2>3. /\ successes' = [successes EXCEPT ![n] = s] /\ failures' = [failures EXCEPT ![n] = f]
        /\ recent' = [recent EXCEPT ![n] = h] /\ probe' = [probe EXCEPT ![n] = NoProbe]
        /\ UNCHANGED <<up, linkUp>>
    BY <1>3 DEF Tick, Succeeded
  <2>4. successes'[n] = s /\ failures'[n] = f /\ recent'[n] = h
    BY <2>3 DEF TypeOK
  <2>5. peerUp' = [peerUp EXCEPT ![n] = u]
    BY <1>3, <2>4 DEF Tick
  <2>6. peerUp'[n] = u
    BY <2>5 DEF TypeOK
  <2>7. state' = [state EXCEPT ![n] = DesiredState(n, u)]
    BY <1>3, <2>6 DEF Tick
  <2> HIDE DEF h, f, s, u
  <2>8. DesiredState(n, u) \in {"active", "standby"}
    BY DEF DesiredState
  <2>9. TypeOK'
    BY <2>1, <2>2, <2>3, <2>5, <2>7, <2>8 DEF TypeOK, NoProbe, Histories
  <2>10. state'[n] = DesiredState(n, peerUp'[n])
    BY <2>6, <2>7 DEF TypeOK
  <2>11. h[1] # NoProbe
    BY <2>0, <2>1 DEF NoProbe
  <2>12. NodeInv(n)'
    BY <2>1, <2>2, <2>4, <2>6, <2>10, <2>11 DEF NodeInv, Counts, LastAll, DesiredState
  <2>13. ASSUME NEW m \in Nodes, m # n PROVE NodeInv(m)'
    <3>1. /\ peerUp'[m] = peerUp[m] /\ state'[m] = state[m] /\ failures'[m] = failures[m]
          /\ successes'[m] = successes[m] /\ recent'[m] = recent[m]
      BY <2>3, <2>5, <2>7, <2>13 DEF TypeOK
    <3>2. QED
      BY <3>1 DEF NodeInv, Counts, LastAll, DesiredState
  <2>14. QED
    BY <2>9, <2>12, <2>13
<1>4. ASSUME NEW n \in Nodes, Restart(n) PROVE PairInv'
  <2>1. TypeOK'
    BY <1>4 DEF Restart, TypeOK, NoProbe, NewPeerUp, DesiredState, NoHistory
  <2>2. ASSUME NEW m \in Nodes PROVE NodeInv(m)'
    <3>1. CASE m = n
      <4>1. /\ peerUp'[n] = TRUE /\ failures'[n] = 0 /\ successes'[n] = 0
            /\ recent'[n] = NoHistory /\ state'[n] = DesiredState(n, TRUE)
        BY <1>4 DEF Restart, TypeOK, NewPeerUp
      <4>2. NoHistory[1] = NoProbe
        BY DEF NoHistory
      <4>3. QED
        BY <3>1, <4>1, <4>2 DEF NodeInv, Counts, LastAll, NoProbe, DesiredState
    <3>2. CASE m # n
      <4>1. /\ peerUp'[m] = peerUp[m] /\ state'[m] = state[m] /\ failures'[m] = failures[m]
            /\ successes'[m] = successes[m] /\ recent'[m] = recent[m]
        BY <1>4, <3>2 DEF Restart, TypeOK
      <4>2. QED
        BY <4>1 DEF NodeInv, Counts, LastAll, DesiredState
    <3>3. QED
      BY <3>1, <3>2
  <2>3. QED
    BY <2>1, <2>2
<1>5. CASE LinkChange
  BY <1>1, <1>5 DEF LinkChange, mgrVars, TypeOK
<1>6. CASE UNCHANGED vars
  BY <1>1, <1>6 DEF vars, mgrVars, TypeOK
<1>7. QED
  BY <1>2, <1>3, <1>4, <1>5, <1>6 DEF Next

(* In a state of the invariant no change of state is overdue. *)
LEMMA PairIsDue == PairInv => StateIsDue
<1> SUFFICES ASSUME PairInv PROVE StateIsDue
  OBVIOUS
<1> USE HAAssumption
<1>1. /\ NodeInv(Primary) /\ NodeInv(Backup) /\ recent[Backup] \in Histories
      /\ failures[Backup] \in 0 .. FailureThreshold /\ successes[Backup] \in 0 .. RecoveryThreshold
      /\ peerUp[Backup] \in BOOLEAN
  BY DEF PairInv, TypeOK, Nodes, Histories
<1>2. state[Primary] = "active" /\ state[Backup] = IF peerUp[Backup] THEN "standby" ELSE "active"
  BY <1>1 DEF NodeInv, DesiredState
<1>3. LastAll(recent[Backup], FailureThreshold, "failed") => ~peerUp[Backup]
  BY <1>1, FullRun, LongEnough DEF NodeInv
<1>4. LastAll(recent[Backup], RecoveryThreshold, "ok") => peerUp[Backup]
  BY <1>1, FullRun, LongEnough DEF NodeInv
<1>5. QED
  BY <1>1, <1>2, <1>3, <1>4 DEF StateIsDue, NodeInv

(* A step that changes a node's state completes a run of identical probes. *)
LEMMA PairEarns == PairInv /\ PairInv' /\ [Next]_vars => [ChangeIsEarned]_vars
<1> SUFFICES ASSUME PairInv, PairInv', Next, NEW n \in Nodes
             PROVE  /\ state[n] = "standby" /\ state'[n] = "active"
                         => LastAll(recent'[n], FailureThreshold, "failed")
                    /\ state[n] = "active" /\ state'[n] = "standby"
                         => ~up[n] \/ LastAll(recent'[n], RecoveryThreshold, "ok")
  BY DEF ChangeIsEarned
<1> USE HAAssumption, LongEnough
<1>0. /\ NodeInv(n) /\ NodeInv(n)' /\ peerUp[n] \in BOOLEAN /\ peerUp'[n] \in BOOLEAN
      /\ failures'[n] \in 0 .. FailureThreshold /\ successes'[n] \in 0 .. RecoveryThreshold
      /\ recent'[n] \in Histories
  BY DEF PairInv, TypeOK, Histories
<1>1. /\ state[n] = (IF n = Primary \/ ~peerUp[n] THEN "active" ELSE "standby")
      /\ state'[n] = (IF n = Primary \/ ~peerUp'[n] THEN "active" ELSE "standby")
  BY <1>0 DEF NodeInv, DesiredState
<1>2. CASE Tick(n)
  <2>1. CASE probe[n] = "ok"
    <3>1. peerUp'[n] <=> (peerUp[n] \/ successes'[n] >= RecoveryThreshold)
      BY <1>2, <2>1 DEF Tick, PairInv, TypeOK
    <3>2. ~peerUp[n] /\ peerUp'[n] => successes'[n] = RecoveryThreshold
      BY <1>0, <3>1
    <3>3. QED
      BY <1>0, <1>1, <3>1, <3>2 DEF NodeInv, Counts
  <2>2. CASE probe[n] # "ok"
    <3>1. peerUp'[n] <=> (peerUp[n] /\ failures'[n] < FailureThreshold)
      BY <1>2, <2>2 DEF Tick, PairInv, TypeOK
    <3>2. peerUp[n] /\ ~peerUp'[n] => failures'[n] = FailureThreshold
      BY <1>0, <3>1
    <3>3. QED
      BY <1>0, <1>1, <3>1, <3>2 DEF NodeInv, Counts
  <2>3. QED
    BY <2>1, <2>2
<1>3. CASE Restart(n)
  <2>1. ~up[n] /\ peerUp'[n] = TRUE
    BY <1>3 DEF Restart, NewPeerUp, PairInv, TypeOK
  <2>2. QED
    BY <1>1, <2>1
<1>4. ASSUME NEW m \in Nodes, m # n, Tick(m) \/ Restart(m) PROVE state'[n] = state[n]
  BY <1>4 DEF Tick, Restart, PairInv, TypeOK
<1>5. ASSUME NEW m \in Nodes, HealthCheck(m) \/ Crash(m) PROVE state'[n] = state[n]
  BY <1>5 DEF HealthCheck, Crash, mgrVars
<1>6. ASSUME LinkChange PROVE state'[n] = state[n]
  BY <1>6 DEF LinkChange, mgrVars
<1>7. ASSUME state'[n] = state[n]
      PROVE  /\ ~(state[n] = "standby" /\ state'[n] = "active")
             /\ ~(state[n] = "active" /\ state'[n] = "standby")
  BY <1>7
<1>8. QED
  BY <1>2, <1>3, <1>4, <1>5, <1>6, <1>7 DEF Next

(* A node takes over only after FailureThreshold failed probes in a row and
   yields only after RecoveryThreshold successful ones, and then at once
   (Manager.Tick), for all thresholds and whatever crashes, restarts and
   partitions happen. *)
THEOREM PairHysteresis == MCSpec => HysteresisHolds
<1>1. MCInit => PairInv
  <2> SUFFICES ASSUME MCInit PROVE PairInv
    OBVIOUS
  <2> USE HAAssumption, LongEnough DEF MCInit, Init
  <2>1. TypeOK
    BY DEF TypeOK, DesiredState, NewPeerUp, NoProbe, NoHistory
  <2>2. NoHistory[1] = NoProbe
    BY DEF NoHistory
  <2>3. ASSUME NEW n \in Nodes PROVE NodeInv(n)
    BY <2>2 DEF NodeInv, Counts, LastAll, NoProbe, NewPeerUp, DesiredState
  <2>4. QED
    BY <2>1, <2>3 DEF PairInv
<1>2. [MCNext]_mcVars => [Next]_vars
  BY DEF MCNext, mcVars, Pair, OfDog, OfFleet, OfSwitch, OfExporter, OfNrd, pairVars,
         vars, mgrVars
<1>3. QED
  BY <1>1, <1>2, PairStep, PairIsDue, PairEarns, PTL DEF MCSpec, HysteresisHolds

-----------------------------------------------------------------------------
(* The watchdog.                                                             *)

WatchdogInv ==
  /\ run \in Nat /\ unhealthy \in Nat /\ recoveries \in Nat
  /\ unhealthy < Dog!Threshold
  /\ run = recoveries * Dog!Threshold + unhealthy

(* One more probe: division by the threshold, and what is left. *)
LEMMA DivMod ==
  ASSUME NEW n \in Nat, NEW k \in Nat \ {0}, NEW q \in Nat, NEW r \in Nat,
         n = q * k + r, r < k
  PROVE  q = n \div k /\ r = n % k
<1>1. n \div k = q
  OBVIOUS
<1>2. n % k = r
  OBVIOUS
<1>3. QED
  BY <1>1, <1>2

(* The recovery is invoked once per full threshold of unhealthy probes in a row
   (Watchdog.check), for every configured threshold. *)
THEOREM WatchdogBacksOff == MCSpec => []RecoveryPerThreshold
<1>1. Dog!Threshold \in Nat \ {0}
  BY OperationsAssumption DEF Dog!Threshold, Dog!DefaultFailureThreshold
<1>2. MCInit => WatchdogInv
  BY <1>1 DEF MCInit, Dog!Init, WatchdogInv
<1>3. WatchdogInv /\ [MCNext]_mcVars => WatchdogInv'
  <2> SUFFICES ASSUME WatchdogInv, [MCNext]_mcVars PROVE WatchdogInv'
    OBVIOUS
  <2> USE <1>1 DEF WatchdogInv
  <2>1. CASE Dog!CheckHealthy
    BY <2>1 DEF Dog!CheckHealthy, Dog!AfterHealthy
  <2>2. CASE Dog!CheckUnhealthy
    <3>1. CASE unhealthy + 1 >= Dog!Threshold
      <4>1. unhealthy' = 0 /\ recoveries' = recoveries + 1 /\ run' = run + 1
        BY <2>2, <3>1 DEF Dog!CheckUnhealthy, Dog!AtThreshold
      <4>2. run + 1 = (recoveries + 1) * Dog!Threshold
        BY <3>1
      <4>3. QED
        BY <4>1, <4>2
    <3>2. CASE ~(unhealthy + 1 >= Dog!Threshold)
      BY <2>2, <3>2 DEF Dog!CheckUnhealthy, Dog!AtThreshold
    <3>3. QED
      BY <3>1, <3>2
  <2>3. CASE UNCHANGED <<unhealthy, run, recoveries>>
    BY <2>3
  <2>4. QED
    BY <2>1, <2>2, <2>3
       DEF MCNext, mcVars, Pair, OfDog, OfFleet, OfSwitch, OfExporter, OfNrd, dogVars,
           Dog!Next, Dog!SetAcceptQueries, Dog!Start, Dog!SafeProbe
<1>4. WatchdogInv => RecoveryPerThreshold
  BY <1>1, DivMod DEF WatchdogInv, RecoveryPerThreshold, Dog!RecoveryPerThreshold
<1>5. QED
  BY <1>2, <1>3, <1>4, PTL DEF MCSpec

-----------------------------------------------------------------------------
(* The fleet's heartbeats.                                                   *)

FleetType ==
  /\ boxUp \in [Fleet!Boxes -> BOOLEAN]
  /\ due \in [Reporters -> BOOLEAN]
  /\ timer \in [Reporters -> 0 .. Interval - 1]
  /\ waiting \in [Reporters -> -1 .. Timeout]
  /\ silence \in [Reporters -> Nat]

(* The silence of a reporter is the age of the POST it waits for, and otherwise
   no more than the time since its ticker fired, unless a tick waits. *)
SilenceInv(r) ==
  /\ waiting[r] # -1 => silence[r] = waiting[r] /\ boxUp[r]
  /\ boxUp[r] /\ ~due[r] => silence[r] <= timer[r]
  /\ boxUp[r] => silence[r] <= Fleet!Pace

FleetInv == FleetType /\ \A r \in Reporters : SilenceInv(r)

(* The ticker's timer wraps around at the interval. *)
LEMMA TimerWraps ==
  ASSUME NEW i \in Nat \ {0}, NEW t \in 0 .. i - 1
  PROVE  (t + 1 < i => (t + 1) % i = t + 1) /\ (t + 1 = i => (t + 1) % i = 0)
  OBVIOUS

(* Heartbeats, losses, timeouts and crashes preserve it, and so does time. *)
LEMMA FleetStep == FleetInv /\ [Fleet!Next]_fleetVars => FleetInv'
<1> SUFFICES ASSUME FleetInv, [Fleet!Next]_fleetVars PROVE FleetInv'
  OBVIOUS
<1> USE OperationsAssumption DEF FleetInv, FleetType, Fleet!NotPosting
<1>0. /\ \A r \in Reporters : r \in Fleet!Boxes
      /\ Fleet!Pace \in Nat /\ Interval <= Fleet!Pace /\ Timeout <= Fleet!Pace
      /\ -1 \in -1 .. Timeout /\ 0 \in -1 .. Timeout /\ 0 \in 0 .. Interval - 1
  BY DEF Fleet!Boxes, Fleet!Pace
<1>1. ASSUME UNCHANGED <<boxUp, due, timer, waiting, silence>> PROVE FleetInv'
  BY <1>1 DEF SilenceInv, Fleet!Pace
<1>2. ASSUME NEW b \in Reporters, Fleet!ReportOnce(b) PROVE FleetInv'
  BY <1>0, <1>2 DEF Fleet!ReportOnce, SilenceInv, Fleet!Pace
<1>3. ASSUME NEW b, Fleet!PostFleetHeartbeat(b) PROVE FleetInv'
  BY <1>0, <1>3 DEF Fleet!PostFleetHeartbeat, SilenceInv, Fleet!Pace
<1>4. ASSUME NEW b \in Reporters, Fleet!GiveUp(b) PROVE FleetInv'
  BY <1>0, <1>4 DEF Fleet!GiveUp, SilenceInv, Fleet!Pace
<1>5. ASSUME NEW b \in Fleet!Boxes, Fleet!Crash(b) PROVE FleetInv'
  BY <1>0, <1>5 DEF Fleet!Crash, SilenceInv, Fleet!Pace
<1>6. ASSUME NEW b \in Fleet!Boxes, Fleet!Restart(b) PROVE FleetInv'
  BY <1>0, <1>6 DEF Fleet!Restart, SilenceInv, Fleet!Pace
<1>7. ASSUME NEW b, Fleet!AgentPost(b) \/ Fleet!Lose(b) \/ Fleet!StoreRestart PROVE FleetInv'
  BY <1>1, <1>7 DEF Fleet!AgentPost, Fleet!Lose, Fleet!StoreRestart
<1>8. ASSUME Fleet!Pass PROVE FleetInv'
  <2>1. ASSUME NEW r \in Reporters
        PROVE  /\ boxUp'[r] = boxUp[r] /\ boxUp[r] \in BOOLEAN
               /\ waiting'[r] = (IF waiting[r] = -1 THEN -1 ELSE waiting[r] + 1)
               /\ waiting'[r] \in -1 .. Timeout
               /\ timer'[r] \in 0 .. Interval - 1
               /\ timer[r] + 1 < Interval => timer'[r] = timer[r] + 1
               /\ silence'[r] \in Nat /\ silence'[r] <= silence[r] + 1
               /\ boxUp[r] /\ silence[r] <= Fleet!Pace => silence'[r] = silence[r] + 1
               /\ due'[r] <=> (due[r] \/ (boxUp[r] /\ timer[r] + 1 = Interval))
               /\ boxUp[r] /\ due[r] => waiting[r] # -1
    <3>1. ~(boxUp[r] /\ due[r] /\ waiting[r] = -1) /\ waiting[r] # Timeout
      BY <1>8 DEF Fleet!Pass, Fleet!TimedOut
    <3>2. waiting'[r] = (IF waiting[r] = -1 THEN -1 ELSE waiting[r] + 1) /\ waiting'[r] \in -1 .. Timeout
      BY <1>8, <3>1 DEF Fleet!Pass
    <3>3. timer'[r] = (timer[r] + 1) % Interval /\ timer[r] \in 0 .. Interval - 1
      BY <1>8 DEF Fleet!Pass
    <3>4. timer'[r] \in 0 .. Interval - 1 /\ (timer[r] + 1 < Interval => timer'[r] = timer[r] + 1)
      <4>1. timer[r] + 1 < Interval \/ timer[r] + 1 = Interval
        BY <3>3
      <4>2. QED
        BY <3>3, <4>1, TimerWraps
    <3>5. silence'[r] = IF boxUp[r] /\ silence[r] <= Fleet!Pace THEN silence[r] + 1 ELSE silence[r]
      BY <1>8 DEF Fleet!Pass
    <3>6. due'[r] <=> (due[r] \/ (boxUp[r] /\ timer[r] + 1 = Interval))
      BY <1>8 DEF Fleet!Pass, Fleet!LoopRuns
    <3>7. boxUp'[r] = boxUp[r] /\ boxUp[r] \in BOOLEAN /\ silence[r] \in Nat
      BY <1>0, <1>8 DEF Fleet!Pass
    <3>8. QED
      BY <3>1, <3>2, <3>4, <3>5, <3>6, <3>7
  <2>2. FleetType'
    <3>1. due' \in [Reporters -> BOOLEAN]
      BY <1>8 DEF Fleet!Pass
    <3>2. QED
      BY <1>8, <2>1, <3>1 DEF Fleet!Pass
  <2>3. ASSUME NEW r \in Reporters PROVE SilenceInv(r)'
    <3>0. /\ silence[r] \in Nat /\ waiting[r] \in -1 .. Timeout /\ timer[r] \in 0 .. Interval - 1
          /\ SilenceInv(r)
      OBVIOUS
    <3>1. waiting'[r] # -1 => silence'[r] = waiting'[r] /\ boxUp'[r]
      <4>1. waiting[r] # -1 => silence[r] = waiting[r] /\ boxUp[r]
        BY <3>0 DEF SilenceInv
      <4>2. QED
        BY <1>0, <2>1, <3>0, <4>1
    <3>2. boxUp'[r] /\ ~due'[r] => silence'[r] <= timer'[r]
      BY <2>1, <3>0 DEF SilenceInv
    <3>3. boxUp'[r] => silence'[r] <= Fleet!Pace
      BY <1>0, <2>1, <3>0, <3>1 DEF SilenceInv
    <3>4. QED
      BY <3>1, <3>2, <3>3 DEF SilenceInv, Fleet!Pace
  <2>4. QED
    BY <2>2, <2>3
<1>9. CASE UNCHANGED fleetVars
  BY <1>1, <1>9 DEF fleetVars
<1>10. QED
  BY <1>2, <1>3, <1>4, <1>5, <1>6, <1>7, <1>8, <1>9 DEF Fleet!Next

(* The bounded POST keeps the loop going (Reporter.loop, reportOnce): no running
   reporter is silent for longer than its interval, or its timeout where that is
   longer, for all intervals and timeouts and whatever the collector and the
   network do. *)
THEOREM ReporterIsNeverStalled == MCSpec => []ReporterKeepsPace
<1>1. MCInit => FleetInv
  <2> SUFFICES ASSUME MCInit PROVE FleetInv
    OBVIOUS
  <2>1. -1 \in -1 .. Timeout /\ 0 \in 0 .. Interval - 1 /\ Fleet!Pace \in Nat
    BY OperationsAssumption DEF Fleet!Pace
  <2>2. QED
    BY <2>1 DEF MCInit, Fleet!Init, Fleet!NotPosting, FleetInv, FleetType, SilenceInv
<1>2. FleetInv /\ [MCNext]_mcVars => FleetInv'
  <2> SUFFICES ASSUME FleetInv, [MCNext]_mcVars PROVE FleetInv'
    OBVIOUS
  <2>1. [Fleet!Next]_fleetVars
    BY DEF MCNext, mcVars, Pair, OfDog, OfFleet, OfSwitch, OfExporter, OfNrd
  <2>2. QED
    BY <2>1, FleetStep
<1>3. FleetInv => ReporterKeepsPace
  BY DEF FleetInv, SilenceInv, ReporterKeepsPace, Fleet!ReporterKeepsPace
<1>4. QED
  BY <1>1, <1>2, <1>3, PTL DEF MCSpec

-----------------------------------------------------------------------------
(* The category and collection switches.                                     *)

Requests == [at : {"free", "clear", "aggregate", "set"}, name : Switch!Switches \cup {"none"},
             enable : BOOLEAN, alone : BOOLEAN, cleared : BOOLEAN, given : SUBSET Feeds]

Outcomes == [ok : BOOLEAN, enable : BOOLEAN, alone : BOOLEAN, given : SUBSET Feeds]

ToggleType ==
  /\ row \in [Switch!Switches -> {"absent", "on", "off"}]
  /\ entries \in [Switch!Switches -> [Feeds -> Nat]]
  /\ req \in [Togglers -> Requests]
  /\ last \in [Switch!Switches -> Outcomes]
  /\ \A t \in Togglers :
       /\ req[t].at = "free" <=> req[t].name = "none"
       /\ req[t].at = "aggregate" => req[t].enable

(* A request that nothing overlapped is the only one for its switch. *)
AloneInv ==
  \A t, u \in Togglers :
    t # u /\ req[t].alone /\ req[t].at # "free" => req[u].name # req[t].name

(* What the entries of switch n must be once a request with this choice has
   aggregated or cleared them. *)
EntriesFit(n, enable, given) == entries[n] = Switch!Once(IF enable THEN given ELSE {})

(* Such a request, its clear done, finds the entries as it left them. *)
StageInv ==
  \A t \in Togglers :
    req[t].alone /\ req[t].cleared =>
      /\ req[t].at = "aggregate" => entries[req[t].name] = Switch!NoEntries
      /\ req[t].at = "set" => EntriesFit(req[t].name, req[t].enable, req[t].given)

AppliedInv ==
  \A n \in Switch!Switches :
    Switch!Quiet(n) /\ last[n].ok /\ last[n].alone =>
      row[n] = (IF last[n].enable THEN "on" ELSE "off") /\ EntriesFit(n, last[n].enable, last[n].given)

ToggleInv == ToggleType /\ AloneInv /\ StageInv /\ AppliedInv

(* The database calls of concurrent requests preserve it. *)
LEMMA ToggleStep == ToggleInv /\ [Switch!Next]_toggleVars => ToggleInv'
<1> SUFFICES ASSUME ToggleInv, [Switch!Next]_toggleVars PROVE ToggleInv'
  OBVIOUS
<1> USE OperationsAssumption DEF ToggleInv, ToggleType
<1>0. \A t \in Togglers : req[t].at # "free" => req[t].name \in Switch!Switches
  BY DEF Requests
<1>1. ASSUME NEW t \in Togglers, NEW n \in Switch!Switches, NEW enable \in BOOLEAN,
             Switch!EnsureExists(t, n, enable)
      PROVE  ToggleInv'
  <2>0. req' = [u \in Togglers |->
           IF u = t THEN [at |-> "clear", name |-> n, enable |-> enable,
                          alone |-> ~Switch!Overlaps(t, n), cleared |-> FALSE, given |-> {}]
           ELSE IF req[u].name = n THEN [req[u] EXCEPT !.alone = FALSE] ELSE req[u]]
    BY <1>1 DEF Switch!EnsureExists
  <2>a. /\ req'[t] \in Requests /\ req'[t].at = "clear" /\ req'[t].name = n
        /\ ~req'[t].cleared /\ (req'[t].alone <=> ~Switch!Overlaps(t, n))
    BY <2>0 DEF Requests
  <2>b. ASSUME NEW u \in Togglers, u # t
        PROVE  /\ req'[u] \in Requests /\ req'[u].at = req[u].at /\ req'[u].name = req[u].name
               /\ req'[u].enable = req[u].enable /\ req'[u].cleared = req[u].cleared
               /\ req'[u].given = req[u].given
               /\ req'[u].alone => req[u].alone /\ req[u].name # n
    <3>1. req[u] \in Requests
      OBVIOUS
    <3>2. CASE req[u].name = n
      <4>1. req'[u] = [req[u] EXCEPT !.alone = FALSE]
        BY <2>0, <2>b, <3>2
      <4>2. QED
        BY <3>1, <4>1 DEF Requests
    <3>3. CASE req[u].name # n
      <4>1. req'[u] = req[u]
        BY <2>0, <2>b, <3>3
      <4>2. QED
        BY <3>1, <3>3, <4>1
    <3>4. QED
      BY <3>2, <3>3
  <2>2. ToggleType'
    <3>1. req' \in [Togglers -> Requests]
      BY <2>0, <2>a, <2>b
    <3>2. ASSUME NEW u \in Togglers
          PROVE  /\ req'[u].at = "free" <=> req'[u].name = "none"
                 /\ req'[u].at = "aggregate" => req'[u].enable
      <4>1. CASE u = t
        BY <2>a, <4>1 DEF Switch!Switches
      <4>2. CASE u # t
        BY <2>b, <4>2
      <4>3. QED
        BY <4>1, <4>2
    <3>3. row' \in [Switch!Switches -> {"absent", "on", "off"}] /\ UNCHANGED <<entries, last>>
      BY <1>1 DEF Switch!EnsureExists
    <3>4. QED
      BY <3>1, <3>2, <3>3
  <2>3. AloneInv'
    <3> SUFFICES ASSUME NEW v \in Togglers, NEW u \in Togglers, v # u, req'[v].alone,
                        req'[v].at # "free"
                 PROVE  req'[u].name # req'[v].name
      BY DEF AloneInv
    <3>1. CASE v = t
      BY <2>a, <2>b, <3>1 DEF Switch!Overlaps, Switch!Switches
    <3>2. CASE v # t
      BY <2>a, <2>b, <3>2 DEF AloneInv
    <3>3. QED
      BY <3>1, <3>2
  <2>4. StageInv'
    BY <1>1, <2>a, <2>b DEF StageInv, EntriesFit, Switch!EnsureExists, Switch!NoEntries
  <2>5. AppliedInv'
    <3>1. ASSUME NEW m \in Switch!Switches, Switch!Quiet(m)' PROVE m # n /\ Switch!Quiet(m)
      <4>1. m # n /\ \A u \in Togglers : u # t => req[u].name # m
        BY <2>a, <2>b, <3>1 DEF Switch!Quiet
      <4>2. req[t].name = "none" /\ m # "none"
        BY <1>1 DEF Switch!EnsureExists, Switch!Free, Switch!Switches
      <4>3. QED
        BY <4>1, <4>2 DEF Switch!Quiet
    <3>2. QED
      BY <1>1, <3>1 DEF AppliedInv, EntriesFit, Switch!EnsureExists
  <2>6. QED
    BY <2>2, <2>3, <2>4, <2>5
<1>2. ASSUME NEW t \in Togglers, Switch!EnsureErr(t) PROVE ToggleInv'
  BY <1>2 DEF Switch!EnsureErr, AloneInv, StageInv, EntriesFit, AppliedInv, Switch!Quiet
<1>3. ASSUME NEW t \in Togglers, Switch!Clear(t) \/ Switch!ClearErr(t) PROVE ToggleInv'
  <2>1. PICK ok \in BOOLEAN :
          /\ req[t].at = "clear"
          /\ req' = [req EXCEPT ![t].at = IF req[t].enable THEN "aggregate" ELSE "set",
                                ![t].cleared = ok]
          /\ entries' = IF ok THEN [entries EXCEPT ![req[t].name] = Switch!NoEntries] ELSE entries
          /\ UNCHANGED <<row, last>>
    BY <1>3 DEF Switch!Clear, Switch!ClearErr, Switch!Goto, Switch!Cleared
  <2>2. ToggleType'
    <3>0. [req[t] EXCEPT !.at = IF req[t].enable THEN "aggregate" ELSE "set", !.cleared = ok]
            \in Requests
      <4>1. req[t] \in Requests /\ (IF req[t].enable THEN "aggregate" ELSE "set") \in {"aggregate", "set"}
        OBVIOUS
      <4>2. QED
        BY <4>1 DEF Requests
    <3>1. req' \in [Togglers -> Requests]
      BY <2>1, <3>0
    <3>2. entries' \in [Switch!Switches -> [Feeds -> Nat]]
      BY <1>0, <2>1 DEF Switch!NoEntries, Switch!Once
    <3>3. \A u \in Togglers : /\ req'[u].at = "free" <=> req'[u].name = "none"
                              /\ req'[u].at = "aggregate" => req'[u].enable
      BY <2>1 DEF Requests
    <3>4. QED
      BY <2>1, <3>1, <3>2, <3>3
  <2>3. \A u \in Togglers : req'[u].name = req[u].name /\ req'[u].alone = req[u].alone
    BY <2>1
  <2>4. AloneInv'
    BY <2>1, <2>3 DEF AloneInv
  <2>5. StageInv'
    BY <1>0, <2>1 DEF StageInv, AloneInv, EntriesFit, Switch!NoEntries
  <2>6. AppliedInv'
    <3>1. ASSUME NEW m \in Switch!Switches, Switch!Quiet(m)'
          PROVE  m # req[t].name /\ Switch!Quiet(m)
      BY <2>3, <3>1 DEF Switch!Quiet
    <3>2. QED
      BY <1>0, <2>1, <3>1 DEF AppliedInv, EntriesFit
  <2>7. QED
    BY <2>2, <2>4, <2>5, <2>6
<1>4. ASSUME NEW t \in Togglers, Switch!Aggregate(t) PROVE ToggleInv'
  <2>1. PICK given \in Switch!Giving(req[t].name) :
          /\ entries' = [entries EXCEPT ![req[t].name] =
                           [f \in Feeds |-> @[f] + Switch!Once(given)[f]]]
          /\ req' = [req EXCEPT ![t].at = "set", ![t].given = given]
    BY <1>4 DEF Switch!Aggregate
  <2>2. /\ req[t].at = "aggregate" /\ req[t].enable /\ req[t].name \in Switch!Switches
        /\ UNCHANGED <<row, last>>
    BY <1>0, <1>4 DEF Switch!Aggregate
  <2>3. given \in SUBSET Feeds
    <3>1. CASE req[t].name \in Categories
      BY <2>1, <3>1 DEF Switch!Giving
    <3>2. CASE req[t].name \notin Categories
      BY <2>1, <3>2 DEF Switch!Giving
    <3>3. QED
      BY <3>1, <3>2
  <2>4. ToggleType'
    <3>1. [req[t] EXCEPT !.at = "set", !.given = given] \in Requests
      BY <2>3 DEF Requests
    <3>2. req' \in [Togglers -> Requests]
      BY <2>1, <3>1
    <3>3. entries' \in [Switch!Switches -> [Feeds -> Nat]]
      BY <2>1, <2>2 DEF Switch!Once
    <3>4. \A u \in Togglers : /\ req'[u].at = "free" <=> req'[u].name = "none"
                              /\ req'[u].at = "aggregate" => req'[u].enable
      BY <2>1, <2>2 DEF Requests
    <3>5. QED
      BY <2>2, <3>2, <3>3, <3>4
  <2>5. \A u \in Togglers : req'[u].name = req[u].name /\ req'[u].alone = req[u].alone
    BY <2>1
  <2>6. AloneInv'
    BY <2>1, <2>2, <2>5 DEF AloneInv
  <2>7. entries[req[t].name] = Switch!NoEntries => EntriesFit(req[t].name, TRUE, given)'
    BY <2>1, <2>2, <2>3 DEF EntriesFit, Switch!NoEntries, Switch!Once
  <2>8. StageInv'
    <3> SUFFICES ASSUME NEW u \in Togglers, req'[u].alone, req'[u].cleared
                 PROVE  /\ req'[u].at = "aggregate" => entries'[req'[u].name] = Switch!NoEntries
                        /\ req'[u].at = "set" =>
                             entries'[req'[u].name] =
                               Switch!Once(IF req'[u].enable THEN req'[u].given ELSE {})
      BY DEF StageInv, EntriesFit
    <3>1. CASE u = t
      <4>1. /\ req'[t].at = "set" /\ req'[t].given = given /\ req'[t].name = req[t].name
            /\ req'[t].enable = req[t].enable /\ req'[t].alone = req[t].alone
            /\ req'[t].cleared = req[t].cleared
        BY <2>1 DEF Requests
      <4>2. entries[req[t].name] = Switch!NoEntries
        BY <2>2, <3>1, <4>1 DEF StageInv
      <4>3. QED
        BY <2>2, <2>7, <3>1, <4>1, <4>2 DEF EntriesFit
    <3>2. CASE u # t
      <4>1. req'[u] = req[u]
        BY <2>1, <3>2
      <4>2. req[u].at # "free" => entries'[req[u].name] = entries[req[u].name]
        <5>1. req[u].at # "free" => req[t].name # req[u].name /\ req[u].name \in Switch!Switches
          BY <1>0, <3>2, <4>1 DEF AloneInv
        <5>2. QED
          BY <2>1, <2>2, <5>1
      <4>3. QED
        BY <4>1, <4>2 DEF StageInv, EntriesFit
    <3>3. QED
      BY <3>1, <3>2
  <2>9. AppliedInv'
    <3>1. ASSUME NEW m \in Switch!Switches, Switch!Quiet(m)'
          PROVE  m # req[t].name /\ Switch!Quiet(m)
      BY <2>5, <3>1 DEF Switch!Quiet
    <3>2. QED
      BY <2>1, <2>2, <3>1 DEF AppliedInv, EntriesFit
  <2>10. QED
    BY <2>4, <2>6, <2>8, <2>9
<1>5. ASSUME NEW t \in Togglers,
             Switch!AggregateErr(t) \/ Switch!SetEnabled(t) \/ Switch!SetErr(t)
      PROVE  ToggleInv'
  <2>1. PICK ok \in BOOLEAN :
          /\ req[t].at \in {"aggregate", "set"} /\ (ok => req[t].at = "set")
          /\ Switch!Return(t, ok)
          /\ row' = IF ok THEN [row EXCEPT ![req[t].name] = Switch!Flag(t)] ELSE row
          /\ UNCHANGED entries
    BY <1>5 DEF Switch!AggregateErr, Switch!SetEnabled, Switch!SetErr
  <2>2. req[t].name \in Switch!Switches /\ req[t].name # "none"
    BY <1>0, <2>1 DEF Switch!Switches
  <2>3. /\ req' = [req EXCEPT ![t] = Switch!Free]
        /\ last' = [last EXCEPT ![req[t].name] =
                      [ok |-> ok, enable |-> req[t].enable,
                       alone |-> req[t].alone /\ req[t].cleared, given |-> req[t].given]]
    BY <2>1 DEF Switch!Return
  <2>4. ToggleType'
    <3>1. Switch!Free \in Requests /\ Switch!Free.at = "free" /\ Switch!Free.name = "none"
      BY DEF Switch!Free, Requests
    <3>2. req' \in [Togglers -> Requests]
      BY <2>3, <3>1
    <3>3. row' \in [Switch!Switches -> {"absent", "on", "off"}]
      BY <2>1, <2>2 DEF Switch!Flag
    <3>4. /\ req[t].enable \in BOOLEAN /\ req[t].alone \in BOOLEAN /\ req[t].cleared \in BOOLEAN
          /\ req[t].given \in SUBSET Feeds
      BY DEF Requests
    <3>5. last' \in [Switch!Switches -> Outcomes]
      BY <2>2, <2>3, <3>4 DEF Outcomes
    <3>6. QED
      BY <2>1, <2>3, <3>1, <3>2, <3>3, <3>5
  <2>5. AloneInv'
    BY <2>3 DEF AloneInv, Switch!Free
  <2>6. StageInv'
    BY <2>1, <2>3 DEF StageInv, EntriesFit, Switch!Free
  <2>7. ASSUME NEW m \in Switch!Switches, Switch!Quiet(m)', last'[m].ok, last'[m].alone
        PROVE  row'[m] = (IF last'[m].enable THEN "on" ELSE "off")
               /\ EntriesFit(m, last'[m].enable, last'[m].given)
    <3>1. CASE m = req[t].name
      BY <2>1, <2>2, <2>3, <2>7, <3>1 DEF StageInv, Switch!Flag, EntriesFit
    <3>2. CASE m # req[t].name
      <4>1. Switch!Quiet(m)
        BY <2>3, <2>7, <3>2 DEF Switch!Quiet
      <4>2. last'[m] = last[m] /\ row'[m] = row[m]
        BY <2>1, <2>2, <2>3, <3>2
      <4>3. QED
        BY <2>7, <4>1, <4>2 DEF AppliedInv
    <3>3. QED
      BY <3>1, <3>2
  <2>8. AppliedInv'
    BY <2>1, <2>7 DEF AppliedInv, EntriesFit
  <2>9. QED
    BY <2>4, <2>5, <2>6, <2>8
<1>6. CASE UNCHANGED toggleVars
  BY <1>6 DEF toggleVars, AloneInv, StageInv, EntriesFit, AppliedInv, Switch!Quiet
<1>7. QED
  BY <1>1, <1>2, <1>3, <1>4, <1>5, <1>6 DEF Switch!Next

(* A toggle that reported success and ran alone is in force, flag and entries,
   whatever failed or overlapping requests came before (ToggleCategory,
   ToggleCollection), for any number of switches, feeds and requests. *)
THEOREM ToggleIsApplied == MCSpec => []SuccessIsApplied
<1>1. MCInit => ToggleInv
  BY OperationsAssumption
     DEF MCInit, Switch!Init, ToggleInv, ToggleType, Requests, AloneInv, StageInv, AppliedInv,
         Outcomes, Switch!Free, Switch!NeverToggled, Switch!NoEntries, Switch!Once
<1>2. ToggleInv /\ [MCNext]_mcVars => ToggleInv'
  <2> SUFFICES ASSUME ToggleInv, [MCNext]_mcVars PROVE ToggleInv'
    OBVIOUS
  <2>1. [Switch!Next]_toggleVars
    BY DEF MCNext, mcVars, Pair, OfDog, OfFleet, OfSwitch, OfExporter, OfNrd
  <2>2. QED
    BY <2>1, ToggleStep
<1>3. ToggleInv => SuccessIsApplied
  BY DEF ToggleInv, AppliedInv, EntriesFit, SuccessIsApplied, Switch!SuccessIsApplied
<1>4. QED
  BY <1>1, <1>2, <1>3, PTL DEF MCSpec

-----------------------------------------------------------------------------
(* The event exporter.                                                       *)

(* Whether sink s still waits for the event the worker holds. *)
Awaits(s) == IF work # Exporter!Idle /\ work.sink <= s THEN 1 ELSE 0

ExportType ==
  /\ queue \in Seq(ExportEvents) /\ accepted \in Seq(ExportEvents)
  /\ tried \in [Exporter!Sinks -> Seq(ExportEvents)]
  /\ work = Exporter!Idle \/ work \in [event : ExportEvents, sink : Exporter!Sinks]

(* The accepted events are what a sink was offered, then the event it waits
   for, then the queue. *)
OfferInv ==
  /\ Len(queue) <= Len(accepted)
  /\ \A i \in 1 .. Len(queue) : accepted[Len(accepted) - Len(queue) + i] = queue[i]
  /\ work # Exporter!Idle =>
       Len(queue) < Len(accepted) /\ work.event = accepted[Len(accepted) - Len(queue)]
  /\ \A s \in Exporter!Sinks :
       /\ Len(tried[s]) + Awaits(s) + Len(queue) = Len(accepted)
       /\ \A i \in 1 .. Len(tried[s]) : tried[s][i] = accepted[i]
  /\ sinksClosed => ~serving /\ work = Exporter!Idle /\ queue = <<>>

ExportInv == ExportType /\ OfferInv

(* Handlers, the worker and Close preserve it. *)
LEMMA ExportStep == ExportInv /\ [Exporter!Next]_exportVars => ExportInv'
<1> SUFFICES ASSUME ExportInv, [Exporter!Next]_exportVars PROVE ExportInv'
  OBVIOUS
<1> USE OperationsAssumption DEF ExportInv, ExportType, Exporter!Sinks
<1>0. Exporter!Idle.event = "none" /\ \A w \in [event : ExportEvents, sink : 1 .. NSinks] : w # Exporter!Idle
  BY DEF Exporter!Idle
<1>1. ASSUME NEW ev \in ExportEvents, Exporter!Export(ev) PROVE ExportInv'
  <2>1. CASE Exporter!QueueFull
    BY <1>1, <2>1 DEF Exporter!Export, OfferInv, Awaits
  <2>2. CASE ~Exporter!QueueFull
    <3>1. /\ queue' = Append(queue, ev) /\ accepted' = Append(accepted, ev)
          /\ UNCHANGED <<serving, work, stuck, tried, sinksClosed>> /\ serving
      BY <1>1, <2>2 DEF Exporter!Export
    <3>2. ExportType'
      BY <3>1
    <3>3. /\ Len(queue') = Len(queue) + 1 /\ Len(accepted') = Len(accepted) + 1
          /\ \A i \in 1 .. Len(queue) : queue'[i] = queue[i]
          /\ \A i \in 1 .. Len(accepted) : accepted'[i] = accepted[i]
          /\ queue'[Len(queue) + 1] = ev /\ accepted'[Len(accepted) + 1] = ev
      BY <3>1
    <3>4. ~sinksClosed /\ \A s \in 1 .. NSinks : Awaits(s)' = Awaits(s) /\ Awaits(s) \in {0, 1}
      BY <3>1 DEF OfferInv, Awaits
    <3>5. \A i \in 1 .. Len(queue') :
            accepted'[Len(accepted') - Len(queue') + i] = queue'[i]
      <4>0. Len(queue') = Len(queue) + 1 /\ Len(accepted') - Len(queue') = Len(accepted) - Len(queue)
        BY <3>3
      <4> SUFFICES ASSUME NEW i \in 1 .. Len(queue) + 1
                   PROVE  accepted'[Len(accepted) - Len(queue) + i] = queue'[i]
        BY <4>0, Zenon
      <4>1. CASE i = Len(queue) + 1
        <5>1. Len(accepted) - Len(queue) + i = Len(accepted) + 1
          BY <4>1
        <5>2. QED
          BY <3>3, <4>1, <5>1
      <4>2. CASE i \in 1 .. Len(queue)
        <5>1. Len(accepted) - Len(queue) + i \in 1 .. Len(accepted)
          BY <4>2 DEF OfferInv
        <5>2. QED
          BY <3>3, <4>2, <5>1 DEF OfferInv
      <4>3. QED
        BY <4>1, <4>2
    <3>6. work' # Exporter!Idle => Len(queue') < Len(accepted')
            /\ work'.event = accepted'[Len(accepted') - Len(queue')]
      BY <3>1, <3>2, <3>3 DEF OfferInv
    <3>7. \A s \in 1 .. NSinks :
            /\ Len(tried'[s]) + Awaits(s)' + Len(queue') = Len(accepted')
            /\ \A i \in 1 .. Len(tried'[s]) : tried'[s][i] = accepted'[i]
      <4> SUFFICES ASSUME NEW s \in 1 .. NSinks
                   PROVE  /\ Len(tried[s]) + Awaits(s)' + Len(queue') = Len(accepted')
                          /\ \A i \in 1 .. Len(tried[s]) : tried[s][i] = accepted'[i]
        BY <3>1, Zenon
      <4>1. Len(tried[s]) + Awaits(s) + Len(queue) = Len(accepted) /\ Awaits(s) \in {0, 1}
            /\ \A i \in 1 .. Len(tried[s]) : tried[s][i] = accepted[i]
        BY <3>4 DEF OfferInv
      <4>2. Len(tried[s]) \in 0 .. Len(accepted)
        BY <4>1
      <4>3. Len(tried[s]) + Awaits(s)' + Len(queue') = Len(accepted')
        <5>1. Awaits(s)' = Awaits(s) /\ Len(tried[s]) \in Nat
          BY <3>4
        <5>2. Len(tried[s]) + Awaits(s) + (Len(queue) + 1) = Len(accepted) + 1
          <6>1. ASSUME NEW a \in Nat, NEW b \in Nat, NEW c \in Nat, NEW d \in Nat, a + b + c = d
                PROVE  a + b + (c + 1) = d + 1
            BY <6>1
          <6>2. Awaits(s) \in Nat /\ Len(tried[s]) \in Nat /\ Len(queue) \in Nat /\ Len(accepted) \in Nat
            BY <4>1
          <6>3. QED
            BY <4>1, <6>1, <6>2
        <5>3. QED
          BY <3>3, <5>1, <5>2, Zenon
      <4>4. QED
        BY <3>3, <4>1, <4>2, <4>3
    <3>8. OfferInv'
      <4>1. Len(queue') <= Len(accepted')
        BY <3>3 DEF OfferInv
      <4>2. QED
        BY <3>1, <3>4, <3>5, <3>6, <3>7, <4>1 DEF OfferInv
    <3>9. QED
      BY <3>2, <3>8
  <2>3. QED
    BY <2>1, <2>2
<1>2. CASE Exporter!Receive
  <2>1. /\ work = Exporter!Idle /\ queue # <<>> /\ queue' = Tail(queue)
        /\ work' = [event |-> Head(queue), sink |-> 1]
        /\ UNCHANGED <<serving, tried, sinksClosed, accepted>>
    BY <1>2 DEF Exporter!Receive
  <2>2. ExportType' /\ work' # Exporter!Idle /\ work'.event = Head(queue) /\ work'.sink = 1
    BY <1>0, <2>1
  <2>3. Head(queue) = queue[1] /\ Len(Tail(queue)) = Len(queue) - 1 /\ Len(queue) > 0
        /\ \A i \in 1 .. Len(queue) - 1 : Tail(queue)[i] = queue[i + 1]
    BY <2>1
  <2>4. OfferInv'
    BY <2>1, <2>2, <2>3 DEF OfferInv, Awaits
  <2>5. QED
    BY <2>2, <2>4
<1>3. ASSUME NEW failed \in BOOLEAN, Exporter!Send(failed) PROVE ExportInv'
  <2>1. /\ work \in [event : ExportEvents, sink : 1 .. NSinks] /\ work # Exporter!Idle
        /\ tried' = [tried EXCEPT ![work.sink] = Append(@, work.event)]
        /\ work' = IF work.sink = NSinks THEN Exporter!Idle ELSE [work EXCEPT !.sink = @ + 1]
        /\ UNCHANGED <<serving, queue, sinksClosed, accepted>>
    BY <1>3 DEF Exporter!Send, Exporter!AfterSend
  <2>2. work.event \in ExportEvents /\ work.sink \in 1 .. NSinks
    BY <2>1
  <2>3. /\ work' = Exporter!Idle \/ work' \in [event : ExportEvents, sink : 1 .. NSinks]
        /\ work' # Exporter!Idle => work'.event = work.event
        /\ \A s \in 1 .. NSinks : Awaits(s)' = IF s > work.sink THEN 1 ELSE 0
    <3>1. CASE work.sink = NSinks
      BY <2>1, <2>2, <3>1 DEF Awaits
    <3>2. CASE work.sink # NSinks
      <4>1. work' = [event |-> work.event, sink |-> work.sink + 1]
        BY <2>1, <3>2
      <4>2. work' \in [event : ExportEvents, sink : 1 .. NSinks] /\ work'.sink = work.sink + 1
            /\ work'.event = work.event
        <5>1. work.sink + 1 \in 1 .. NSinks
          BY <2>2, <3>2
        <5>2. QED
          BY <2>2, <4>1, <5>1
      <4>3. work' # Exporter!Idle
        BY <1>0, <4>2
      <4>4. QED
        BY <2>2, <4>2, <4>3 DEF Awaits
    <3>3. QED
      BY <3>1, <3>2
  <2>4. \A s \in 1 .. NSinks : Awaits(s) = IF s >= work.sink THEN 1 ELSE 0
    BY <2>1 DEF Awaits
  <2>5. ExportType'
    BY <2>1, <2>2, <2>3
  <2>6. ASSUME NEW s \in 1 .. NSinks
        PROVE  /\ Len(tried'[s]) + Awaits(s)' + Len(queue) = Len(accepted)
               /\ \A i \in 1 .. Len(tried'[s]) : tried'[s][i] = accepted[i]
    <3>1. Len(tried[s]) + Awaits(s) + Len(queue) = Len(accepted)
          /\ \A i \in 1 .. Len(tried[s]) : tried[s][i] = accepted[i]
      BY DEF OfferInv
    <3>2. CASE s = work.sink
      <4>1. tried'[s] = Append(tried[s], work.event) /\ Awaits(s) = 1 /\ Awaits(s)' = 0
        BY <2>1, <2>2, <2>3, <2>4, <3>2
      <4>2. work.event = accepted[Len(tried[s]) + 1]
        <5>1. Len(accepted) - Len(queue) = Len(tried[s]) + 1
          BY <3>1, <4>1
        <5>2. QED
          BY <2>1, <5>1 DEF OfferInv
      <4>3. QED
        BY <2>2, <3>1, <4>1, <4>2
    <3>3. CASE s # work.sink
      <4>1. tried'[s] = tried[s] /\ Awaits(s)' = Awaits(s)
        BY <2>1, <2>2, <2>3, <2>4, <3>3
      <4>2. QED
        BY <3>1, <4>1
    <3>4. QED
      BY <3>2, <3>3
  <2>7. OfferInv'
    BY <2>1, <2>3, <2>6 DEF OfferInv
  <2>8. QED
    BY <2>5, <2>7
<1>4. ASSUME UNCHANGED <<queue, accepted, tried, work>>,
             sinksClosed' => ~serving' /\ work = Exporter!Idle /\ queue = <<>>
      PROVE  ExportInv'
  <2>1. \A s \in 1 .. NSinks : Awaits(s)' = Awaits(s)
    BY <1>4 DEF Awaits
  <2>2. QED
    BY <1>4, <2>1 DEF OfferInv
<1>5. CASE Exporter!CloseQueue \/ Exporter!CloseSinks
  BY <1>4, <1>5 DEF Exporter!CloseQueue, Exporter!CloseSinks, Exporter!WorkerDone, OfferInv
<1>6. ASSUME NEW s \in Exporter!Sinks, Exporter!Stall(s) \/ Exporter!Resume(s) PROVE ExportInv'
  BY <1>4, <1>6 DEF Exporter!Stall, Exporter!Resume, OfferInv
<1>7. CASE UNCHANGED exportVars
  BY <1>4, <1>7 DEF exportVars, OfferInv
<1>8. QED
  BY <1>1, <1>2, <1>3, <1>5, <1>6, <1>7 DEF Exporter!Next

(* Every sink is offered every accepted event once and in order, whatever other
   sinks return and however they stall, and all of them before Close closes
   the sinks (eventExporter.run, Close), for any number of sinks and any queue. *)
THEOREM EverySinkIsOffered == MCSpec => []SinksOfferedAll
<1>1. MCInit => ExportInv
  BY OperationsAssumption
     DEF MCInit, Exporter!Init, ExportInv, ExportType, OfferInv, Awaits
<1>2. ExportInv /\ [MCNext]_mcVars => ExportInv'
  <2> SUFFICES ASSUME ExportInv, [MCNext]_mcVars PROVE ExportInv'
    OBVIOUS
  <2>1. [Exporter!Next]_exportVars
    BY DEF MCNext, mcVars, Pair, OfDog, OfFleet, OfSwitch, OfExporter, OfNrd
  <2>2. QED
    BY <2>1, ExportStep
<1>3. ExportInv => SinksOfferedAll
  <2> SUFFICES ASSUME ExportInv, NEW s \in Exporter!Sinks
               PROVE  /\ Exporter!IsPrefix(tried[s], accepted)
                      /\ work = Exporter!Idle => Len(tried[s]) + Len(queue) = Len(accepted)
                      /\ sinksClosed => tried[s] = accepted
    BY DEF SinksOfferedAll, Exporter!SinksOfferedAll
  <2>1. tried[s] \in Seq(ExportEvents) /\ accepted \in Seq(ExportEvents) /\ queue \in Seq(ExportEvents)
    BY DEF ExportInv, ExportType
  <2>2. Len(tried[s]) + Awaits(s) + Len(queue) = Len(accepted) /\ Awaits(s) \in {0, 1}
        /\ \A i \in 1 .. Len(tried[s]) : tried[s][i] = accepted[i]
    BY DEF ExportInv, OfferInv, Awaits
  <2>3. Len(tried[s]) <= Len(accepted)
    BY <2>1, <2>2
  <2>4. Exporter!IsPrefix(tried[s], accepted)
    BY <2>1, <2>2, <2>3 DEF Exporter!IsPrefix
  <2>5. work = Exporter!Idle => Len(tried[s]) + Len(queue) = Len(accepted)
    BY <2>1, <2>2 DEF Awaits
  <2>6. sinksClosed => tried[s] = accepted
    <3> SUFFICES ASSUME sinksClosed PROVE tried[s] = accepted
      OBVIOUS
    <3>1. Len(tried[s]) = Len(accepted)
      BY <2>1, <2>5 DEF ExportInv, OfferInv
    <3>2. QED
      BY <2>1, <2>2, <3>1
  <2>7. QED
    BY <2>4, <2>5, <2>6
<1>4. QED
  BY <1>1, <1>2, <1>3, PTL DEF MCSpec

(* Accepted events are distinct, and none was refused. *)
UniqueInv ==
  /\ ExportInv
  /\ \A i, j \in 1 .. Len(accepted) : accepted[i] = accepted[j] => i = j
  /\ \A i \in 1 .. Len(accepted) : accepted[i] \notin refused

(* The refinement's view of the exporter: what waits, and what is done. *)
Waiting == Exporter!ToSet(queue) \cup ({work.event} \ {Exporter!Idle.event})
Done    == Exporter!ToSet(accepted) \ (Exporter!ToSet(queue) \cup {work.event})

(* The elements of a sequence, by its indices. *)
LEMMA Elements ==
  ASSUME NEW S, NEW s \in Seq(S)
  PROVE  /\ \A x : x \in Exporter!ToSet(s) <=> \E i \in 1 .. Len(s) : s[i] = x
         /\ Exporter!ToSet(s) \subseteq S
<1>1. DOMAIN s = 1 .. Len(s) /\ \A i \in 1 .. Len(s) : s[i] \in S
  OBVIOUS
<1>2. \A x : x \in Exporter!ToSet(s) <=> \E i \in 1 .. Len(s) : s[i] = x
  BY <1>1 DEF Exporter!ToSet
<1>3. QED
  BY <1>1, <1>2

(* The elements after an Append, and before a Tail. *)
LEMMA ElementsOfAppend ==
  ASSUME NEW S, NEW s \in Seq(S), NEW e \in S
  PROVE  Exporter!ToSet(Append(s, e)) = Exporter!ToSet(s) \cup {e}
<1> DEFINE t == Append(s, e)
           n == Len(s) + 1
<1>1. /\ t \in Seq(S) /\ Len(s) \in Nat /\ Len(t) = n /\ t[n] = e
      /\ \A i \in 1 .. Len(s) : t[i] = s[i]
  OBVIOUS
<1>2. 1 .. n = (1 .. Len(s)) \cup {n}
  BY <1>1
<1> HIDE DEF t, n
<1>3. \A x : x \in Exporter!ToSet(t) <=> \E i \in 1 .. Len(t) : t[i] = x
  BY <1>1, Elements
<1>4. \A x : x \in Exporter!ToSet(s) <=> \E i \in 1 .. Len(s) : s[i] = x
  BY Elements
<1>5. \A x : x \in Exporter!ToSet(t) <=> x \in Exporter!ToSet(s) \cup {e}
  BY <1>1, <1>2, <1>3, <1>4
<1>6. QED
  BY <1>5 DEF t

LEMMA ElementsOfTail ==
  ASSUME NEW S, NEW s \in Seq(S), s # <<>>
  PROVE  Exporter!ToSet(s) = {Head(s)} \cup Exporter!ToSet(Tail(s))
<1> DEFINE t == Tail(s)
<1>1. /\ t \in Seq(S) /\ Len(s) \in Nat \ {0} /\ Len(t) = Len(s) - 1 /\ Head(s) = s[1]
      /\ \A i \in 1 .. Len(t) : t[i] = s[i + 1]
  OBVIOUS
<1> HIDE DEF t
<1>2. /\ \A i \in 1 .. Len(s) : i = 1 \/ \E j \in 1 .. Len(t) : i = j + 1
      /\ 1 \in 1 .. Len(s) /\ \A j \in 1 .. Len(t) : j + 1 \in 1 .. Len(s)
  <2>1. \A i \in 1 .. Len(s) : i = 1 \/ (i - 1 \in 1 .. Len(t) /\ i = (i - 1) + 1)
    BY <1>1
  <2>2. 1 \in 1 .. Len(s) /\ \A j \in 1 .. Len(t) : j + 1 \in 1 .. Len(s)
    BY <1>1
  <2>3. QED
    BY <2>1, <2>2
<1>3. \A x : x \in Exporter!ToSet(t) <=> \E i \in 1 .. Len(t) : t[i] = x
  BY <1>1, Elements
<1>4. \A x : x \in Exporter!ToSet(s) <=> \E i \in 1 .. Len(s) : s[i] = x
  BY Elements
<1>5. ASSUME NEW x \in Exporter!ToSet(s) PROVE x \in {Head(s)} \cup Exporter!ToSet(t)
  <2>1. PICK i \in 1 .. Len(s) : s[i] = x
    BY <1>4
  <2>2. CASE i = 1
    BY <1>1, <2>1, <2>2
  <2>3. ASSUME NEW j \in 1 .. Len(t), i = j + 1 PROVE x \in Exporter!ToSet(t)
    BY <1>1, <1>3, <2>1, <2>3
  <2>4. QED
    BY <1>2, <2>2, <2>3
<1>6. {Head(s)} \cup Exporter!ToSet(t) \subseteq Exporter!ToSet(s)
  BY <1>1, <1>2, <1>3, <1>4
<1>7. QED
  BY <1>5, <1>6 DEF t

(* A sequence without repetitions has as many elements as it is long. *)
LEMMA AsManyAsLong ==
  ASSUME NEW S, NEW s \in Seq(S), \A i, j \in 1 .. Len(s) : s[i] = s[j] => i = j
  PROVE  IsFiniteSet(Exporter!ToSet(s)) /\ Cardinality(Exporter!ToSet(s)) = Len(s)
<1>1. Len(s) \in Nat /\ DOMAIN s = 1 .. Len(s) /\ s \in [1 .. Len(s) -> Exporter!ToSet(s)]
  BY DEF Exporter!ToSet
<1>2. s \in Surjection(1 .. Len(s), Exporter!ToSet(s))
  BY <1>1, Elements, Zenon DEF Surjection
<1>3. s \in Injection(1 .. Len(s), Exporter!ToSet(s))
  BY <1>1, Zenon DEF Injection, IsInjective
<1>4. s \in Bijection(1 .. Len(s), Exporter!ToSet(s))
  BY <1>2, <1>3, Zenon DEF Bijection
<1>5. IsFiniteSet(1 .. Len(s)) /\ Cardinality(1 .. Len(s)) = Len(s)
  BY <1>1, FS_Interval
<1>6. QED
  BY <1>4, <1>5, FS_Bijection, Zenon DEF ExistsBijection

(* What waits is among the accepted events, the one in work is not in the queue,
   and the queue's events are distinct. *)
LEMMA WaitingIsAccepted ==
  ASSUME UniqueInv
  PROVE  /\ Exporter!ToSet(queue) \subseteq Exporter!ToSet(accepted)
         /\ Exporter!ToSet(accepted) \subseteq ExportEvents
         /\ Exporter!ToSet(accepted) \cap refused = {}
         /\ work = Exporter!Idle => work.event = "none"
         /\ work # Exporter!Idle =>
              /\ work.event \in Exporter!ToSet(accepted) \ Exporter!ToSet(queue)
              /\ work.event # "none"
         /\ \A i, j \in 1 .. Len(queue) : queue[i] = queue[j] => i = j
<1> DEFINE n == Len(accepted) - Len(queue)
<1>1. /\ queue \in Seq(ExportEvents) /\ accepted \in Seq(ExportEvents)
      /\ Len(queue) \in Nat /\ Len(accepted) \in Nat /\ n \in Nat
      /\ work = Exporter!Idle \/ work \in [event : ExportEvents, sink : Exporter!Sinks]
  BY DEF UniqueInv, ExportInv, ExportType, OfferInv
<1>2. \A i \in 1 .. Len(queue) : n + i \in 1 .. Len(accepted) /\ accepted[n + i] = queue[i] /\ n + i # n
  BY <1>1 DEF UniqueInv, ExportInv, OfferInv
<1>3. work # Exporter!Idle => n \in 1 .. Len(accepted) /\ work.event = accepted[n]
  BY <1>1 DEF UniqueInv, ExportInv, OfferInv
<1>4. \A i, j \in 1 .. Len(accepted) : accepted[i] = accepted[j] => i = j
  BY DEF UniqueInv
<1> HIDE DEF n
<1>5. Exporter!ToSet(queue) \subseteq Exporter!ToSet(accepted)
      /\ Exporter!ToSet(accepted) \subseteq ExportEvents
  BY <1>1, <1>2, Elements
<1>6. Exporter!ToSet(accepted) \cap refused = {}
  BY <1>1, Elements DEF UniqueInv
<1>7. work = Exporter!Idle => work.event = "none"
  BY DEF Exporter!Idle
<1>8. ASSUME work # Exporter!Idle
      PROVE  /\ work.event \in Exporter!ToSet(accepted) \ Exporter!ToSet(queue)
             /\ work.event # "none"
  <2>1. work.event \in Exporter!ToSet(accepted)
    BY <1>1, <1>3, <1>8, Elements
  <2>2. ASSUME work.event \in Exporter!ToSet(queue) PROVE FALSE
    <3>1. PICK i \in 1 .. Len(queue) : queue[i] = work.event
      BY <1>1, <2>2, Elements
    <3>2. QED
      BY <1>2, <1>3, <1>4, <1>8, <3>1
  <2>3. work.event # "none"
    BY <1>5, <2>1, OperationsAssumption
  <2>4. QED
    BY <2>1, <2>2, <2>3
<1>9. ASSUME NEW i \in 1 .. Len(queue), NEW j \in 1 .. Len(queue), queue[i] = queue[j]
      PROVE  i = j
  <2>1. n + i = n + j
    BY <1>2, <1>4, <1>9
  <2>2. QED
    BY <1>1, <2>1
<1>10. QED
  BY <1>5, <1>6, <1>7, <1>8, <1>9

(* An event is accepted, or refused, once. *)
LEMMA UniqueStep == UniqueInv /\ [Exporter!Next]_exportVars => UniqueInv'
<1> SUFFICES ASSUME UniqueInv, [Exporter!Next]_exportVars PROVE UniqueInv'
  OBVIOUS
<1>1. ExportInv'
  BY ExportStep DEF UniqueInv
<1>2. ASSUME UNCHANGED <<accepted, refused>> PROVE UniqueInv'
  BY <1>1, <1>2 DEF UniqueInv
<1>3. ASSUME NEW ev \in ExportEvents, Exporter!Export(ev) PROVE UniqueInv'
  <2>1. accepted \in Seq(ExportEvents) /\ Len(accepted) \in Nat
    BY DEF UniqueInv, ExportInv, ExportType
  <2>2. ev \notin refused /\ \A i \in 1 .. Len(accepted) : accepted[i] # ev
    BY <1>3, <2>1, Elements DEF Exporter!Export
  <2>3. CASE Exporter!QueueFull
    BY <1>1, <1>3, <2>2, <2>3 DEF Exporter!Export, UniqueInv
  <2>4. CASE ~Exporter!QueueFull
    <3>1. accepted' = Append(accepted, ev) /\ refused' = refused
      BY <1>3, <2>4 DEF Exporter!Export
    <3>2. /\ Len(accepted') = Len(accepted) + 1 /\ accepted'[Len(accepted) + 1] = ev
          /\ \A i \in 1 .. Len(accepted) : accepted'[i] = accepted[i]
      BY <2>1, <3>1
    <3>3. \A i \in 1 .. Len(accepted') : i \in 1 .. Len(accepted) \/ i = Len(accepted) + 1
      BY <2>1, <3>2
    <3>4. \A i, j \in 1 .. Len(accepted') : accepted'[i] = accepted'[j] => i = j
      BY <2>2, <3>2, <3>3 DEF UniqueInv
    <3>5. \A i \in 1 .. Len(accepted') : accepted'[i] \notin refused'
      BY <2>2, <3>1, <3>2, <3>3 DEF UniqueInv
    <3>6. QED
      BY <1>1, <3>4, <3>5 DEF UniqueInv
  <2>5. QED
    BY <2>3, <2>4
<1>4. CASE Exporter!Receive \/ Exporter!CloseQueue \/ Exporter!CloseSinks
  BY <1>2, <1>4 DEF Exporter!Receive, Exporter!CloseQueue, Exporter!CloseSinks
<1>5. ASSUME NEW failed \in BOOLEAN, Exporter!Send(failed) PROVE UniqueInv'
  BY <1>2, <1>5 DEF Exporter!Send
<1>6. ASSUME NEW s \in Exporter!Sinks, Exporter!Stall(s) \/ Exporter!Resume(s) PROVE UniqueInv'
  BY <1>2, <1>6 DEF Exporter!Stall, Exporter!Resume
<1>7. CASE UNCHANGED exportVars
  BY <1>2, <1>7 DEF exportVars
<1>8. QED
  BY <1>3, <1>4, <1>5, <1>6, <1>7 DEF Exporter!Next

(* A refused event met a backlog of at least the queue's size. *)
LEMMA RefusedWhenFull ==
  ASSUME UniqueInv, Exporter!QueueFull
  PROVE  Cardinality(Waiting) >= ExportQueue
<1> DEFINE Q == Exporter!ToSet(queue)
           W == {work.event} \ {Exporter!Idle.event}
<1>1. IsFiniteSet(Q) /\ Cardinality(Q) = Len(queue) /\ Len(queue) \in Nat
  BY AsManyAsLong, WaitingIsAccepted DEF UniqueInv, ExportInv, ExportType
<1>2. IsFiniteSet({work.event})
  BY FS_Singleton
<1>3. IsFiniteSet(W)
  BY <1>2, FS_Difference
<1>4. IsFiniteSet(Waiting)
  BY <1>1, <1>3, FS_Union DEF Waiting
<1>5. Cardinality(Q) <= Cardinality(Waiting) /\ Cardinality(Waiting) \in Nat
  BY <1>4, FS_Subset, FS_CardinalityType DEF Waiting
<1>6. QED
  BY <1>1, <1>5, OperationsAssumption DEF Exporter!QueueFull

(* Every step of the exporter is a step of the abstract sink, or none. *)
LEMMA ExporterRefines ==
  UniqueInv /\ [Exporter!Next]_exportVars => [Exporter!Sink!Next]_(Exporter!Sink!vars)
<1> SUFFICES ASSUME UniqueInv, [Exporter!Next]_exportVars
             PROVE  [Exporter!Sink!Next]_(Exporter!Sink!vars)
  OBVIOUS
<1>1. UNCHANGED <<Waiting, Done, refused, sinksClosed>> => UNCHANGED Exporter!Sink!vars
  BY DEF Exporter!Sink!vars, Waiting, Done
<1>2. UNCHANGED <<queue, accepted, work, refused, sinksClosed>> => UNCHANGED Exporter!Sink!vars
  BY <1>1 DEF Waiting, Done
<1>3. /\ queue \in Seq(ExportEvents) /\ accepted \in Seq(ExportEvents)
      /\ Exporter!Idle.event = "none" /\ "none" \notin ExportEvents
  BY OperationsAssumption DEF UniqueInv, ExportInv, ExportType, Exporter!Idle
<1>4. ASSUME NEW ev \in ExportEvents, Exporter!Export(ev)
      PROVE  Exporter!Sink!Next
  <2>1. ev \notin Exporter!ToSet(accepted) /\ ev \notin refused /\ ~sinksClosed
        /\ UNCHANGED <<work, sinksClosed>>
    BY <1>4 DEF Exporter!Export, UniqueInv, ExportInv, OfferInv
  <2>2. ev \notin Waiting \cup Done \cup refused
    BY <2>1, WaitingIsAccepted DEF Waiting, Done, Exporter!Idle
  <2>3. CASE Exporter!QueueFull
    <3>1. refused' = refused \cup {ev} /\ UNCHANGED <<queue, accepted>>
      BY <1>4, <2>3 DEF Exporter!Export
    <3>2. UNCHANGED <<Waiting, Done>>
      BY <2>1, <3>1 DEF Waiting, Done
    <3>3. Exporter!Sink!Cardinality(Waiting) = Cardinality(Waiting)
      BY DEF Cardinality, Exporter!Sink!Cardinality
    <3>4. Cardinality(Waiting) >= ExportQueue
      BY <2>3, RefusedWhenFull
    <3>5. Exporter!Sink!Refuse(ev)
      BY <2>1, <2>2, <3>1, <3>2, <3>3, <3>4, Zenon
         DEF Exporter!Sink!Refuse, Exporter!Sink!New, Waiting, Done
    <3>6. QED
      BY <3>5 DEF Exporter!Sink!Next
  <2>4. CASE ~Exporter!QueueFull
    <3>1. queue' = Append(queue, ev) /\ accepted' = Append(accepted, ev) /\ UNCHANGED refused
      BY <1>4, <2>4 DEF Exporter!Export
    <3>2. /\ Exporter!ToSet(queue') = Exporter!ToSet(queue) \cup {ev}
          /\ Exporter!ToSet(accepted') = Exporter!ToSet(accepted) \cup {ev}
      BY <1>3, <3>1, ElementsOfAppend
    <3>3. Waiting' = Waiting \cup {ev} /\ Done' = Done
      BY <2>1, <3>2 DEF Waiting, Done
    <3>4. Exporter!Sink!Accept(ev)
      BY <2>1, <2>2, <3>1, <3>3, Zenon
         DEF Exporter!Sink!Accept, Exporter!Sink!New, Waiting, Done
    <3>5. QED
      BY <3>4 DEF Exporter!Sink!Next
  <2>5. QED
    BY <2>3, <2>4
<1>5. ASSUME Exporter!Receive PROVE UNCHANGED Exporter!Sink!vars
  <2>1. /\ work = Exporter!Idle /\ queue # <<>> /\ queue' = Tail(queue)
        /\ work' = [event |-> Head(queue), sink |-> 1]
        /\ UNCHANGED <<accepted, refused, sinksClosed>>
    BY <1>5 DEF Exporter!Receive
  <2>2. work.event = "none" /\ work'.event = Head(queue) /\ Head(queue) \in ExportEvents
    BY <1>3, <2>1 DEF Exporter!Idle
  <2>3. Exporter!ToSet(queue) = {Head(queue)} \cup Exporter!ToSet(queue')
    BY <1>3, <2>1, ElementsOfTail
  <2>4. Waiting' = Waiting
    BY <1>3, <2>2, <2>3 DEF Waiting
  <2>5. Done' = Done
    BY <1>3, <2>1, <2>2, <2>3, WaitingIsAccepted DEF Done
  <2>6. QED
    BY <1>1, <2>1, <2>4, <2>5
<1>6. ASSUME NEW failed \in BOOLEAN, Exporter!Send(failed)
      PROVE  [Exporter!Sink!Next]_(Exporter!Sink!vars)
  <2>1. /\ work # Exporter!Idle
        /\ work' = IF work.sink = NSinks THEN Exporter!Idle ELSE [work EXCEPT !.sink = @ + 1]
        /\ UNCHANGED <<queue, accepted, refused, sinksClosed>>
    BY <1>6 DEF Exporter!Send, Exporter!AfterSend
  <2>2. work \in [event : ExportEvents, sink : Exporter!Sinks]
    BY <2>1 DEF UniqueInv, ExportInv, ExportType
  <2>3. CASE work.sink # NSinks
    <3>1. work'.event = work.event
      BY <2>1, <2>2, <2>3
    <3>2. UNCHANGED <<Waiting, Done>>
      BY <2>1, <3>1 DEF Waiting, Done
    <3>3. QED
      BY <1>1, <2>1, <3>2
  <2>4. CASE work.sink = NSinks
    <3> DEFINE e == work.event
    <3>1. e \in Exporter!ToSet(accepted) \ Exporter!ToSet(queue) /\ e # "none" /\ e \in ExportEvents
      BY <2>1, <2>2, WaitingIsAccepted
    <3>2. work'.event = "none"
      BY <1>3, <2>1, <2>4
    <3>3. Exporter!ToSet(accepted) \subseteq ExportEvents
      BY WaitingIsAccepted
    <3>4. e \in Waiting /\ Waiting' = Waiting \ {e} /\ Done' = Done \cup {e}
      BY <1>3, <2>1, <3>1, <3>2, <3>3 DEF Waiting, Done
    <3>5. Exporter!Sink!Finish(e)
      BY <2>1, <3>4, Zenon DEF Exporter!Sink!Finish, Waiting, Done
    <3>6. QED
      BY <3>1, <3>5 DEF Exporter!Sink!Next
  <2>5. QED
    BY <2>3, <2>4
<1>7. CASE Exporter!CloseQueue
  BY <1>2, <1>7 DEF Exporter!CloseQueue
<1>8. ASSUME Exporter!CloseSinks PROVE Exporter!Sink!Next
  <2>1. /\ work = Exporter!Idle /\ queue = <<>> /\ sinksClosed' = TRUE
        /\ UNCHANGED <<queue, work, accepted, refused>>
    BY <1>8 DEF Exporter!CloseSinks, Exporter!WorkerDone
  <2>2. Exporter!ToSet(queue) = {}
    BY <2>1 DEF Exporter!ToSet
  <2>3. Waiting = {} /\ UNCHANGED <<Waiting, Done>>
    BY <2>1, <2>2 DEF Waiting, Done
  <2>4. Exporter!Sink!Shut
    BY <2>1, <2>3, Zenon DEF Exporter!Sink!Shut, Waiting, Done
  <2>5. QED
    BY <2>4 DEF Exporter!Sink!Next
<1>9. ASSUME NEW s \in Exporter!Sinks, Exporter!Stall(s) \/ Exporter!Resume(s)
      PROVE  UNCHANGED Exporter!Sink!vars
  BY <1>2, <1>9 DEF Exporter!Stall, Exporter!Resume
<1>10. CASE UNCHANGED exportVars
  BY <1>2, <1>10 DEF exportVars
<1>11. QED
  BY <1>4, <1>5, <1>6, <1>7, <1>8, <1>9, <1>10 DEF Exporter!Next

(* The exporter keeps the promise the query path relies on, for any queue and
   any number of sinks: an event is refused only when the queue is full, what
   was accepted is finished once, after the last sink, and Close returns with
   nothing left (eventExporter.Export, run, Close). *)
THEOREM ExporterImplementsAsyncSink == MCSpec => Exporter!ImplementsAsyncSink
<1>1. MCInit => UniqueInv /\ Exporter!Sink!Init
  <2> SUFFICES ASSUME MCInit PROVE UniqueInv /\ Exporter!Sink!Init
    OBVIOUS
  <2>1. /\ queue = <<>> /\ accepted = <<>> /\ refused = {} /\ work = Exporter!Idle
        /\ sinksClosed = FALSE
    BY DEF MCInit, Exporter!Init
  <2>2. ExportInv
    BY OperationsAssumption
       DEF MCInit, Exporter!Init, ExportInv, ExportType, OfferInv, Awaits
  <2>3. UniqueInv
    BY <2>1, <2>2 DEF UniqueInv
  <2>4. Exporter!ToSet(queue) = {} /\ Exporter!ToSet(accepted) = {}
    BY <2>1 DEF Exporter!ToSet
  <2>5. Exporter!Sink!Init
    BY <2>1, <2>4 DEF Exporter!Sink!Init
  <2>6. QED
    BY <2>3, <2>5
<1>2. UniqueInv /\ [MCNext]_mcVars => UniqueInv' /\ [Exporter!Sink!Next]_(Exporter!Sink!vars)
  <2> SUFFICES ASSUME UniqueInv, [MCNext]_mcVars
               PROVE  UniqueInv' /\ [Exporter!Sink!Next]_(Exporter!Sink!vars)
    OBVIOUS
  <2>1. [Exporter!Next]_exportVars
    BY DEF MCNext, mcVars, Pair, OfDog, OfFleet, OfSwitch, OfExporter, OfNrd
  <2>2. QED
    BY <2>1, UniqueStep, ExporterRefines
<1>3. QED
  BY <1>1, <1>2, PTL DEF MCSpec, Exporter!ImplementsAsyncSink, Exporter!Sink!Spec
=============================================================================
