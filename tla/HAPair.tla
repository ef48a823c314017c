------------------------------- MODULE HAPair -------------------------------
(***************************************************************************)
(* The active-passive pair of internal/ha/manager.go: two nodes that each  *)
(* probe the other over TCP, crash and restart, and may be cut off from    *)
(* each other. A node's Manager decides from its own probes alone.         *)
(***************************************************************************)
EXTENDS Naturals

CONSTANTS
  Primary, Backup,      \* the two nodes, with these roles
  FailureThreshold,     \* failed probes before the peer counts as down
  RecoveryThreshold     \* successful probes before it counts as up again

ASSUME HAAssumption ==
  /\ Primary # Backup
  /\ FailureThreshold \in Nat \ {0}
  /\ RecoveryThreshold \in Nat \ {0}

Nodes == {Primary, Backup}
Peer(n) == IF n = Primary THEN Backup ELSE Primary

VARIABLES
  up,         \* up[n]: node n's process runs
  linkUp,     \* the nodes can reach each other
  probe,      \* probe[n]: outcome of n's dial not yet fed to Tick
  peerUp,     \* Manager.peerUp
  failures,   \* Manager.consecFailures
  successes,  \* Manager.consecSuccesses
  state,      \* Manager.state
  recent      \* history: recent[n][i] is the i-th last probe Tick saw since n's start

mgrVars == <<probe, peerUp, failures, successes, state, recent>>
vars == <<up, linkUp, mgrVars>>

NoProbe == "none"

(* The history is as long as the longer of the two thresholds. *)
HistoryLength == IF FailureThreshold > RecoveryThreshold THEN FailureThreshold ELSE RecoveryThreshold
NoHistory == [i \in 1 .. HistoryLength |-> NoProbe]
Shifted(h, p) == [i \in 1 .. HistoryLength |-> IF i = 1 THEN p ELSE h[i - 1]]

(* desiredStateLocked. *)
DesiredState(n, peerAlive) ==
  IF n = Primary \/ ~peerAlive THEN "active" ELSE "standby"

(* New: optimistic about the peer. *)
NewPeerUp(n) == TRUE

Init ==
  /\ up = [n \in Nodes |-> TRUE]
  /\ linkUp = TRUE
  /\ probe = [n \in Nodes |-> NoProbe]
  /\ peerUp = [n \in Nodes |-> NewPeerUp(n)]
  /\ failures = [n \in Nodes |-> 0]
  /\ successes = [n \in Nodes |-> 0]
  /\ state = [n \in Nodes |-> DesiredState(n, NewPeerUp(n))]
  /\ recent = [n \in Nodes |-> NoHistory]

(* healthCheck: one bounded TCP dial. Its result may be out of date by the
   time Tick uses it. *)
Reachable_LinkOnly(n) == linkUp
Reachable(n) == up[Peer(n)] /\ linkUp

HealthCheck(n) ==
  /\ up[n] /\ probe[n] = NoProbe
  /\ probe' = [probe EXCEPT ![n] = IF Reachable(n) THEN "ok" ELSE "failed"]
  /\ UNCHANGED <<up, linkUp, peerUp, failures, successes, state, recent>>

(* The counters are compared with their threshold only, so they saturate
   there. A probe of the other kind resets a counter. *)
Succeeded_NoReset(n, c) == c
Succeeded(n, c) == IF probe[n] = "ok" THEN 0 ELSE c

CountUp(c, threshold) == IF c < threshold THEN c + 1 ELSE c

(* Tick: hysteresis on the peer's liveness, then the desired state. *)
Tick(n) ==
  /\ up[n] /\ probe[n] # NoProbe
  /\ IF probe[n] = "ok"
     THEN /\ successes' = [successes EXCEPT ![n] = CountUp(@, RecoveryThreshold)]
          /\ failures' = [failures EXCEPT ![n] = Succeeded(n, @)]
          /\ peerUp' = [peerUp EXCEPT ![n] = @ \/ successes'[n] >= RecoveryThreshold]
     ELSE /\ failures' = [failures EXCEPT ![n] = CountUp(@, FailureThreshold)]
          /\ successes' = [successes EXCEPT ![n] = 0]
          /\ peerUp' = [peerUp EXCEPT ![n] = @ /\ failures'[n] < FailureThreshold]
  /\ state' = [state EXCEPT ![n] = DesiredState(n, peerUp'[n])]
  /\ probe' = [probe EXCEPT ![n] = NoProbe]
  /\ recent' = [recent EXCEPT ![n] = Shifted(@, probe[n])]
  /\ UNCHANGED <<up, linkUp>>

Crash(n) ==
  /\ up[n]
  /\ up' = [up EXCEPT ![n] = FALSE]
  /\ UNCHANGED <<linkUp, mgrVars>>

(* The process comes back with a new Manager. *)
Restart(n) ==
  /\ ~up[n]
  /\ up' = [up EXCEPT ![n] = TRUE]
  /\ probe' = [probe EXCEPT ![n] = NoProbe]
  /\ peerUp' = [peerUp EXCEPT ![n] = NewPeerUp(n)]
  /\ failures' = [failures EXCEPT ![n] = 0]
  /\ successes' = [successes EXCEPT ![n] = 0]
  /\ state' = [state EXCEPT ![n] = DesiredState(n, NewPeerUp(n))]
  /\ recent' = [recent EXCEPT ![n] = NoHistory]
  /\ UNCHANGED linkUp

LinkChange ==
  /\ linkUp' = ~linkUp
  /\ UNCHANGED <<up, mgrVars>>

Next ==
  \/ \E n \in Nodes : HealthCheck(n) \/ Tick(n) \/ Crash(n) \/ Restart(n)
  \/ LinkChange

Spec == Init /\ [][Next]_vars

(* A running node's ticker keeps firing and the dial is bounded by
   DialTimeout; crashes, restarts and the link owe nobody anything. *)
FairSpec == Spec /\ \A n \in Nodes : WF_vars(HealthCheck(n)) /\ WF_vars(Tick(n))

-----------------------------------------------------------------------------
Active(n) == up[n] /\ state[n] = "active"

(* Every variable has its type. *)
TypeOK ==
  /\ up \in [Nodes -> BOOLEAN]
  /\ linkUp \in BOOLEAN
  /\ probe \in [Nodes -> {NoProbe, "ok", "failed"}]
  /\ peerUp \in [Nodes -> BOOLEAN]
  /\ failures \in [Nodes -> 0 .. FailureThreshold]
  /\ successes \in [Nodes -> 0 .. RecoveryThreshold]
  /\ state \in [Nodes -> {"active", "standby"}]
  /\ recent \in [Nodes -> [1 .. HistoryLength -> {NoProbe, "ok", "failed"}]]

(* The last k probes of a history all came out as p. *)
LastAll(h, k, p) == \A i \in 1 .. k : h[i] = p

(* Not too late: a backup whose last FailureThreshold probes all failed is
   active, one whose last RecoveryThreshold probes all succeeded is on standby,
   and so is one that has not probed since its start. A primary is active. *)
StateIsDue ==
  /\ state[Primary] = "active"
  /\ LastAll(recent[Backup], FailureThreshold, "failed") => state[Backup] = "active"
  /\ LastAll(recent[Backup], RecoveryThreshold, "ok") => state[Backup] = "standby"
  /\ recent[Backup][1] = NoProbe => state[Backup] = "standby"

(* Not too early: a node takes over only when its last FailureThreshold probes
   all failed, and yields only when its last RecoveryThreshold probes all
   succeeded or it was restarted. *)
ChangeIsEarned ==
  \A n \in Nodes :
    /\ state[n] = "standby" /\ state'[n] = "active"
         => LastAll(recent'[n], FailureThreshold, "failed")
    /\ state[n] = "active" /\ state'[n] = "standby"
         => ~up[n] \/ LastAll(recent'[n], RecoveryThreshold, "ok")

(* Tick's hysteresis "to avoid flapping on a single blip": a node changes state
   on a full run of identical probes made since its last start, neither earlier
   nor later. *)
HysteresisHolds == []StateIsDue /\ [][ChangeIsEarned]_vars

(* If the primary stays down and the backup stays up, the backup takes over
   and keeps the address. *)
BackupTakesOver ==
  <>[](up[Backup] /\ ~up[Primary]) => <>[]Active(Backup)

(* If both nodes stay up and reachable, the pair settles on exactly one active
   node, the primary, whatever crashes and partitions came before. *)
BackupYields ==
  <>[](up[Backup] /\ up[Primary] /\ linkUp)
    => <>[](Active(Primary) /\ ~Active(Backup))

(* "Exactly one node is active (holds the VIP) at a time": never both. *)
AtMostOneActive == ~(Active(Primary) /\ Active(Backup))
=============================================================================
