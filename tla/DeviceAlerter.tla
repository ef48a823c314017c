--------------------------- MODULE DeviceAlerter ---------------------------
(***************************************************************************)
(* The infected-device alerter of internal/alert/alert.go: blocked hits    *)
(* per client in a sliding window. RecordBlocked reads the clock before it *)
(* takes the mutex and calls the sink after it released it.                *)
(***************************************************************************)
EXTENDS Integers, FiniteSets

CONSTANTS
  Devices, Blockers,      \* client addresses, and the query handlers that block
  AlertThreshold,         \* Config.Threshold, positive: alerting is on
  AlertWindow,            \* Config.Window
  MaxHits,                \* bound on the hits of a client
  MaxTime                 \* bound on the clock

VARIABLES
  clock,
  call,       \* call[b]: RecordBlocked of b outside the lock
  hits,       \* Alerter.counters: the hits of each client, numbered in order
  suspected,  \* Alerter.suspected: the latest alert of a client
  sent,       \* history: alerts of each client handed to the sink
  fired,      \* history: alerts fired for each client
  all,        \* history: every hit of a client
  since       \* history: every hit of a client since its last alert

alertVars == <<call, hits, suspected, sent, fired, all, since>>

NoAlert == [firstHit |-> 0, firedAt |-> 0, hits |-> 0]
Returned == [at |-> "returned", client |-> "none", now |-> 0]

Init ==
  /\ clock = 0
  /\ call = [b \in Blockers |-> Returned]
  /\ hits = [c \in Devices |-> {}]
  /\ suspected = [c \in Devices |-> NoAlert]
  /\ sent = [c \in Devices |-> 0] /\ fired = [c \in Devices |-> 0]
  /\ all = [c \in Devices |-> 0]
  /\ since = [c \in Devices |-> {}]

(* RecordBlocked up to the lock: now and the cutoff are fixed. *)
ReadClock(b, c) ==
  /\ call[b] = Returned
  /\ call' = [call EXCEPT ![b] = [at |-> "lock", client |-> c, now |-> clock]]
  /\ UNCHANGED <<clock, hits, suspected, sent, fired, all, since>>

(* The hits still inside the window. *)
Kept_TooFew(c, now) == {h \in hits[c] : h.at > now - AlertWindow + 1}
Kept(c, now) == {h \in hits[c] : h.at > now - AlertWindow}

(* This hit is appended to the client's slice, whose first hit is hits[0]. *)
Hit(c, now) == [no |-> all[c] + 1, at |-> now]
First(s) == CHOOSE h \in s : \A g \in s : h.no <= g.no

(* What remains of the counter after an alert. *)
AfterAlert(s) == {}

Count(c) ==
  /\ all[c] < MaxHits
  /\ all' = [all EXCEPT ![c] = @ + 1]

(* RecordBlocked under the lock, below the threshold. *)
CountHit(b) ==
  LET c   == call[b].client
      now == call[b].now
      s   == Kept(c, now) \cup {Hit(c, now)}
  IN /\ call[b].at = "lock" /\ Count(c)
     /\ Cardinality(s) < AlertThreshold
     /\ hits' = [hits EXCEPT ![c] = s]
     /\ since' = [since EXCEPT ![c] = @ \cup {Hit(c, now)}]
     /\ call' = [call EXCEPT ![b] = Returned]
     /\ UNCHANGED <<clock, suspected, sent, fired>>

(* RecordBlocked under the lock, threshold reached: the alert is remembered
   and the counter starts again. *)
Fire(b) ==
  LET c   == call[b].client
      now == call[b].now
      s   == Kept(c, now) \cup {Hit(c, now)}
  IN /\ call[b].at = "lock" /\ Count(c)
     /\ Cardinality(s) >= AlertThreshold
     /\ suspected' = [suspected EXCEPT ![c] =
                        [firstHit |-> First(s).at, firedAt |-> now, hits |-> Cardinality(s)]]
     /\ hits' = [hits EXCEPT ![c] = AfterAlert(s)]
     /\ fired' = [fired EXCEPT ![c] = @ + 1]
     /\ since' = [since EXCEPT ![c] = {}]
     /\ call' = [call EXCEPT ![b].at = "sink"]
     /\ UNCHANGED <<clock, sent>>

(* The sink runs without the lock. *)
SinkAlert(b) ==
  /\ call[b].at = "sink"
  /\ sent' = [sent EXCEPT ![call[b].client] = @ + 1]
  /\ call' = [call EXCEPT ![b] = Returned]
  /\ UNCHANGED <<clock, hits, suspected, fired, all, since>>

Tick == clock < MaxTime /\ clock' = clock + 1 /\ UNCHANGED alertVars

Next ==
  \/ Tick
  \/ \E b \in Blockers :
       CountHit(b) \/ Fire(b) \/ SinkAlert(b) \/ \E c \in Devices : ReadClock(b, c)

-----------------------------------------------------------------------------
(* No hit counts towards two alerts, every alert took exactly the threshold
   inside the window, and each is handed to the sink once: what is fired but not sent is in the
   hands of a handler. *)
AlertsAreEarned ==
  \A c \in Devices :
    /\ fired[c] * AlertThreshold + Cardinality(hits[c]) <= all[c]
    /\ fired[c] > 0 => /\ suspected[c].hits = AlertThreshold
                       /\ suspected[c].firstHit > suspected[c].firedAt - AlertWindow
    /\ fired[c] = sent[c] + Cardinality({b \in Blockers : call[b].at = "sink" /\ call[b].client = c})

(* A burst is not missed: the hits since a client's last alert that lie in the
   window ending now are fewer than the threshold, however the clock reads of
   the handlers were interleaved. *)
NoMissedBurst ==
  \A c \in Devices :
    Cardinality({h \in since[c] : h.at > clock - AlertWindow}) < AlertThreshold

(* The alerts are those the hits call for. *)
AlertsMatchHits == AlertsAreEarned /\ NoMissedBurst

(* "oldest hit still inside the window": the reported first hit precedes the
   alert. Handlers that read the clock in one order and lock in the other break
   it. *)
FirstHitPrecedesAlert == \A c \in Devices : suspected[c].firstHit <= suspected[c].firedAt
=============================================================================
