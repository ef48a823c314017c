---------------------------- MODULE FleetStatus ----------------------------
(***************************************************************************)
(* Heartbeats of a fleet: boxes that post their status and the store that  *)
(* shows each site up or down (internal/fleet/store.go). The store's route *)
(* asks for a token and a site id. This repository's Reporter              *)
(* (internal/heartbeat/heartbeat.go) sends neither and is refused; what    *)
(* the store accepts comes from agents outside the repository, of which    *)
(* nothing is assumed but that a stopped box sends no new post. Time       *)
(* passes in steps; a record's age stops one past StaleAfter.              *)
(***************************************************************************)
EXTENDS Integers

CONSTANTS
  Agents, Reporters,   \* boxes, by what posts for them
  Interval,            \* Reporter.interval
  Timeout,             \* defaultHTTPTimeout
  StaleAfter           \* Store.staleAfter

Boxes == Agents \cup Reporters

VARIABLES
  boxUp,      \* the box runs
  due,        \* a tick waits in the reporter's channel, or the initial report does
  timer,      \* time since the reporter's ticker last fired
  waiting,    \* how long the reporter's POST has waited, or NotPosting
  transit,    \* boxes with a post under way to the store
  sites,      \* Store.sites: the age of each site's record, or Unknown
  silence     \* history: time since the reporter last began a POST, or started

fleetVars == <<boxUp, due, timer, waiting, transit, sites, silence>>

NotPosting == -1
Unknown == -1
AgeMax == StaleAfter + 1

(* The longest a reporter may stay silent. *)
Pace == IF Interval > Timeout THEN Interval ELSE Timeout

Init ==
  /\ boxUp = [b \in Boxes |-> TRUE]
  /\ due = [r \in Reporters |-> TRUE]
  /\ timer = [r \in Reporters |-> 0]
  /\ waiting = [r \in Reporters |-> NotPosting]
  /\ transit = {}
  /\ sites = [b \in Boxes |-> Unknown]
  /\ silence = [r \in Reporters |-> 0]

(* loop, reportOnce: collect a snapshot and post it. *)
ReportOnce(r) ==
  /\ boxUp[r] /\ due[r] /\ waiting[r] = NotPosting
  /\ due' = [due EXCEPT ![r] = FALSE]
  /\ waiting' = [waiting EXCEPT ![r] = 0]
  /\ silence' = [silence EXCEPT ![r] = 0]
  /\ transit' = transit \cup {r}
  /\ UNCHANGED <<boxUp, timer, sites>>

(* An agent posts whenever it likes. *)
AgentPost(b) ==
  /\ b \in Agents /\ boxUp[b] /\ b \notin transit
  /\ transit' = transit \cup {b}
  /\ UNCHANGED <<boxUp, due, timer, waiting, sites, silence>>

(* RequireHeartbeatToken and the binding of site_id: the Reporter's request
   has neither header nor field. *)
Accepted(b) == b \notin Reporters

(* Record stamps the arrival. *)
Stamp(b) == 0

(* PostFleetHeartbeat; its answer, 2xx or not, ends the reporter's POST. *)
PostFleetHeartbeat(b) ==
  /\ b \in transit
  /\ transit' = transit \ {b}
  /\ sites' = IF Accepted(b) THEN [sites EXCEPT ![b] = Stamp(b)] ELSE sites
  /\ waiting' = [r \in Reporters |-> IF r = b THEN NotPosting ELSE waiting[r]]
  /\ UNCHANGED <<boxUp, due, timer, silence>>

(* The network drops a post. *)
Lose(b) ==
  /\ b \in transit
  /\ transit' = transit \ {b}
  /\ UNCHANGED <<boxUp, due, timer, waiting, sites, silence>>

(* client.Do gives up at its timeout; a dropped post ends this way. What was
   still under way is refused whenever it arrives. *)
TimedOut_Never(r) == FALSE
TimedOut(r) == waiting[r] = Timeout

GiveUp(r) ==
  /\ TimedOut(r)
  /\ waiting' = [waiting EXCEPT ![r] = NotPosting]
  /\ transit' = transit \ {r}
  /\ UNCHANGED <<boxUp, due, timer, sites, silence>>

(* A stopped reporter's post is refused too; an agent's may still arrive. *)
Crash(b) ==
  /\ boxUp[b]
  /\ boxUp' = [boxUp EXCEPT ![b] = FALSE]
  /\ due' = [r \in Reporters |-> due[r] /\ r # b]
  /\ waiting' = [r \in Reporters |-> IF r = b THEN NotPosting ELSE waiting[r]]
  /\ transit' = transit \ ({b} \cap Reporters)
  /\ UNCHANGED <<timer, sites, silence>>

(* Start: the initial report is due at once, the ticker begins. *)
Restart(b) ==
  /\ ~boxUp[b]
  /\ boxUp' = [boxUp EXCEPT ![b] = TRUE]
  /\ due' = [r \in Reporters |-> due[r] \/ r = b]
  /\ timer' = [r \in Reporters |-> IF r = b THEN 0 ELSE timer[r]]
  /\ silence' = [r \in Reporters |-> IF r = b THEN 0 ELSE silence[r]]
  /\ UNCHANGED <<waiting, transit, sites>>

(* The store is kept in memory: NewStore begins with no site. *)
StoreRestart ==
  /\ sites' = [b \in Boxes |-> Unknown]
  /\ UNCHANGED <<boxUp, due, timer, waiting, transit, silence>>

(* The loop takes the next tick whether the last report failed or not. *)
LoopRuns_UntilRefused(r) == boxUp[r] /\ Accepted(r)
LoopRuns(r) == boxUp[r]

(* Time passes: the loops are prompt and a POST ends by its timeout. The
   ticker's channel holds one tick; the history stops one past Pace. *)
Pass ==
  /\ \A r \in Reporters : ~(boxUp[r] /\ due[r] /\ waiting[r] = NotPosting) /\ ~TimedOut(r)
  /\ timer' = [r \in Reporters |-> (timer[r] + 1) % Interval]
  /\ due' = [r \in Reporters |-> due[r] \/ (LoopRuns(r) /\ timer[r] + 1 = Interval)]
  /\ waiting' = [r \in Reporters |-> IF waiting[r] = NotPosting THEN NotPosting ELSE waiting[r] + 1]
  /\ silence' = [r \in Reporters |-> IF boxUp[r] /\ silence[r] <= Pace THEN silence[r] + 1 ELSE silence[r]]
  /\ sites' = [b \in Boxes |-> IF sites[b] = Unknown \/ sites[b] = AgeMax THEN sites[b] ELSE sites[b] + 1]
  /\ UNCHANGED <<boxUp, transit>>

Next ==
  \/ Pass \/ StoreRestart
  \/ \E r \in Reporters : ReportOnce(r) \/ GiveUp(r)
  \/ \E b \in Boxes : \/ AgentPost(b) \/ PostFleetHeartbeat(b) \/ Lose(b)
                      \/ Crash(b) \/ Restart(b)

(* Snapshot: a site is down once its record is older than staleAfter. *)
Stale(age) == age > StaleAfter

ShownDown(b) == sites[b] # Unknown /\ Stale(sites[b])

-----------------------------------------------------------------------------
(* "bounds each POST so a slow collector never stalls the loop": a running
   reporter begins a POST at least once per interval, or per timeout where that
   is longer, whether its posts are answered, refused, lost or stalled. *)
ReporterKeepsPace == \A r \in Reporters : boxUp[r] => silence[r] <= Pace

(* A site whose box stopped for good is shown down for good, late posts of the
   box notwithstanding. *)
StoppedIsShownDown ==
  \A b \in Agents : <>[]~boxUp[b] => <>[](sites[b] = Unknown \/ ShownDown(b))

(* Failed reports are never fatal: a running reporter posts again and again,
   although each post is refused. *)
KeepsReporting ==
  \A r \in Reporters : <>[]boxUp[r] => []<>(waiting[r] # NotPosting) /\ []<>(waiting[r] = NotPosting)
=============================================================================
