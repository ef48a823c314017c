---------------------------- MODULE MCOperations ----------------------------
(***************************************************************************)
(* The parts that keep a deployment running, for TLC: the HA pair, the     *)
(* watchdog, the fleet's heartbeats, the category switches, the event      *)
(* exporter and the NRD feed. They share no state, so a run follows one of *)
(* them, chosen at the start; the others stand still.                      *)
(***************************************************************************)
EXTENDS HAPair, Integers

CONSTANTS
  WatchdogThreshold, MaxRun,
  Agents, Reporters, Interval, Timeout, StaleAfter,
  Categories, Collections, Feeds, Togglers, MaxToggles,
  ExportEvents, NSinks, ExportQueue, MaxVersion

(* Any integer may be configured as the watchdog's threshold; the ticker's
   interval is positive, a box is an agent's or a reporter's, and an exporter has
   at least one sink. *)
ASSUME OperationsAssumption ==
  /\ WatchdogThreshold \in Int /\ MaxRun \in Nat
  /\ Interval \in Nat \ {0} /\ Timeout \in Nat /\ StaleAfter \in Nat /\ Agents \cap Reporters = {}
  /\ "none" \notin Categories \cup Collections
  /\ NSinks \in Nat \ {0} /\ ExportQueue \in Nat /\ "none" \notin ExportEvents

VARIABLES
  part,
  accepting, started, checked, unhealthy, healthy, run, recoveries,
  boxUp, due, timer, waiting, transit, sites, silence,
  row, entries, req, toggles, last,
  serving, queue, work, stuck, tried, sinksClosed, accepted, refused,
  feed, nrdSet, etag, refresh

Dog == INSTANCE Watchdog WITH FailureThreshold <- WatchdogThreshold,
                              probe <- checked, failures <- unhealthy
Fleet == INSTANCE FleetStatus
Switch == INSTANCE CategoryToggle
Exporter == INSTANCE EventExporter
Nrd == INSTANCE NrdFeed

pairVars   == <<up, linkUp, probe, peerUp, failures, successes, state, recent>>
dogVars    == <<accepting, started, checked, unhealthy, healthy, run, recoveries>>
fleetVars  == <<boxUp, due, timer, waiting, transit, sites, silence>>
toggleVars == <<row, entries, req, toggles, last>>
exportVars == <<serving, queue, work, stuck, tried, sinksClosed, accepted, refused>>
nrdVars    == <<feed, nrdSet, etag, refresh>>
mcVars == <<part, pairVars, dogVars, fleetVars, toggleVars, exportVars, nrdVars>>

MCInit ==
  /\ part \in {"pair", "watchdog", "fleet", "switches", "exporter", "nrd"}
  /\ Init /\ Dog!Init /\ Fleet!Init /\ Switch!Init /\ Exporter!Init /\ Nrd!Init

Pair(A)       == part = "pair" /\ A /\ UNCHANGED <<part, dogVars, fleetVars, toggleVars, exportVars, nrdVars>>
OfDog(A)      == part = "watchdog" /\ A /\ UNCHANGED <<part, pairVars, fleetVars, toggleVars, exportVars, nrdVars>>
OfFleet(A)    == part = "fleet" /\ A /\ UNCHANGED <<part, pairVars, dogVars, toggleVars, exportVars, nrdVars>>
OfSwitch(A)   == part = "switches" /\ A /\ UNCHANGED <<part, pairVars, dogVars, fleetVars, exportVars, nrdVars>>
OfExporter(A) == part = "exporter" /\ A /\ UNCHANGED <<part, pairVars, dogVars, fleetVars, toggleVars, nrdVars>>
OfNrd(A)      == part = "nrd" /\ A /\ UNCHANGED <<part, pairVars, dogVars, fleetVars, toggleVars, exportVars>>

MCNext == \/ Pair(Next) \/ OfDog(Dog!Next) \/ OfFleet(Fleet!Next)
          \/ OfSwitch(Switch!Next) \/ OfExporter(Exporter!Next) \/ OfNrd(Nrd!Next)

(* The fairness of the parts: tickers keep firing and a bounded call ends. For
   the fleet, the reporting loops run, time passes however often a box
   restarts (hence SF), and the network either loses a post or delivers it.
   The exporter's worker sends whenever its sink takes data again and again,
   and the NRD feed's server answers again and again. *)
MCSpec ==
  /\ MCInit /\ [][MCNext]_mcVars
  /\ \A n \in Nodes : WF_mcVars(Pair(HealthCheck(n))) /\ WF_mcVars(Pair(Tick(n)))
  /\ SF_mcVars(OfFleet(Fleet!Pass))
  /\ \A r \in Reporters : WF_mcVars(OfFleet(Fleet!ReportOnce(r))) /\ WF_mcVars(OfFleet(Fleet!GiveUp(r)))
  /\ \A b \in Agents : WF_mcVars(OfFleet(Fleet!PostFleetHeartbeat(b)))
  /\ WF_mcVars(OfExporter(Exporter!Receive)) /\ WF_mcVars(OfExporter(Exporter!CloseSinks))
  /\ SF_mcVars(OfExporter(Exporter!Send(TRUE) \/ Exporter!Send(FALSE)))
  /\ SF_mcVars(OfNrd(Nrd!Fetch200))
  /\ WF_mcVars(OfNrd(Nrd!Load \/ Nrd!LoadErr)) /\ WF_mcVars(OfNrd(Nrd!StoreTag))

-----------------------------------------------------------------------------
(* The properties of the instances, stated in their modules; those of HAPair
   are used as they are. *)

(* Watchdog: one recovery per full threshold of unhealthy probes. *)
RecoveryPerThreshold == Dog!RecoveryPerThreshold
(* FleetStatus: whatever becomes of its posts, a reporter is never silent for
   longer than its interval or its timeout. *)
ReporterKeepsPace == Fleet!ReporterKeepsPace
(* FleetStatus: a stopped box is shown down for good, and failed reports do not
   end the reporting of a running one. *)
FleetViewFollows == part = "fleet" => Fleet!StoppedIsShownDown /\ Fleet!KeepsReporting
(* HAPair: a lasting failure of the primary is taken over, and a healed pair
   settles on the primary. *)
PairSettles == part = "pair" => BackupTakesOver /\ BackupYields
(* CategoryToggle: a successful request that ran alone is in force. *)
SuccessIsApplied == Switch!SuccessIsApplied
(* EventExporter: every sink is offered every accepted event, in order. *)
SinksOfferedAll == Exporter!SinksOfferedAll
(* EventExporter: it implements the abstract sink, and Close returns unless a
   sink is stuck for good. *)
ExporterDelivers == Exporter!ImplementsAsyncSink /\ (part = "exporter" => Exporter!ExporterCloses)
(* NrdFeed: the last good version of the feed is in force in the end. *)
FeedTakesEffect == part = "nrd" => Nrd!FeedTakesEffect
=============================================================================
