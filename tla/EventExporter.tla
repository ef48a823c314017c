--------------------------- MODULE EventExporter ---------------------------
(***************************************************************************)
(* The event exporter of internal/dnsengine/export.go: a bounded queue,    *)
(* dropped on when full, that one worker drains into the sinks one after   *)
(* the other, and Close, which Engine.Shutdown calls after the handlers    *)
(* are done (that order is QueryLogWriter's subject).                      *)
(***************************************************************************)
EXTENDS Naturals, Sequences, FiniteSets, SequencesExt

CONSTANTS
  ExportEvents,   \* the query events of a behaviour
  NSinks,         \* sinks of the exporter: syslog, webhook
  ExportQueue     \* exportQueueSize

Sinks == 1 .. NSinks

VARIABLES
  serving,      \* handlers run; afterwards the queue channel is closed
  queue,        \* the channel
  work,         \* the event the worker holds and the sink it is at
  stuck,        \* sinks whose peer takes nothing: a TCP write has no deadline
  tried,        \* tried[s]: the events Send was called with, in order
  sinksClosed,  \* Close has returned
  accepted,     \* history: the events put in the queue, in order
  refused       \* history: the events dropped

exportVars == <<serving, queue, work, stuck, tried, sinksClosed, accepted, refused>>

Idle == [event |-> "none", sink |-> 0]

Init ==
  /\ serving = TRUE
  /\ queue = <<>> /\ work = Idle /\ stuck = {}
  /\ tried = [s \in Sinks |-> <<>>]
  /\ sinksClosed = FALSE
  /\ accepted = <<>> /\ refused = {}

(* Export, the first call of logQuery. *)
QueueFull == Len(queue) >= ExportQueue

Export(ev) ==
  /\ serving /\ ev \notin ToSet(accepted) \cup refused
  /\ IF QueueFull
     THEN refused' = refused \cup {ev} /\ UNCHANGED <<queue, accepted>>
     ELSE /\ queue' = Append(queue, ev)
          /\ accepted' = Append(accepted, ev)
          /\ UNCHANGED refused
  /\ UNCHANGED <<serving, work, stuck, tried, sinksClosed>>

(* run: the next event goes to the first sink. *)
Receive ==
  /\ work = Idle /\ queue # <<>>
  /\ work' = [event |-> Head(queue), sink |-> 1]
  /\ queue' = Tail(queue)
  /\ UNCHANGED <<serving, stuck, tried, sinksClosed, accepted, refused>>

(* Send returns, with or without an error, which is logged: the next sink. *)
AfterSend_StopsOnError(failed) ==
  IF failed \/ work.sink = NSinks THEN Idle ELSE [work EXCEPT !.sink = @ + 1]
AfterSend(failed) == IF work.sink = NSinks THEN Idle ELSE [work EXCEPT !.sink = @ + 1]

Send(failed) ==
  /\ work # Idle /\ work.sink \notin stuck
  /\ tried' = [tried EXCEPT ![work.sink] = Append(@, work.event)]
  /\ work' = AfterSend(failed)
  /\ UNCHANGED <<serving, queue, stuck, sinksClosed, accepted, refused>>

(* A peer stops or starts taking data. *)
Stall(s) == stuck' = stuck \cup {s} /\ UNCHANGED <<serving, queue, work, tried, sinksClosed, accepted, refused>>
Resume(s) == stuck' = stuck \ {s} /\ UNCHANGED <<serving, queue, work, tried, sinksClosed, accepted, refused>>

(* Close: the channel is closed, ... *)
CloseQueue ==
  /\ serving
  /\ serving' = FALSE
  /\ UNCHANGED <<queue, work, stuck, tried, sinksClosed, accepted, refused>>

(* ... the worker leaves its loop once the channel is drained, and the sinks
   are closed. *)
WorkerDone_AfterAnEvent == work = Idle /\ queue = <<>> /\ accepted # <<>>
WorkerDone == work = Idle /\ queue = <<>>

CloseSinks ==
  /\ ~serving /\ WorkerDone /\ ~sinksClosed
  /\ sinksClosed' = TRUE
  /\ UNCHANGED <<serving, queue, work, stuck, tried, accepted, refused>>

Next ==
  \/ \E ev \in ExportEvents : Export(ev)
  \/ Receive \/ CloseQueue \/ CloseSinks
  \/ \E failed \in BOOLEAN : Send(failed)
  \/ \E s \in Sinks : Stall(s) \/ Resume(s)

-----------------------------------------------------------------------------
(* Every sink is offered the accepted events once each and in their order,
   whatever the sinks before it returned, and all of them before Close closes
   the sinks. *)
SinksOfferedAll ==
  \A s \in Sinks : /\ IsPrefix(tried[s], accepted)
                   /\ work = Idle => Len(tried[s]) + Len(queue) = Len(accepted)
                   /\ sinksClosed => tried[s] = accepted

(* If no sink is stuck for good, Close returns. (It waits for a stuck sink
   without a bound, and Engine.Shutdown closes the query log writer after it.) *)
ExporterCloses == (\A s \in Sinks : []<>(s \notin stuck)) => (~serving ~> sinksClosed)

(* The exporter is a sink as the query path knows it. *)
Sink == INSTANCE AsyncSink WITH
  Items <- ExportEvents, Capacity <- ExportQueue,
  pending <- ToSet(queue) \cup ({work.event} \ {Idle.event}),
  finished <- ToSet(accepted) \ (ToSet(queue) \cup {work.event}),
  shut <- sinksClosed

ImplementsAsyncSink == Sink!Spec
=============================================================================
