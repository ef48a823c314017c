--------------------------- MODULE QueryLogWriter ---------------------------
(***************************************************************************)
(* The bounded asynchronous query log writer                               *)
(* (internal/dnsengine/querylog_writer.go), its two callers' lifecycle     *)
(* (handlers that end in logQuery; Server.Run's drain followed by          *)
(* Engine.Shutdown) and the statistics row its workers update              *)
(* (internal/storage/repositories/statistics_repo.go).                     *)
(***************************************************************************)
EXTENDS Naturals, Sequences, FiniteSets, SequencesExt

CONSTANTS
  Entries,     \* the queries handled during a behaviour
  Workers,     \* worker goroutines (2 by default)
  BufferSize,  \* capacity of the queue channel (1024 by default)
  Nothing      \* a worker that holds no entry

(* A worker count or a buffer size that is not positive becomes the default. *)
ASSUME WriterAssumption ==
  /\ IsFiniteSet(Entries) /\ Workers # {}
  /\ BufferSize \in Nat \ {0}
  /\ Nothing \notin Entries

VARIABLES
  accepting,   \* the DNS servers still dispatch queries
  handling,    \* queries whose handler is running
  queue,       \* the queue channel
  dropped,     \* queries counted by the dropped counter
  chanClosed,  \* close(w.queue) has run
  closeDone,   \* Close has returned: w.wg.Wait() is over
  wpc,         \* wpc[w]: where worker w is inside run
  item,        \* item[w]: entry worker w took from the queue
  rows,        \* queries persisted in the query log table
  failed,      \* queries whose row could not be saved (logged)
  counted,     \* queries whose counter increment was saved without error
  processed,   \* queries a worker is done with
  total,       \* Statistics.TotalQueries of the single row
  read,        \* read[w]: TotalQueries as worker w read it
  panicked     \* a send on the closed channel has killed the process

lifeVars  == <<accepting, handling>>
chanVars  == <<queue, dropped, chanClosed, closeDone>>
rowVars   == <<rows, failed, processed>>
statVars  == <<counted, total, read>>
vars      == <<lifeVars, chanVars, wpc, item, rowVars, statVars, panicked>>

WorkerLabels == {"recv", "save", "statRead", "statWrite", "exited"}

Submitted == dropped \cup ToSet(queue) \cup {item[w] : w \in Workers} \cup processed

Init ==
  /\ accepting = TRUE
  /\ handling = {}
  /\ queue = <<>>
  /\ dropped = {}
  /\ chanClosed = FALSE
  /\ closeDone = FALSE
  /\ wpc = [w \in Workers |-> "recv"]
  /\ item = [w \in Workers |-> Nothing]
  /\ rows = {} /\ failed = {} /\ counted = {} /\ processed = {}
  /\ total = 0
  /\ read = [w \in Workers |-> 0]
  /\ panicked = FALSE

-----------------------------------------------------------------------------
(* The server dispatches a query to a handler goroutine. *)
Dispatch(e) ==
  /\ ~panicked /\ accepting
  /\ e \notin handling \cup Submitted
  /\ handling' = handling \cup {e}
  /\ UNCHANGED <<accepting, chanVars, wpc, item, rowVars, statVars, panicked>>

QueueFull_Early == Len(queue) >= BufferSize - 1
QueueFull == Len(queue) >= BufferSize

(* Submit, the last call of logQuery: a select with default, so a full queue
   drops the row; a send on the closed channel panics. *)
Submit(e) ==
  /\ ~panicked /\ e \in handling
  /\ handling' = handling \ {e}
  /\ panicked' = chanClosed
  /\ queue' = IF ~chanClosed /\ ~QueueFull THEN Append(queue, e) ELSE queue
  /\ dropped' = IF ~chanClosed /\ QueueFull THEN dropped \cup {e} ELSE dropped
  /\ UNCHANGED <<accepting, chanClosed, closeDone, wpc, item, rowVars, statVars>>

(* Server.Run after the signal: the listeners stop dispatching. *)
StopServers ==
  /\ ~panicked /\ accepting
  /\ accepting' = FALSE
  /\ UNCHANGED <<handling, chanVars, wpc, item, rowVars, statVars, panicked>>

(* udpSrv.Shutdown and tcpSrv.Shutdown return when no handler runs. *)
HandlersDone_NotAwaited == TRUE
HandlersDone == handling = {}

(* The deferred Engine.Shutdown runs qlWriter.Close: close the channel, ... *)
CloseQueue ==
  /\ ~panicked /\ ~accepting /\ HandlersDone /\ ~chanClosed
  /\ chanClosed' = TRUE
  /\ UNCHANGED <<lifeVars, queue, dropped, closeDone, wpc, item, rowVars,
                 statVars, panicked>>

(* ... then wait for every worker. *)
WorkersDone == \A w \in Workers : wpc[w] = "exited"

CloseReturn ==
  /\ ~panicked /\ chanClosed /\ ~closeDone /\ WorkersDone
  /\ closeDone' = TRUE
  /\ UNCHANGED <<lifeVars, queue, dropped, chanClosed, wpc, item, rowVars,
                 statVars, panicked>>

-----------------------------------------------------------------------------
(* for e := range w.queue: take the oldest entry ... *)
Receive(w) ==
  /\ ~panicked /\ wpc[w] = "recv" /\ queue # <<>>
  /\ item' = [item EXCEPT ![w] = Head(queue)]
  /\ queue' = Tail(queue)
  /\ wpc' = [wpc EXCEPT ![w] = "save"]
  /\ UNCHANGED <<lifeVars, dropped, chanClosed, closeDone, rowVars, statVars,
                 panicked>>

(* ... and leave the loop once the channel is closed and drained. *)
RangeEnds_NotDrained == chanClosed
RangeEnds_AllIdle == chanClosed /\ queue = <<>> /\ \A v \in Workers : wpc[v] = "recv"
RangeEnds == chanClosed /\ queue = <<>>

Exit(w) ==
  /\ ~panicked /\ wpc[w] = "recv" /\ RangeEnds
  /\ wpc' = [wpc EXCEPT ![w] = "exited"]
  /\ UNCHANGED <<lifeVars, chanVars, item, rowVars, statVars, panicked>>

(* queryLog.Save, which may fail on a busy database. *)
Save(w) ==
  /\ ~panicked /\ wpc[w] = "save"
  /\ \/ rows' = rows \cup {item[w]} /\ UNCHANGED failed
     \/ failed' = failed \cup {item[w]} /\ UNCHANGED rows
  /\ wpc' = [wpc EXCEPT ![w] = "statRead"]
  /\ UNCHANGED <<lifeVars, chanVars, item, processed, statVars, panicked>>

(* End of the loop body. *)
NextEntry(w) ==
  /\ wpc' = [wpc EXCEPT ![w] = "recv"]
  /\ processed' = processed \cup {item[w]}
  /\ item' = [item EXCEPT ![w] = Nothing]

(* IncrementCounter: FirstOrCreate reads the row, ... *)
StatRead(w) ==
  /\ ~panicked /\ wpc[w] = "statRead"
  /\ read' = [read EXCEPT ![w] = total]
  /\ wpc' = [wpc EXCEPT ![w] = "statWrite"]
  /\ UNCHANGED <<lifeVars, chanVars, item, rowVars, counted, total, panicked>>

(* ... Save writes the whole row back. There is no transaction around the
   two. *)
Incremented_Doubled(w) == total + 2
Incremented(w) == read[w] + 1

StatWrite(w) ==
  /\ ~panicked /\ wpc[w] = "statWrite"
  /\ total' = Incremented(w)
  /\ counted' = counted \cup {item[w]}
  /\ NextEntry(w)
  /\ UNCHANGED <<lifeVars, chanVars, rows, failed, read, panicked>>

(* Either statement of IncrementCounter fails: logged, nothing written. *)
StatErr(w) ==
  /\ ~panicked /\ wpc[w] \in {"statRead", "statWrite"}
  /\ NextEntry(w)
  /\ UNCHANGED <<lifeVars, chanVars, rows, failed, statVars, panicked>>

WorkerStep(w) ==
  Receive(w) \/ Exit(w) \/ Save(w) \/ StatRead(w) \/ StatWrite(w) \/ StatErr(w)

Next ==
  \/ \E e \in Entries : Dispatch(e) \/ Submit(e)
  \/ StopServers \/ CloseQueue \/ CloseReturn
  \/ \E w \in Workers : WorkerStep(w)

Spec == Init /\ [][Next]_vars

(* Workers are goroutines that are never blocked for good: SQLite calls return
   (with SQLITE_BUSY at worst), and a runnable goroutine runs. Handlers end for the same
   reason. The signal that stops the servers need not come. *)
Fairness ==
  /\ \A w \in Workers : WF_vars(WorkerStep(w))
  /\ \A e \in Entries : WF_vars(Submit(e))
  /\ WF_vars(CloseQueue)
  /\ WF_vars(CloseReturn)

FairSpec == Spec /\ Fairness

-----------------------------------------------------------------------------
(* Every variable has its type; the queue never outgrows its buffer. *)
TypeOK ==
  /\ accepting \in BOOLEAN /\ chanClosed \in BOOLEAN /\ closeDone \in BOOLEAN
  /\ panicked \in BOOLEAN
  /\ handling \subseteq Entries /\ dropped \subseteq Entries
  /\ queue \in Seq(Entries) /\ Len(queue) <= BufferSize
  /\ wpc \in [Workers -> WorkerLabels]
  /\ item \in [Workers -> Entries \cup {Nothing}]
  /\ rows \subseteq Entries /\ failed \subseteq Entries
  /\ counted \subseteq Entries /\ processed \subseteq Entries
  /\ total \in Nat
  /\ read \in [Workers -> Nat]

(* Engine.Shutdown closes the queue while the process still runs: no handler
   may be left that could send on the closed channel. *)
NoSendOnClosedQueue == ~panicked

(* When Close returns, every row a handler handed over was either dropped on a
   full queue, persisted, or its save error was reported, and no worker is
   still writing to the database. *)
CloseDrains ==
  closeDone =>
    /\ queue = <<>>
    /\ \A w \in Workers : item[w] = Nothing
    /\ processed = rows \cup failed

(* Server.Run and Close come in the order that loses nothing: handlers first,
   then the queue, then the workers. *)
CloseIsOrderly == NoSendOnClosedQueue /\ CloseDrains

(* The statistics row never counts a query that was not recorded, however the
   workers' read-modify-write cycles interleave. *)
StatsNeverOvercount == total <= Cardinality(counted)

(* However handlers, workers and the shutdown interleave, no row is lost without
   a trace and none is counted that was not recorded. *)
LogIsAccountedFor == CloseIsOrderly /\ StatsNeverOvercount

(* The statistics row counts exactly the increments that reported success
   ("increments the global counters"). *)
StatsExact == total = Cardinality(counted)

(* Every row the queue accepted is eventually worked off. *)
AcceptedIsProcessed ==
  \A e \in Entries : e \in ToSet(queue) ~> (e \in processed \/ panicked)

(* Engine.Shutdown ends: once the channel is closed, Close returns. *)
CloseReturns == chanClosed ~> (closeDone \/ panicked)

(* The workers neither leave a row behind nor keep the shutdown waiting. *)
WriterFinishes == AcceptedIsProcessed /\ CloseReturns

(* The writer implements the promise of AsyncSink. *)
Sink == INSTANCE AsyncSink WITH
  Items    <- Entries,
  Capacity <- BufferSize,
  pending  <- ToSet(queue) \cup ({item[w] : w \in Workers} \ {Nothing}),
  finished <- processed,
  refused  <- dropped,
  shut     <- closeDone
ImplementsAsyncSink == Sink!Spec
=============================================================================
