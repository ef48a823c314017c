---------------------------- MODULE QueryMetrics ----------------------------
(***************************************************************************)
(* The rolling query counters of internal/metrics/query_metrics.go: a ring *)
(* of slices that the query handlers write and rotate without a lock. Only *)
(* the counters are atomic; the slice's start time and its reset are plain *)
(* writes, so a reset is two writes that others may come between.          *)
(***************************************************************************)
EXTENDS Integers, FiniteSets

CONSTANTS
  Recorders,     \* handler goroutines
  SliceCount,    \* QueryMetrics.sliceCount
  SliceSize,     \* QueryMetrics.sliceSize, in clock units
  MaxRecords,    \* bound on the records
  MaxTime        \* bound on the clock

WindowSize == SliceCount * SliceSize
Slices == 0 .. SliceCount - 1

VARIABLES
  clock,
  current,     \* QueryMetrics.current
  start,       \* metricsSlice.startUnix
  total,       \* metricsSlice.total, as the records it counts; errors, blocked and
               \* latency go the same way
  rec,         \* rec[r]: where r's Record is, the time it read and its slice
  recorded,    \* history: every record, numbered, and when it was counted
  raced        \* history: rotations overlapped, or a record came after its slice's time

metricVars == <<current, start, total, rec, recorded, raced>>

Resting == [at |-> "rest", now |-> 0, slice |-> 0]
Rotating(r) == rec[r].at \in {"load", "reset", "start", "counters", "store"}

Init ==
  /\ clock = 0
  /\ current = 0
  /\ start = [s \in Slices |-> 0] /\ total = [s \in Slices |-> {}]
  /\ rec = [r \in Recorders |-> Resting]
  /\ recorded = {}
  /\ raced = FALSE

Goto(r, at, now, s) == rec' = [rec EXCEPT ![r] = [at |-> at, now |-> now, slice |-> s]]

(* currentSlice: the slice in use, unless it has run its time. *)
Within(s, now) == now < start[s] + SliceSize

CurrentSlice(r) ==
  /\ rec[r] = Resting
  /\ IF Within(current, clock)
     THEN Goto(r, "add", clock, current) /\ UNCHANGED raced
     ELSE /\ Goto(r, "load", clock, current)
          /\ raced' = (raced \/ \E o \in Recorders : Rotating(o))
  /\ UNCHANGED <<clock, current, start, total, recorded>>

(* The second load of current picks the slice after it. *)
NextSlice(s) == (s + 1) % SliceCount

LoadNext(r) ==
  LET s == NextSlice(current)
  IN /\ rec[r].at = "load"
     /\ Goto(r, "reset", rec[r].now, s)
     /\ raced' = (raced \/ \E o \in Recorders : rec[o].at = "add" /\ rec[o].slice = s)
     /\ UNCHANGED <<clock, current, start, total, recorded>>

(* The reset: the start and the counters, in either order. *)
ResetStart(r) ==
  /\ rec[r].at \in {"reset", "start"}
  /\ start' = [start EXCEPT ![rec[r].slice] = rec[r].now]
  /\ rec' = [rec EXCEPT ![r].at = IF @ = "reset" THEN "counters" ELSE "store"]
  /\ UNCHANGED <<clock, current, total, recorded, raced>>

ResetTotal_Kept(s) == total[s]
ResetTotal(s) == {}

ResetCounters(r) ==
  /\ rec[r].at \in {"reset", "counters"}
  /\ total' = [total EXCEPT ![rec[r].slice] = ResetTotal(rec[r].slice)]
  /\ rec' = [rec EXCEPT ![r].at = IF @ = "reset" THEN "start" ELSE "store"]
  /\ UNCHANGED <<clock, current, start, recorded, raced>>

StoreCurrent(r) ==
  /\ rec[r].at = "store"
  /\ current' = rec[r].slice
  /\ rec' = [rec EXCEPT ![r].at = "add"]
  /\ UNCHANGED <<clock, start, total, recorded, raced>>

(* Record, RecordBlocked: the counters of the slice that was found. *)
Record(r) ==
  LET s   == rec[r].slice
      new == [no |-> Cardinality(recorded) + 1, at |-> clock]
  IN /\ rec[r].at = "add"
     /\ Cardinality(recorded) < MaxRecords
     /\ total' = [total EXCEPT ![s] = @ \cup {new}]
     /\ recorded' = recorded \cup {new}
     /\ raced' = (raced \/ clock >= start[s] + SliceSize)
     /\ rec' = [rec EXCEPT ![r] = Resting]
     /\ UNCHANGED <<clock, current, start>>

Tick == clock < MaxTime /\ clock' = clock + 1 /\ UNCHANGED metricVars

Next ==
  \/ Tick
  \/ \E r \in Recorders : \/ CurrentSlice(r) \/ LoadNext(r) \/ ResetStart(r)
                          \/ ResetCounters(r) \/ StoreCurrent(r) \/ Record(r)

(* Aggregate, read at one instant: the sum over the slices in the window is the
   size of this set, a record being in one slice at most. *)
Included == {s \in Slices : start[s] >= clock - WindowSize}
Aggregate == UNION {total[s] : s \in Included}

-----------------------------------------------------------------------------
RecordedSince(t) == {a \in recorded : a.at >= t}

(* While rotations do not overlap and no record is delayed past its slice, the
   aggregate counts every record of the last window less one slice and
   none older than the window, whatever gaps the traffic had, and none twice:
   slices are reused in time and never too early. *)
WindowIsExactUnlessRaced ==
  ~raced /\ (\A r \in Recorders : ~Rotating(r)) =>
    /\ RecordedSince(clock - WindowSize + SliceSize) \subseteq Aggregate
    /\ Aggregate \subseteq RecordedSince(clock - WindowSize)
    /\ \A s, u \in Included : s # u => total[s] \cap total[u] = {}
=============================================================================
