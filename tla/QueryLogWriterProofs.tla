------------------------ MODULE QueryLogWriterProofs ------------------------
(***************************************************************************)
(* Safety of QueryLogWriter for any number of queries and workers and any  *)
(* buffer: LogInv strengthens LogIsAccountedFor, and with it every step of *)
(* the writer is a step of AsyncSink or leaves the sink as it is.          *)
(***************************************************************************)
EXTENDS QueryLogWriter, FiniteSetTheorems, TLAPS

-----------------------------------------------------------------------------
Busy(w) == wpc[w] \in {"save", "statRead", "statWrite"}

(* A worker holds an entry exactly while it is in the loop's body. *)
HoldInv == \A w \in Workers : item[w] # Nothing <=> Busy(w)

(* An entry is in one place: with its handler, in the queue once, with one
   worker, done or dropped. *)
PlaceInv ==
  /\ \A i, j \in 1 .. Len(queue) : queue[i] = queue[j] => i = j
  /\ \A w, v \in Workers : item[w] = item[v] /\ item[w] # Nothing => w = v
  /\ \A i \in 1 .. Len(queue) : queue[i] \notin handling \cup dropped \cup processed
  /\ \A w \in Workers : item[w] \notin handling \cup dropped \cup processed
  /\ \A w \in Workers, i \in 1 .. Len(queue) : item[w] # queue[i]
  /\ handling \cap (dropped \cup processed) = {}
  /\ dropped \cap processed = {}

(* The stages of the shutdown come in their order. *)
CloseInv ==
  /\ ~panicked
  /\ chanClosed => ~accepting /\ handling = {}
  /\ \A w \in Workers : wpc[w] = "exited" => chanClosed /\ queue = <<>>
  /\ closeDone => chanClosed /\ queue = <<>> /\ \A w \in Workers : wpc[w] = "exited"

(* What was saved or failed to be is what is done, and what is on its way to
   the statistics. *)
RowInv ==
  /\ processed \subseteq rows \cup failed
  /\ \A w \in Workers : wpc[w] \in {"statRead", "statWrite"} => item[w] \in rows \cup failed
  /\ \A e \in rows \cup failed :
       e \in processed
         \/ \E w \in Workers : wpc[w] \in {"statRead", "statWrite"} /\ item[w] = e

(* No worker has read more than was counted, and what is counted is done. *)
CountInv ==
  /\ counted \subseteq processed
  /\ total <= Cardinality(counted)
  /\ \A w \in Workers : read[w] <= Cardinality(counted)

LogInv == TypeOK /\ HoldInv /\ PlaceInv /\ CloseInv /\ RowInv /\ CountInv

-----------------------------------------------------------------------------
(* A worker that is busy holds an entry, so what it writes is an entry. *)
LEMMA HoldInvariant == Spec => [](TypeOK /\ HoldInv)
<1> DEFINE T == TypeOK /\ HoldInv
<1> USE DEF WorkerLabels, HoldInv, Busy
<1>1. Init => T
  <2> SUFFICES ASSUME Init PROVE T
    OBVIOUS
  <2>1. queue \in Seq(Entries) /\ Len(queue) <= BufferSize
    BY WriterAssumption DEF Init
  <2>2. QED
    BY <2>1 DEF Init, TypeOK
<1>2. T /\ [Next]_vars => T'
  <2> SUFFICES ASSUME T, [Next]_vars PROVE T'
    OBVIOUS
  <2> USE WriterAssumption DEF TypeOK, lifeVars, chanVars, rowVars, statVars
  <2>1. ASSUME NEW e \in Entries, Dispatch(e) PROVE T'
    BY <2>1 DEF Dispatch
  <2>2. ASSUME NEW e \in Entries, Submit(e) PROVE T'
    BY <2>2 DEF Submit, QueueFull
  <2>3. CASE StopServers
    BY <2>3 DEF StopServers
  <2>4. CASE CloseQueue
    BY <2>4 DEF CloseQueue
  <2>5. CASE CloseReturn
    BY <2>5 DEF CloseReturn
  <2>6. ASSUME NEW w \in Workers, Receive(w) PROVE T'
    BY <2>6 DEF Receive
  <2>7. ASSUME NEW w \in Workers, Exit(w) PROVE T'
    BY <2>7 DEF Exit
  <2>8. ASSUME NEW w \in Workers, Save(w) PROVE T'
    BY <2>8 DEF Save
  <2>9. ASSUME NEW w \in Workers, StatRead(w) PROVE T'
    BY <2>9 DEF StatRead
  <2>10. ASSUME NEW w \in Workers, StatWrite(w) PROVE T'
    BY <2>10 DEF StatWrite, NextEntry, Incremented
  <2>11. ASSUME NEW w \in Workers, StatErr(w) PROVE T'
    BY <2>11 DEF StatErr, NextEntry
  <2>12. CASE UNCHANGED vars
    BY <2>12 DEF vars
  <2>13. QED
    BY <2>1, <2>2, <2>3, <2>4, <2>5, <2>6, <2>7, <2>8, <2>9, <2>10, <2>11, <2>12
       DEF Next, WorkerStep
<1>3. QED
  BY <1>1, <1>2, PTL DEF Spec

(* Type correctness of querylog_writer.go's state, for every number of queries
   and workers and every buffer size. *)
THEOREM LogTypeCorrect == Spec => []TypeOK
  BY HoldInvariant, PTL

-----------------------------------------------------------------------------
(* Every step moves an entry from one place to the next. *)
LEMMA PlaceStep == TypeOK /\ HoldInv /\ PlaceInv /\ [Next]_vars => PlaceInv'
<1> SUFFICES ASSUME TypeOK, HoldInv, PlaceInv, [Next]_vars PROVE PlaceInv'
  OBVIOUS
<1> USE WriterAssumption DEF TypeOK, PlaceInv, lifeVars, chanVars, rowVars, statVars
<1>1. ASSUME NEW e \in Entries, Dispatch(e) PROVE PlaceInv'
  BY <1>1 DEF Dispatch, Submitted, ToSet
<1>2. ASSUME NEW e \in Entries, Submit(e) PROVE PlaceInv'
  BY <1>2 DEF Submit, QueueFull
<1>3. CASE StopServers
  BY <1>3 DEF StopServers
<1>4. CASE CloseQueue
  BY <1>4 DEF CloseQueue
<1>5. CASE CloseReturn
  BY <1>5 DEF CloseReturn
<1>6. ASSUME NEW w \in Workers, Receive(w) PROVE PlaceInv'
  BY <1>6 DEF Receive
<1>7. ASSUME NEW w \in Workers, Exit(w) PROVE PlaceInv'
  BY <1>7 DEF Exit
<1>8. ASSUME NEW w \in Workers, Save(w) PROVE PlaceInv'
  BY <1>8 DEF Save
<1>9. ASSUME NEW w \in Workers, StatRead(w) PROVE PlaceInv'
  BY <1>9 DEF StatRead
<1>10. ASSUME NEW w \in Workers, StatWrite(w) PROVE PlaceInv'
  BY <1>10 DEF StatWrite, NextEntry, HoldInv, Busy
<1>11. ASSUME NEW w \in Workers, StatErr(w) PROVE PlaceInv'
  BY <1>11 DEF StatErr, NextEntry, HoldInv, Busy
<1>12. CASE UNCHANGED vars
  BY <1>12 DEF vars
<1>13. QED
  BY <1>1, <1>2, <1>3, <1>4, <1>5, <1>6, <1>7, <1>8, <1>9, <1>10, <1>11, <1>12
     DEF Next, WorkerStep

(* No step of a handler, a worker or the shutdown skips a stage. *)
LEMMA CloseStep == TypeOK /\ CloseInv /\ [Next]_vars => CloseInv'
<1> SUFFICES ASSUME TypeOK, CloseInv, [Next]_vars PROVE CloseInv'
  OBVIOUS
<1> USE WriterAssumption DEF TypeOK, CloseInv, lifeVars, chanVars, rowVars, statVars, WorkerLabels
<1>1. ASSUME NEW e \in Entries, Dispatch(e) PROVE CloseInv'
  BY <1>1 DEF Dispatch
<1>2. ASSUME NEW e \in Entries, Submit(e) PROVE CloseInv'
  BY <1>2 DEF Submit
<1>3. CASE StopServers
  BY <1>3 DEF StopServers
<1>4. CASE CloseQueue
  BY <1>4 DEF CloseQueue, HandlersDone
<1>5. CASE CloseReturn
  BY <1>5 DEF CloseReturn, WorkersDone
<1>6. ASSUME NEW w \in Workers, Receive(w) PROVE CloseInv'
  BY <1>6 DEF Receive
<1>7. ASSUME NEW w \in Workers, Exit(w) PROVE CloseInv'
  BY <1>7 DEF Exit, RangeEnds
<1>8. ASSUME NEW w \in Workers, Save(w) PROVE CloseInv'
  BY <1>8 DEF Save
<1>9. ASSUME NEW w \in Workers, StatRead(w) PROVE CloseInv'
  BY <1>9 DEF StatRead
<1>10. ASSUME NEW w \in Workers, StatWrite(w) PROVE CloseInv'
  BY <1>10 DEF StatWrite, NextEntry
<1>11. ASSUME NEW w \in Workers, StatErr(w) PROVE CloseInv'
  BY <1>11 DEF StatErr, NextEntry
<1>12. CASE UNCHANGED vars
  BY <1>12 DEF vars
<1>13. QED
  BY <1>1, <1>2, <1>3, <1>4, <1>5, <1>6, <1>7, <1>8, <1>9, <1>10, <1>11, <1>12
     DEF Next, WorkerStep

(* A worker leaves an entry only after saving it or reporting the failure. *)
LEMMA RowStep == TypeOK /\ HoldInv /\ RowInv /\ [Next]_vars => RowInv'
<1> SUFFICES ASSUME TypeOK, HoldInv, RowInv, [Next]_vars PROVE RowInv'
  OBVIOUS
<1> USE DEF TypeOK, HoldInv, Busy, RowInv, lifeVars, chanVars, rowVars, statVars, WorkerLabels
<1>1. ASSUME NEW e \in Entries, Dispatch(e) PROVE RowInv'
  BY <1>1 DEF Dispatch
<1>2. ASSUME NEW e \in Entries, Submit(e) PROVE RowInv'
  BY <1>2 DEF Submit
<1>3. CASE StopServers
  BY <1>3 DEF StopServers
<1>4. CASE CloseQueue
  BY <1>4 DEF CloseQueue
<1>5. CASE CloseReturn
  BY <1>5 DEF CloseReturn
<1>6. ASSUME NEW w \in Workers, Receive(w) PROVE RowInv'
  BY <1>6 DEF Receive
<1>7. ASSUME NEW w \in Workers, Exit(w) PROVE RowInv'
  BY <1>7 DEF Exit
<1>8. ASSUME NEW w \in Workers, Save(w) PROVE RowInv'
  BY <1>8 DEF Save
<1>9. ASSUME NEW w \in Workers, StatRead(w) PROVE RowInv'
  BY <1>9 DEF StatRead
<1>10. ASSUME NEW w \in Workers, StatWrite(w) PROVE RowInv'
  BY <1>10 DEF StatWrite, NextEntry
<1>11. ASSUME NEW w \in Workers, StatErr(w) PROVE RowInv'
  BY <1>11 DEF StatErr, NextEntry
<1>12. CASE UNCHANGED vars
  BY <1>12 DEF vars
<1>13. QED
  BY <1>1, <1>2, <1>3, <1>4, <1>5, <1>6, <1>7, <1>8, <1>9, <1>10, <1>11, <1>12
     DEF Next, WorkerStep

(* A write of the statistics row never exceeds what was counted. *)
LEMMA CountStep ==
  TypeOK /\ HoldInv /\ PlaceInv /\ CountInv /\ [Next]_vars => CountInv'
<1> SUFFICES ASSUME TypeOK, HoldInv, PlaceInv, CountInv, [Next]_vars PROVE CountInv'
  OBVIOUS
<1> USE DEF TypeOK, CountInv, lifeVars, chanVars, rowVars, statVars
<1>0. IsFiniteSet(counted) /\ Cardinality(counted) \in Nat
  BY WriterAssumption, FS_Subset, FS_CardinalityType
<1>1. ASSUME NEW e \in Entries, Dispatch(e) PROVE CountInv'
  BY <1>1 DEF Dispatch
<1>2. ASSUME NEW e \in Entries, Submit(e) PROVE CountInv'
  BY <1>2 DEF Submit
<1>3. CASE StopServers \/ CloseQueue \/ CloseReturn
  BY <1>3 DEF StopServers, CloseQueue, CloseReturn
<1>4. ASSUME NEW w \in Workers, Receive(w) \/ Exit(w) \/ Save(w) PROVE CountInv'
  BY <1>4 DEF Receive, Exit, Save
<1>5. ASSUME NEW w \in Workers, StatRead(w) PROVE CountInv'
  BY <1>0, <1>5 DEF StatRead
<1>6. ASSUME NEW w \in Workers, StatWrite(w) PROVE CountInv'
  <2>1. item[w] \notin counted
    BY <1>6 DEF StatWrite, HoldInv, Busy, PlaceInv
  <2>2. Cardinality(counted') = Cardinality(counted) + 1
    BY <1>0, <1>6, <2>1, FS_AddElement DEF StatWrite
  <2>3. counted' \subseteq processed'
    BY <1>6 DEF StatWrite, NextEntry
  <2>4. total' = read[w] + 1 /\ read' = read
    BY <1>6 DEF StatWrite, Incremented
  <2> HIDE DEF TypeOK
  <2>5. read \in [Workers -> Nat]
    BY DEF TypeOK
  <2>6. QED
    BY <1>0, <2>2, <2>3, <2>4, <2>5
<1>7. ASSUME NEW w \in Workers, StatErr(w) PROVE CountInv'
  BY <1>7 DEF StatErr, NextEntry
<1>8. CASE UNCHANGED vars
  BY <1>8 DEF vars
<1>9. QED
  BY <1>1, <1>2, <1>3, <1>4, <1>5, <1>6, <1>7, <1>8 DEF Next, WorkerStep

(* The inductive invariant of the writer. *)
LEMMA LogInvariant == Spec => []LogInv
<1>1. Init => PlaceInv /\ CloseInv /\ RowInv /\ CountInv
  BY FS_EmptySet DEF Init, PlaceInv, CloseInv, RowInv, CountInv
<1>2. TypeOK /\ HoldInv /\ (PlaceInv /\ CloseInv /\ RowInv /\ CountInv) /\ [Next]_vars
        => (PlaceInv /\ CloseInv /\ RowInv /\ CountInv)'
  BY PlaceStep, CloseStep, RowStep, CountStep
<1>3. QED
  BY <1>1, <1>2, HoldInvariant, PTL DEF Spec, LogInv

(* However handlers, workers and the shutdown interleave, for any number of
   them: nothing is sent on the closed queue, nothing is left when Close
   returns, and IncrementCounter never counts more than was recorded. *)
THEOREM WriterLogIsAccountedFor == Spec => []LogIsAccountedFor
<1>1. LogInv => LogIsAccountedFor
  BY DEF LogInv, LogIsAccountedFor, CloseIsOrderly, NoSendOnClosedQueue, CloseDrains,
         StatsNeverOvercount, TypeOK, HoldInv, Busy, CloseInv, RowInv, CountInv
<1>2. QED
  BY <1>1, LogInvariant, PTL

-----------------------------------------------------------------------------
(* The elements of a sequence without repetitions are as many as it is long. *)
LEMMA DistinctCardinality ==
  ASSUME NEW S, NEW s \in Seq(S),
         \A i, j \in 1 .. Len(s) : s[i] = s[j] => i = j
  PROVE  IsFiniteSet(ToSet(s)) /\ Cardinality(ToSet(s)) = Len(s)
<1>1. Len(s) \in Nat /\ DOMAIN s = 1 .. Len(s) /\ s \in [1 .. Len(s) -> ToSet(s)]
  BY DEF ToSet
<1>2. IsInjective(s)
  BY <1>1 DEF IsInjective
<1>3. \A t \in ToSet(s) : \E i \in 1 .. Len(s) : s[i] = t
  BY <1>1 DEF ToSet
<1>4. s \in Bijection(1 .. Len(s), ToSet(s))
  BY <1>1, <1>2, <1>3, Zenon DEF Bijection, Injection, Surjection
<1>5. IsFiniteSet(1 .. Len(s)) /\ Cardinality(1 .. Len(s)) = Len(s)
  BY <1>1, FS_Interval
<1>6. QED
  BY <1>4, <1>5, FS_Bijection, Zenon DEF ExistsBijection

(* The backlog, as the refinement maps it. *)
Pending == ToSet(queue) \cup ({item[w] : w \in Workers} \ {Nothing})

(* An entry is refused only when as many wait as the buffer holds. *)
LEMMA RefusedAtCapacity ==
  ASSUME TypeOK, PlaceInv, QueueFull
  PROVE  Cardinality(Pending) >= BufferSize
<1>1. IsFiniteSet(ToSet(queue)) /\ Cardinality(ToSet(queue)) = Len(queue)
  BY DistinctCardinality DEF TypeOK, PlaceInv
<1>2. Pending \subseteq Entries
  BY DEF Pending, TypeOK, ToSet
<1>3. IsFiniteSet(Pending)
  BY <1>2, WriterAssumption, FS_Subset
<1>4. Cardinality(ToSet(queue)) <= Cardinality(Pending)
  BY <1>3, FS_Subset DEF Pending
<1>5. Cardinality(Pending) \in Nat /\ Len(queue) \in Nat /\ BufferSize \in Nat
  BY <1>3, FS_CardinalityType, WriterAssumption DEF TypeOK
<1>6. QED
  BY <1>1, <1>4, <1>5 DEF QueueFull

(* A worker takes the oldest entry: the backlog is as it was. *)
LEMMA ReceiveKeepsPending ==
  ASSUME TypeOK, HoldInv, NEW w \in Workers, Receive(w)
  PROVE  Pending' = Pending
<1>1. queue # <<>> /\ queue \in Seq(Entries) /\ queue' = Tail(queue) /\ item[w] = Nothing
      /\ item' = [item EXCEPT ![w] = Head(queue)] /\ item \in [Workers -> Entries \cup {Nothing}]
  BY DEF TypeOK, Receive, HoldInv, Busy
<1>2. ToSet(queue) = {Head(queue)} \cup ToSet(Tail(queue))
  <2>1. ASSUME NEW i \in 1 .. Len(queue)
        PROVE  queue[i] = Head(queue) \/ \E j \in 1 .. Len(Tail(queue)) : Tail(queue)[j] = queue[i]
    <3>1. CASE i = 1
      BY <1>1, <3>1
    <3>2. CASE i # 1
      <4>1. i - 1 \in 1 .. Len(Tail(queue)) /\ Tail(queue)[i - 1] = queue[i]
        BY <1>1, <3>2
      <4>2. QED
        BY <4>1
    <3>3. QED
      BY <3>1, <3>2
  <2>2. ASSUME NEW j \in 1 .. Len(Tail(queue))
        PROVE  j + 1 \in 1 .. Len(queue) /\ queue[j + 1] = Tail(queue)[j]
    BY <1>1
  <2>3. 1 \in 1 .. Len(queue) /\ Head(queue) = queue[1]
    BY <1>1
  <2>4. DOMAIN queue = 1 .. Len(queue) /\ DOMAIN Tail(queue) = 1 .. Len(Tail(queue))
    BY <1>1
  <2>5. ASSUME NEW x PROVE x \in ToSet(queue) <=> x \in {Head(queue)} \cup ToSet(Tail(queue))
    <3>1. x \in ToSet(queue) <=> \E i \in 1 .. Len(queue) : queue[i] = x
      BY <2>4 DEF ToSet
    <3>2. x \in ToSet(Tail(queue)) <=> \E j \in 1 .. Len(Tail(queue)) : Tail(queue)[j] = x
      BY <2>4 DEF ToSet
    <3>3. QED
      BY <2>1, <2>2, <2>3, <3>1, <3>2
  <2>6. QED
    BY <2>5
<1>3. Head(queue) # Nothing
  BY <1>1, WriterAssumption
<1>4. {item'[v] : v \in Workers} \ {Nothing} = ({item[v] : v \in Workers} \ {Nothing}) \cup {Head(queue)}
  BY <1>1, <1>3
<1>5. QED
  BY <1>1, <1>2, <1>4 DEF Pending

(* The body of the loop ends: the entry leaves the backlog and is done. *)
LEMMA NextEntryFinishes ==
  ASSUME TypeOK, HoldInv, PlaceInv, NEW w \in Workers, Busy(w), NextEntry(w),
         UNCHANGED <<queue, dropped, closeDone>>
  PROVE  \E e \in Entries : Sink!Finish(e)
<1>1. PICK e \in Entries : item[w] = e
  BY DEF TypeOK, HoldInv
<1>2. e \in Pending /\ e \notin ToSet(queue) /\ e # Nothing
  BY <1>1, WriterAssumption DEF Pending, PlaceInv, ToSet, TypeOK
<1>3. {item'[v] : v \in Workers} \ {Nothing} = ({item[v] : v \in Workers} \ {Nothing}) \ {e}
  BY <1>1, <1>2 DEF NextEntry, TypeOK, PlaceInv
<1>4. Pending' = Pending \ {e}
  BY <1>2, <1>3 DEF Pending
<1>5. Sink!Finish(e)
  BY <1>1, <1>2, <1>4 DEF Sink!Finish, NextEntry, Pending
<1>6. QED
  BY <1>5

(* The asynchronous writer keeps the promise the query path relies on, at every
   step: accept while there is room, refuse only at capacity, finish what was
   accepted once, and report itself closed with nothing left. *)
THEOREM WriterImplementsAsyncSink == Spec => ImplementsAsyncSink
<1>1. Init => Sink!Init
  <2> SUFFICES ASSUME Init PROVE Sink!Init
    OBVIOUS
  <2>1. ToSet(queue) = {}
    BY DEF Init, ToSet
  <2>2. QED
    BY <2>1 DEF Init, Sink!Init
<1>2. LogInv /\ [Next]_vars => [Sink!Next]_(Sink!vars)
  <2> SUFFICES ASSUME LogInv, [Next]_vars PROVE [Sink!Next]_(Sink!vars)
    OBVIOUS
  <2> USE DEF LogInv
  <2>0. UNCHANGED <<Pending, processed, dropped, closeDone>> => UNCHANGED Sink!vars
    BY DEF Sink!vars, Pending
  <2>1. ASSUME NEW e \in Entries, Dispatch(e) PROVE UNCHANGED Sink!vars
    BY <2>0, <2>1 DEF Dispatch, chanVars, rowVars, Pending
  <2>2. ASSUME NEW e \in Entries, Submit(e) PROVE [Sink!Next]_(Sink!vars)
    <3>1. e \in handling /\ ~chanClosed /\ ~closeDone
      BY <2>2 DEF Submit, CloseInv
    <3>2. e \notin Pending /\ e \notin processed \cup dropped
      BY <3>1, WriterAssumption DEF Pending, PlaceInv, TypeOK, ToSet
    <3>3. CASE QueueFull
      <4>1. Cardinality(Pending) >= BufferSize
        BY <3>3, RefusedAtCapacity
      <4>2. dropped' = dropped \cup {e} /\ UNCHANGED <<Pending, processed, closeDone>>
        BY <2>2, <3>1, <3>3 DEF Submit, Pending, rowVars
      <4>3. Sink!Cardinality(Pending) = Cardinality(Pending)
        BY DEF Cardinality, Sink!Cardinality
      <4>4. Sink!Refuse(e)
        BY <3>1, <3>2, <4>1, <4>2, <4>3, Zenon DEF Sink!Refuse, Sink!New, Pending
      <4>5. QED
        BY <4>4 DEF Sink!Next
    <3>4. CASE ~QueueFull
      <4>1. queue \in Seq(Entries) /\ queue' = Append(queue, e)
        BY <2>2, <3>1, <3>4 DEF Submit, TypeOK
      <4>2. ToSet(queue') = ToSet(queue) \cup {e}
        BY <4>1 DEF ToSet
      <4>3. Pending' = Pending \cup {e}
        BY <2>2, <4>2 DEF Submit, Pending
      <4>4. Sink!Accept(e)
        BY <2>2, <3>1, <3>2, <3>4, <4>3 DEF Submit, Sink!Accept, Sink!New, Pending, rowVars
      <4>5. QED
        BY <4>4 DEF Sink!Next
    <3>5. QED
      BY <3>3, <3>4
  <2>3. CASE StopServers \/ CloseQueue
    BY <2>0, <2>3 DEF StopServers, CloseQueue, chanVars, rowVars, Pending
  <2>4. CASE CloseReturn
    <3>1. PICK w \in Workers : TRUE
      BY WriterAssumption
    <3>2. queue = <<>> /\ \A v \in Workers : item[v] = Nothing
      BY <2>4, <3>1 DEF CloseReturn, WorkersDone, HoldInv, Busy, CloseInv
    <3>3. ToSet(queue) = {}
      BY <3>2 DEF ToSet
    <3>4. Pending = {}
      BY <3>2, <3>3 DEF Pending
    <3>5. Sink!Shut
      BY <2>4, <3>4 DEF CloseReturn, Sink!Shut, Pending, rowVars
    <3>6. QED
      BY <3>5 DEF Sink!Next
  <2>5. ASSUME NEW w \in Workers, Receive(w) PROVE UNCHANGED Sink!vars
    BY <2>0, <2>5, ReceiveKeepsPending DEF Receive, rowVars
  <2>6. ASSUME NEW w \in Workers, Exit(w) \/ Save(w) \/ StatRead(w)
        PROVE  UNCHANGED Sink!vars
    BY <2>0, <2>6 DEF Exit, Save, StatRead, chanVars, rowVars, Pending
  <2>7. ASSUME NEW w \in Workers, StatWrite(w) \/ StatErr(w) PROVE Sink!Next
    <3>1. Busy(w) /\ NextEntry(w) /\ UNCHANGED <<queue, dropped, closeDone>>
      BY <2>7 DEF StatWrite, StatErr, Busy, chanVars
    <3>2. \E e \in Entries : Sink!Finish(e)
      BY <3>1, NextEntryFinishes
    <3>3. QED
      BY <3>2 DEF Sink!Next
  <2>8. CASE UNCHANGED vars
    BY <2>0, <2>8 DEF vars, chanVars, rowVars, Pending
  <2>9. QED
    BY <2>1, <2>2, <2>3, <2>4, <2>5, <2>6, <2>7, <2>8 DEF Next, WorkerStep
<1>3. QED
  BY <1>1, <1>2, LogInvariant, PTL DEF Spec, ImplementsAsyncSink, Sink!Spec
=============================================================================
