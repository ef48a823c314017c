------------------------------ MODULE AsyncSink ------------------------------
(***************************************************************************)
(* What the query path is promised by the two asynchronous writers of the  *)
(* DNS engine, the query log writer and the event exporter: handing over   *)
(* an item never blocks, an item is refused only when at least Capacity    *)
(* items are waiting, an accepted item is worked off exactly once, and the *)
(* sink reports itself closed only when nothing it accepted is left.       *)
(***************************************************************************)
EXTENDS Naturals, FiniteSets

CONSTANTS Items, Capacity

VARIABLES
  pending,    \* items accepted and not yet worked off
  finished,   \* items worked off
  refused,    \* items dropped because the backlog was full
  shut        \* Close has returned

vars == <<pending, finished, refused, shut>>

Init ==
  /\ pending = {}
  /\ finished = {}
  /\ refused = {}
  /\ shut = FALSE

New(e) == e \notin pending \cup finished \cup refused

Accept(e) ==
  /\ New(e) /\ ~shut
  /\ pending' = pending \cup {e}
  /\ UNCHANGED <<finished, refused, shut>>

Refuse(e) ==
  /\ New(e) /\ ~shut /\ Cardinality(pending) >= Capacity
  /\ refused' = refused \cup {e}
  /\ UNCHANGED <<pending, finished, shut>>

Finish(e) ==
  /\ e \in pending
  /\ pending' = pending \ {e}
  /\ finished' = finished \cup {e}
  /\ UNCHANGED <<refused, shut>>

Shut ==
  /\ pending = {}
  /\ shut' = TRUE
  /\ UNCHANGED <<pending, finished, refused>>

Next ==
  \/ \E e \in Items : Accept(e) \/ Refuse(e) \/ Finish(e)
  \/ Shut

Spec == Init /\ [][Next]_vars
=============================================================================
