--------------------------- MODULE BlocklistHealth ---------------------------
(***************************************************************************)
(* The dataplane's monitor of its blocklist sources                        *)
(* (internal/blocklist/health.go). A sweep lists the sources, reads the    *)
(* newest snapshots of each enabled one and replaces the published         *)
(* statuses at its end; refreshes and administrators write the same tables *)
(* meanwhile (BlocklistStore). A snapshot is its size and its time.        *)
(***************************************************************************)
EXTENDS Naturals, Sequences, FiniteSets

CONSTANTS
  Lists,          \* source ids
  Sizes,          \* numbers of domains a list may have
  StaleLimit,     \* HealthThresholds.StaleAfter
  MaxSnapshots,   \* bound: snapshots stored at a time
  MaxClock        \* bound: time

VARIABLES
  clock,
  enabled,     \* sources switched on
  snaps,       \* snaps[s]: stored snapshots, newest first
  sweeping,    \* CheckOnce is running
  left,        \* sources it has still to look at
  found,       \* found[s]: its verdict on s, or "none"
  sweptAt,     \* the time it started
  statuses,    \* HealthChecker.statuses[s]: reason, or "none"; with the time
  checkedAt,
  moved,       \* history: sources written, or not read, since the sweep began
  unsure       \* history: the same for the sweep whose statuses are published

tableVars == <<enabled, snaps>>
sweepVars == <<sweeping, left, found, sweptAt>>
vars == <<clock, tableVars, sweeping, left, found, sweptAt, statuses, checkedAt, moved, unsure>>

NoneFound == [s \in Lists |-> "none"]

Init ==
  /\ clock = 0
  /\ enabled = Lists
  /\ snaps = [s \in Lists |-> <<>>]
  /\ sweeping = FALSE /\ left = {} /\ found = NoneFound /\ sweptAt = 0
  /\ statuses = NoneFound /\ checkedAt = 0
  /\ moved = {} /\ unsure = Lists

Pass ==
  /\ clock < MaxClock /\ clock' = clock + 1
  /\ UNCHANGED <<tableVars, sweepVars, statuses, checkedAt, moved, unsure>>

StoredSnapshots == UNION {{s} \X DOMAIN snaps[s] : s \in Lists}

Written(s) == moved' = moved \cup {s} /\ unsure' = unsure \cup {s}

(* UpdateSource stored a list of n domains. A download that is answered 304, or
   fails, stores nothing. *)
Download(s, n) ==
  /\ s \in enabled /\ Cardinality(StoredSnapshots) < MaxSnapshots
  /\ snaps' = [snaps EXCEPT ![s] = <<[size |-> n, at |-> clock]>> \o @]
  /\ Written(s)
  /\ UNCHANGED <<clock, enabled, sweepVars, statuses, checkedAt>>

(* An administrator switches the source off, which drops its snapshots, or on. *)
Toggle(s) ==
  /\ enabled' = IF s \in enabled THEN enabled \ {s} ELSE enabled \cup {s}
  /\ snaps' = [snaps EXCEPT ![s] = <<>>]
  /\ Written(s)
  /\ UNCHANGED <<clock, sweepVars, statuses, checkedAt>>

-----------------------------------------------------------------------------
(* CheckOnce: ListSources (an error ends the sweep, the statuses stay) ... *)
ListSources ==
  /\ ~sweeping /\ sweeping' = TRUE
  /\ left' = enabled
  /\ sweptAt' = clock
  /\ moved' = {}
  /\ UNCHANGED <<clock, tableVars, found, statuses, checkedAt, unsure>>

(* evaluate, on the newest snapshot and the one before it; halving a list is
   the collapse ratio of 0.5. *)
Collapsed(recent) == Len(recent) > 1 /\ recent[2].size > 0 /\ 2 * recent[1].size < recent[2].size

Evaluate(recent, now) ==
  IF recent = <<>> THEN "no_data"
  ELSE IF recent[1].size = 0 THEN "no_data"
  ELSE IF Collapsed(recent) THEN "collapsed"
  ELSE IF StaleLimit > 0 /\ now - recent[1].at > StaleLimit THEN "stale"
  ELSE "ok"

(* GetRecentSnapshots(source, 2). *)
Recent_One(s) == IF snaps[s] = <<>> THEN <<>> ELSE <<snaps[s][1]>>
Recent(s) == SubSeq(snaps[s], 1, IF Len(snaps[s]) < 2 THEN Len(snaps[s]) ELSE 2)

(* ... each source in turn; one whose snapshots cannot be read counts as one
   without any ... *)
CheckSource(s) ==
  /\ s \in left
  /\ left' = left \ {s}
  /\ \/ found' = [found EXCEPT ![s] = Evaluate(Recent(s), sweptAt)] /\ UNCHANGED moved
     \/ found' = [found EXCEPT ![s] = Evaluate(<<>>, sweptAt)] /\ moved' = moved \cup {s}
  /\ UNCHANGED <<clock, tableVars, sweeping, sweptAt, statuses, checkedAt, unsure>>

(* ... and the statuses are replaced as a whole. *)
Publish ==
  /\ sweeping /\ left = {}
  /\ sweeping' = FALSE
  /\ statuses' = found /\ checkedAt' = sweptAt
  /\ found' = NoneFound
  /\ unsure' = moved
  /\ UNCHANGED <<clock, tableVars, left, sweptAt, moved>>

Next ==
  \/ Pass \/ ListSources \/ Publish
  \/ \E s \in Lists : CheckSource(s) \/ Toggle(s) \/ \E n \in Sizes : Download(s, n)

Spec == Init /\ [][Next]_vars

-----------------------------------------------------------------------------
(* The list of s is usable at time t: not empty, at least half as long as the
   one it replaced, and downloaded recently unless no limit is set. *)
Usable(s, t) ==
  /\ snaps[s] # <<>> /\ snaps[s][1].size > 0
  /\ Len(snaps[s]) > 1 => 2 * snaps[s][1].size >= snaps[s][2].size
  /\ StaleLimit = 0 \/ t <= snaps[s][1].at + StaleLimit

(* The published statuses are those of one moment: each source that was not
   written since the sweep began is reported healthy if and only if its list was
   usable then, and the sources without a status are the disabled ones. *)
HealthIsRight ==
  \A s \in Lists \ unsure :
    /\ statuses[s] = "none" <=> s \notin enabled
    /\ s \in enabled => (statuses[s] = "ok" <=> Usable(s, checkedAt))
=============================================================================
