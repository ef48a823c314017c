------------------------------ MODULE DiskHealth ------------------------------
(***************************************************************************)
(* The disk monitor of the dataplane (internal/diskhealth/diskhealth.go):  *)
(* samples of the free space, the verdict on the last one, and the growth  *)
(* between the last two. Space is counted in units of which the disk has   *)
(* Capacity, time in hours.                                                *)
(***************************************************************************)
EXTENDS Naturals, Sequences

CONSTANTS
  Capacity,
  MinFreePercent, GrowthPercentPerHour,
  MaxSamples,     \* bound: samples
  MaxClock        \* bound: time

VARIABLES
  clock,
  used,        \* space in use
  prev,        \* Monitor.prev, or NoSample
  report,      \* Monitor.last: reason and time
  samples      \* history: the samples taken

vars == <<clock, used, prev, report, samples>>

NoSample == [used |-> Capacity + 1, at |-> 0]

(* NewMonitor. *)
Init ==
  /\ clock = 0
  /\ used \in 0 .. Capacity
  /\ prev = NoSample
  /\ report = [reason |-> "", at |-> 0]
  /\ samples = <<>>

Pass ==
  /\ clock < MaxClock /\ clock' = clock + 1
  /\ UNCHANGED <<used, prev, report, samples>>

(* The query log, the blocklists and whatever else is on the disk. *)
Use(n) ==
  /\ n # used /\ used' = n
  /\ UNCHANGED <<clock, prev, report, samples>>

(* growthRatePercentPerHour(p, c) > limit, without the division: no growth
   without an earlier sample, without time between the two, or downwards. *)
GrowsFast(p, c) ==
  /\ p # NoSample /\ c.at > p.at /\ c.used > p.used
  /\ (c.used - p.used) * 100 > GrowthPercentPerHour * Capacity * (c.at - p.at)

LowSpace(c) == (Capacity - c.used) * 100 < MinFreePercent * Capacity

(* evaluate: low space is reported ahead of rapid growth. *)
Evaluate(p, c) ==
  [reason |-> IF LowSpace(c) THEN "low-space" ELSE IF GrowsFast(p, c) THEN "rapid-growth" ELSE "",
   at |-> c.at]

(* What the next sample is compared with. *)
NextPrev_FirstOnly(c) == IF prev = NoSample THEN c ELSE prev
NextPrev(c) == c

(* sample. When the disk cannot be read, status and previous sample stay. *)
Sample ==
  /\ Len(samples) < MaxSamples
  /\ LET cur == [used |-> used, at |-> clock]
     IN  /\ report' = Evaluate(prev, cur)
         /\ prev' = NextPrev(cur)
         /\ samples' = Append(samples, cur)
  /\ UNCHANGED <<clock, used>>

Next == Pass \/ Sample \/ \E n \in 0 .. Capacity : Use(n)

Spec == Init /\ [][Next]_vars

-----------------------------------------------------------------------------
(* Whatever samples failed in between, the status says what the sample of its
   time said: low space exactly when less than the minimum was free, rapid
   growth exactly when space was not low and the disk filled faster than the
   limit since the sample before it; before any sample it is healthy. *)
DiskReportIsRight ==
  LET n == Len(samples)
  IN  IF n = 0 THEN report.reason = ""
      ELSE /\ report.at = samples[n].at
           /\ report.reason = "low-space" <=>
                100 * samples[n].used > (100 - MinFreePercent) * Capacity
           /\ report.reason = "rapid-growth" =>
                /\ n > 1 /\ samples[n].used > samples[n - 1].used
                /\ samples[n].at > samples[n - 1].at
           /\ report.reason = "" /\ n > 1 /\ samples[n].at > samples[n - 1].at =>
                100 * samples[n].used <= 100 * samples[n - 1].used
                  + GrowthPercentPerHour * Capacity * (samples[n].at - samples[n - 1].at)
=============================================================================
