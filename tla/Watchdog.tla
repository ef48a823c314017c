------------------------------ MODULE Watchdog ------------------------------
(***************************************************************************)
(* The self-heal watchdog (internal/watchdog/watchdog.go) as               *)
(* cmd/dataplane/main.go wires it: it is launched once the DNS engine      *)
(* accepts queries, and its probe reads the engine's accept-queries flag,  *)
(* which Server.Run and the control plane change at any time.              *)
(***************************************************************************)
EXTENDS Integers

CONSTANTS
  FailureThreshold,   \* WATCHDOG_FAILURE_THRESHOLD as configured
  MaxRun              \* bound: unhealthy probes in a row

DefaultFailureThreshold == 3

(* New: values below 1 fall back to the default. *)
Threshold == IF FailureThreshold < 1 THEN DefaultFailureThreshold ELSE FailureThreshold

VARIABLES
  accepting,    \* the engine's acceptQueries flag
  started,      \* the watchdog loop runs
  probe,        \* what this cycle's probe returned, before check locks w.mu
  failures,     \* Watchdog.failures
  healthy,      \* Watchdog.healthy, what Healthy() reports
  run,          \* history: unhealthy probes since the last healthy one
  recoveries    \* history: calls of Recovery in that run

vars == <<accepting, started, probe, failures, healthy, run, recoveries>>

NoProbe == "none"

Init ==
  /\ accepting = FALSE
  /\ started = FALSE
  /\ probe = NoProbe
  /\ failures = 0
  /\ healthy = TRUE
  /\ run = 0
  /\ recoveries = 0

(* Server.Run, SetAcceptQueries: the flag flips. *)
SetAcceptQueries ==
  /\ accepting' = ~accepting
  /\ UNCHANGED <<started, probe, failures, healthy, run, recoveries>>

(* The launching goroutine of startWatchdog polls the flag, then calls Start. *)
Start ==
  /\ ~started /\ accepting
  /\ started' = TRUE
  /\ UNCHANGED <<accepting, probe, failures, healthy, run, recoveries>>

(* A tick: check begins with safeProbe. *)
SafeProbe ==
  /\ started /\ probe = NoProbe
  /\ accepting \/ run < MaxRun
  /\ probe' = IF accepting THEN "healthy" ELSE "unhealthy"
  /\ UNCHANGED <<accepting, started, failures, healthy, run, recoveries>>

(* check, healthy probe. *)
AfterHealthy_NotReset(f) == f
AfterHealthy(f) == 0

CheckHealthy ==
  /\ probe = "healthy"
  /\ failures' = AfterHealthy(failures)
  /\ healthy' = TRUE
  /\ run' = 0 /\ recoveries' = 0
  /\ probe' = NoProbe
  /\ UNCHANGED <<accepting, started>>

(* check, unhealthy probe: at the threshold the recovery runs (its panic is
   caught) and the counter starts again. *)
AtThreshold(f) == f >= Threshold

AfterUnhealthy(h) == FALSE

CheckUnhealthy ==
  /\ probe = "unhealthy"
  /\ failures' = IF AtThreshold(failures + 1) THEN 0 ELSE failures + 1
  /\ recoveries' = IF AtThreshold(failures + 1) THEN recoveries + 1 ELSE recoveries
  /\ healthy' = AfterUnhealthy(healthy)
  /\ run' = run + 1
  /\ probe' = NoProbe
  /\ UNCHANGED <<accepting, started>>

Next == SetAcceptQueries \/ Start \/ SafeProbe \/ CheckHealthy \/ CheckUnhealthy

Spec == Init /\ [][Next]_vars

-----------------------------------------------------------------------------
(* Every variable has its type; the counter never reaches the threshold. *)
TypeOK ==
  /\ accepting \in BOOLEAN /\ started \in BOOLEAN /\ healthy \in BOOLEAN
  /\ probe \in {NoProbe, "healthy", "unhealthy"}
  /\ failures \in 0 .. Threshold - 1
  /\ run \in 0 .. MaxRun
  /\ recoveries \in 0 .. MaxRun

(* Back-off: in every run of unhealthy probes the recovery has been invoked
   once per full Threshold of them, neither earlier nor in a tight loop, and a
   run shorter than the threshold triggers nothing. *)
RecoveryPerThreshold ==
  /\ recoveries = run \div Threshold
  /\ failures = run % Threshold

(* The recovery "is invoked at most once per sustained unhealthy episode". *)
OncePerEpisode == recoveries <= 1
=============================================================================
