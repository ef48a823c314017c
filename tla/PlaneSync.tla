------------------------------ MODULE PlaneSync ------------------------------
(***************************************************************************)
(* How the control plane keeps the dataplane on the stored configuration:  *)
(* the on/off switch and the upstream resolver list                        *)
(* (cmd/controlplane/handlers/dns.go and main.go, the gRPC client, the     *)
(* dataplane's StatusService, and the start-up of cmd/dataplane).          *)
(* Every handler persists, then pushes over gRPC; the two processes crash  *)
(* and restart independently and nothing reconciles them afterwards.       *)
(*                                                                         *)
(* A stored resolver list is the number of the write that produced it;     *)
(* list 0 is the configured one, with which SeedDefaults fills an empty    *)
(* table when the control plane starts.                                    *)
(***************************************************************************)
EXTENDS Naturals, FiniteSets

CONSTANTS
  Requests,      \* HTTP handler goroutines of the control plane
  Boot,          \* the main goroutine of the control plane while it starts
  MaxWrites,     \* bound: mutating requests during a behaviour
  MaxCrashes     \* bound: crashes of either process

ASSUME PlaneSyncAssumption ==
  /\ MaxWrites \in Nat /\ MaxCrashes \in Nat
  /\ Boot \notin Requests

Actors == Requests \cup {Boot}
Lists  == 0 .. MaxWrites

VARIABLES
  dbEnabled,   \* SystemState.DNSEnabled
  dbList,      \* stored resolver list
  noRows,      \* that list is empty
  writes,      \* mutating requests so far
  cp,          \* control plane: "down", "booting" or "up"
  pc,          \* pc[r]: "idle", "seed", "read", "send", "wait" or "replied"
  kind,        \* kind[r]: "switch" or "list"
  value,       \* value[r]: what r pushes
  wrote,       \* history, wrote[r]: list r's own write produced
  result,      \* result[r]: "none", "ok" or "error" of its last call
  sent,        \* gRPC calls so far
  waitsFor,    \* waitsFor[r]: number of the call r waits for
  calls,       \* calls on their way to the dataplane
  dp,          \* dataplane: "down", "booting" or "serving"
  accept,      \* the engine's acceptQueries
  running,     \* list the engine's upstream manager was built from
  crashes,
  calm         \* history: requests came one at a time, every call was answered
               \* with success and nothing crashed, since the two last agreed

dbVars   == <<dbEnabled, dbList, noRows, writes>>
callVars == <<sent, waitsFor, calls>>
reqVars  == <<pc, kind, value, wrote, result>>
dpVars   == <<dp, accept, running>>
vars     == <<dbVars, cp, reqVars, callVars, dpVars, crashes, calm>>

AllIdle == \A r \in Actors : pc[r] = "idle"

(* Both processes have started for the first time. *)
Init ==
  /\ dbEnabled = TRUE /\ dbList = 0 /\ noRows = FALSE /\ writes = 0
  /\ cp = "up"
  /\ pc = [r \in Actors |-> "idle"]
  /\ kind = [r \in Actors |-> "switch"]
  /\ value = [r \in Actors |-> TRUE]
  /\ wrote = [r \in Actors |-> 0]
  /\ result = [r \in Actors |-> "none"]
  /\ sent = 0
  /\ waitsFor = [r \in Actors |-> 0]
  /\ calls = {}
  /\ dp = "serving" /\ accept = TRUE /\ running = 0
  /\ crashes = 0
  /\ calm = TRUE

-----------------------------------------------------------------------------
(* Persist the switch, then push the requested value. *)
PersistSwitch(r) ==
  /\ cp = "up" /\ pc[r] = "idle" /\ writes < MaxWrites
  /\ \E enabled \in BOOLEAN :
       /\ dbEnabled' = enabled
       /\ value' = [value EXCEPT ![r] = enabled]
  /\ writes' = writes + 1
  /\ kind' = [kind EXCEPT ![r] = "switch"]
  /\ result' = [result EXCEPT ![r] = "none"]
  /\ pc' = [pc EXCEPT ![r] = "send"]
  /\ calm' = (calm /\ AllIdle)
  /\ UNCHANGED <<dbList, noRows, cp, wrote, callVars, dpVars, crashes>>

ToggleDnsEngine(r) == PersistSwitch(r)

(* ImportConfig: the document's switch is stored with the rest of it, in one
   transaction, and pushed; a push that fails is a warning in the answer. *)
ImportConfig(r) == PersistSwitch(r)

(* CreateResolver, UpdateResolver, DeleteResolver, which may leave no resolver:
   persist the change; what is pushed is read from the database again. *)
AfterWrite == "read"

NewList == writes + 1

ChangeResolvers(r) ==
  /\ cp = "up" /\ pc[r] = "idle" /\ writes < MaxWrites
  /\ dbList' = NewList
  /\ noRows' \in BOOLEAN
  /\ writes' = writes + 1
  /\ wrote' = [wrote EXCEPT ![r] = NewList]
  /\ kind' = [kind EXCEPT ![r] = "list"]
  /\ value' = [value EXCEPT ![r] = dbList]
  /\ result' = [result EXCEPT ![r] = "none"]
  /\ pc' = [pc EXCEPT ![r] = AfterWrite]
  /\ calm' = (calm /\ AllIdle)
  /\ UNCHANGED <<dbEnabled, cp, callVars, dpVars, crashes>>

(* main, after the push of the switch: SeedDefaults fills an empty table, or
   fails with a warning, before or after it created a row. *)
Seeded == IF noRows THEN 0 ELSE dbList

SeedDefaults ==
  /\ pc[Boot] = "seed"
  /\ dbList' = Seeded
  /\ noRows' = FALSE
  /\ pc' = [pc EXCEPT ![Boot] = "read"]
  /\ UNCHANGED <<dbEnabled, writes, cp, kind, value, wrote, result, callVars, dpVars, crashes, calm>>

SeedErr ==
  /\ pc[Boot] = "seed"
  /\ noRows' \in {noRows, FALSE}
  /\ pc' = [pc EXCEPT ![Boot] = "read"]
  /\ calm' = FALSE
  /\ UNCHANGED <<dbEnabled, dbList, writes, cp, kind, value, wrote, result, callVars, dpVars, crashes>>

(* Resolvers.Addresses, in applyResolvers and in main; main pushes no empty
   list. *)
ReadAddresses(r) ==
  /\ pc[r] = "read" /\ ~(r = Boot /\ noRows)
  /\ kind' = [kind EXCEPT ![r] = "list"]
  /\ value' = [value EXCEPT ![r] = dbList]
  /\ pc' = [pc EXCEPT ![r] = "send"]
  /\ UNCHANGED <<dbVars, cp, wrote, result, callVars, dpVars, crashes, calm>>

(* The read fails: a handler answers with an error, main goes on with a warning,
   as it does without resolvers, which seeding must have failed for. *)
NoPush(r) ==
  /\ pc[r] = "read"
  /\ result' = [result EXCEPT ![r] = "error"]
  /\ pc' = [pc EXCEPT ![r] = "idle"]
  /\ cp' = IF r = Boot THEN "up" ELSE cp
  /\ calm' = FALSE
  /\ UNCHANGED <<dbVars, kind, value, wrote, callVars, dpVars, crashes>>

(* Client.SetAcceptQueries, Client.SetUpstreamResolvers: issue the call. *)
Send(r) ==
  /\ pc[r] = "send"
  /\ sent' = sent + 1
  /\ calls' = calls \cup {[n |-> sent + 1, kind |-> kind[r], value |-> value[r]]}
  /\ waitsFor' = [waitsFor EXCEPT ![r] = sent + 1]
  /\ pc' = [pc EXCEPT ![r] = "wait"]
  /\ UNCHANGED <<dbVars, cp, kind, value, wrote, result, dpVars, crashes, calm>>

(* What follows the end of a call: a handler answers its client; the starting
   control plane logs a warning at worst and goes on with the next call. *)
AfterCall(r, res) ==
  /\ result' = [result EXCEPT ![r] = res]
  /\ pc' = [pc EXCEPT ![r] = IF r = Boot /\ kind[r] = "switch" THEN "seed" ELSE "idle"]
  /\ cp' = IF r = Boot /\ kind[r] = "list" THEN "up" ELSE cp

(* The answer arrives. *)
ReturnOK(r) ==
  /\ pc[r] = "replied"
  /\ AfterCall(r, "ok")
  /\ UNCHANGED <<dbVars, kind, value, wrote, callVars, dpVars, crashes, calm>>

(* The dataplane is unreachable, or the context's three seconds are over; the
   call may have been, or may still be, carried out. *)
GivesUp(r) == pc[r] \in {"wait", "replied"}

ReturnErr(r) ==
  /\ GivesUp(r)
  /\ AfterCall(r, "error")
  /\ calm' = FALSE
  /\ UNCHANGED <<dbVars, kind, value, wrote, callVars, dpVars, crashes>>

-----------------------------------------------------------------------------
Replied(c) == [r \in Actors |->
  IF pc[r] = "wait" /\ waitsFor[r] = c.n THEN "replied" ELSE pc[r]]

(* StatusService.SetAcceptQueries, StatusService.SetUpstreamResolvers. *)
Apply(c) ==
  /\ dp # "down" /\ c \in calls
  /\ calls' = calls \ {c}
  /\ pc' = Replied(c)
  /\ IF c.kind = "switch"
     THEN accept' = c.value /\ UNCHANGED running
     ELSE running' = c.value /\ UNCHANGED accept
  /\ UNCHANGED <<dbVars, cp, kind, value, wrote, result, sent, waitsFor, dp,
                 crashes, calm>>

(* The call is lost on the way, or the dataplane rejects the list because an
   upstream cannot be built: the caller's call ends in an error. *)
Lose(c) ==
  /\ c \in calls
  /\ calls' = calls \ {c}
  /\ calm' = FALSE
  /\ UNCHANGED <<dbVars, cp, reqVars, sent, waitsFor, dpVars, crashes>>

-----------------------------------------------------------------------------
DataplaneCrash ==
  /\ dp # "down" /\ crashes < MaxCrashes
  /\ dp' = "down"
  /\ crashes' = crashes + 1
  /\ calm' = FALSE
  /\ UNCHANGED <<dbVars, cp, reqVars, callVars, accept, running>>

(* main up to the gRPC server's start: the engine is built from the
   configuration file and refuses queries. *)
DataplaneBoot ==
  /\ dp = "down"
  /\ dp' = "booting"
  /\ accept' = FALSE
  /\ running' = 0
  /\ UNCHANGED <<dbVars, cp, reqVars, callVars, crashes, calm>>

(* Server.Run: both listeners are up. *)
ServersUp ==
  /\ dp = "booting"
  /\ dp' = "serving"
  /\ accept' = TRUE
  /\ calm' = FALSE
  /\ UNCHANGED <<dbVars, cp, reqVars, callVars, running, crashes>>

(* The control plane dies with its handlers, and with what they have done. *)
ControlplaneCrash ==
  /\ cp # "down" /\ crashes < MaxCrashes
  /\ cp' = "down"
  /\ pc' = [r \in Actors |-> "idle"]
  /\ wrote' = [r \in Actors |-> 0]
  /\ result' = [r \in Actors |-> "none"]
  /\ crashes' = crashes + 1
  /\ calm' = FALSE
  /\ UNCHANGED <<dbVars, kind, value, callVars, dpVars>>

(* main: load the system state and push the switch, then (SeedDefaults,
   ReadAddresses) the resolver list, before the HTTP API is served. *)
BootPushes_Stale == TRUE
BootPushes == dbEnabled

ControlplaneBoot ==
  /\ cp = "down"
  /\ cp' = "booting"
  /\ kind' = [kind EXCEPT ![Boot] = "switch"]
  /\ value' = [value EXCEPT ![Boot] = BootPushes]
  /\ pc' = [pc EXCEPT ![Boot] = "send"]
  /\ calm' = (dp = "serving" /\ calls = {})
  /\ UNCHANGED <<dbVars, wrote, result, callVars, dpVars, crashes>>

RequestStep(r) == ReadAddresses(r) \/ NoPush(r) \/ Send(r) \/ ReturnOK(r) \/ ReturnErr(r)

Next ==
  \/ \E r \in Requests : ToggleDnsEngine(r) \/ ImportConfig(r) \/ ChangeResolvers(r)
  \/ \E r \in Actors : RequestStep(r)
  \/ \E c \in calls : Apply(c) \/ Lose(c)
  \/ DataplaneCrash \/ DataplaneBoot \/ ServersUp
  \/ ControlplaneCrash \/ ControlplaneBoot \/ SeedDefaults \/ SeedErr

Spec == Init /\ [][Next]_vars

-----------------------------------------------------------------------------
(* Every variable has its type. *)
TypeOK ==
  /\ dbEnabled \in BOOLEAN /\ dbList \in Lists /\ noRows \in BOOLEAN /\ writes \in Lists
  /\ cp \in {"down", "booting", "up"}
  /\ pc \in [Actors -> {"idle", "seed", "read", "send", "wait", "replied"}]
  /\ kind \in [Actors -> {"switch", "list"}]
  /\ \A r \in Actors : value[r] \in IF kind[r] = "switch" THEN BOOLEAN ELSE Lists
  /\ wrote \in [Actors -> Lists]
  /\ result \in [Actors -> {"none", "ok", "error"}]
  /\ sent \in Nat /\ waitsFor \in [Actors -> 0 .. sent]
  /\ \A c \in calls :
       /\ c.n \in 1 .. sent
       /\ c.value \in IF c.kind = "switch" THEN BOOLEAN ELSE Lists
  /\ dp \in {"down", "booting", "serving"}
  /\ accept \in BOOLEAN /\ running \in Lists
  /\ crashes \in 0 .. MaxCrashes
  /\ calm \in BOOLEAN

(* Requests that come one at a time and succeed keep the dataplane on the
   stored configuration, and a start of the control plane that logs no warning
   against a serving dataplane brings it back there. *)
InSyncWhenCalm ==
  calm /\ AllIdle /\ cp = "up" => accept = dbEnabled /\ running = dbList

(* However handlers overlap, the list a resolver handler pushes contains its
   own change: success is never reported for a change that was not sent. *)
OwnChangeIsPushed ==
  \A r \in Requests :
    kind[r] = "list" /\ result[r] = "ok" => value[r] >= wrote[r]

(* What a successful request of the control plane guarantees, alone and with
   others around it. *)
PushesFollowStore == InSyncWhenCalm /\ OwnChangeIsPushed

-----------------------------------------------------------------------------
(* What the comments promise and the code does not keep.                     *)

Settled == cp = "up" /\ AllIdle /\ calls = {} /\ dp = "serving"

(* "Persist desired state (source of truth)", then apply it: with every
   request answered and no crash, the engine has the stored switch. *)
SwitchFollowsStore ==
  Settled /\ crashes = 0 /\ (\A r \in Requests : result[r] # "error")
    => accept = dbEnabled

(* A resolver change that could not be pushed is "applied on the next dataplane
   start". *)
StartAppliesStoredList ==
  Settled /\ crashes > 0 /\ (\A r \in Requests : result[r] # "error")
    => running = dbList
=============================================================================
