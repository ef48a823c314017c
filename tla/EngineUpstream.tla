--------------------------- MODULE EngineUpstream ---------------------------
(***************************************************************************)
(* The DNS engine's upstream manager and its live replacement              *)
(* (internal/dnsengine/upstream_manager.go; SetUpstreamResolvers,          *)
(* Shutdown and the forwarding half of forwardUpstream in engine.go):      *)
(* query goroutines load an atomic pointer and retry and fail over on the  *)
(* manager they loaded, while gRPC goroutines build a new manager, swap it *)
(* in and close the old one, and Server.Run drains and shuts down.         *)
(*                                                                         *)
(* One Exchange of one upstream is one step: UpstreamPool shows that Close *)
(* waits for a UDP exchange in progress and that the next one dereferences *)
(* the nil connection.                                                     *)
(***************************************************************************)
EXTENDS EngineUpstreamParameters

VARIABLES
  current,    \* Engine.upstreamManager
  built,      \* managers NewUpstreamManager has begun to build
  size,       \* size[m]: length of manager m's resolver list
  caseRand,   \* caseRand[m]: UpstreamManager.dns0x20
  open,       \* open[m]: positions of m whose upstream exists and is not closed
  qpc,        \* qpc[q]: "idle" or "trying" (inside UpstreamManager.Exchange)
  loaded,     \* loaded[q]: manager q works on
  pos,        \* pos[q]: upstream it tries
  attempt,    \* attempt[q]: retry counter of that upstream
  fails,      \* history, fails[q][u]: failed attempts of this query on u
  outcome,    \* outcome[q]: "none", "answer" or "error" of the last Exchange
  apc,        \* apc[a]: "idle", "build", "swap" or "close"
  amgr,       \* amgr[a]: manager a builds, then the one it closes
  aleft,      \* aleft[a]: positions a has still to build or close
  abandoned,  \* history: managers whose construction failed
  phase,      \* Server.Run: "serving", "draining", "closing", "exited"
  panicked    \* history: manager whose nil connection killed the process

queryVars == <<qpc, loaded, pos, attempt, fails, outcome>>
applyVars == <<apc, amgr, aleft, abandoned>>
mgrVars   == <<current, built, size, caseRand, open>>
vars      == <<mgrVars, queryVars, applyVars, phase, panicked>>

Alive == panicked = None
NoFails == [u \in Positions |-> 0]

(* NewDNSEngine with the configured list and DNS_0X20 on. *)
Init ==
  /\ current = 1
  /\ built = 1
  /\ size = [m \in Managers |-> IF m = 1 THEN MaxUpstreams ELSE 0]
  /\ caseRand = [m \in Managers |-> m = 1]
  /\ open = [m \in Managers |-> IF m = 1 THEN Positions ELSE {}]
  /\ qpc = [q \in Queries |-> "idle"]
  /\ loaded = [q \in Queries |-> None]
  /\ pos = [q \in Queries |-> 1]
  /\ attempt = [q \in Queries |-> 0]
  /\ fails = [q \in Queries |-> NoFails]
  /\ outcome = [q \in Queries |-> "none"]
  /\ apc = [a \in Appliers |-> "idle"]
  /\ amgr = [a \in Appliers |-> None]
  /\ aleft = [a \in Appliers |-> {}]
  /\ abandoned = {}
  /\ phase = "serving"
  /\ panicked = None

-----------------------------------------------------------------------------
(* forwardUpstream loads the pointer and enters Exchange; with an empty list
   the loop body never runs and (nil, nil) is returned. *)
LoadUpstream(q) ==
  /\ Alive /\ phase = "serving" /\ qpc[q] = "idle"
  /\ loaded' = [loaded EXCEPT ![q] = current]
  /\ pos' = [pos EXCEPT ![q] = 1]
  /\ attempt' = [attempt EXCEPT ![q] = 0]
  /\ fails' = [fails EXCEPT ![q] = NoFails]
  /\ IF size[current] = 0
     THEN outcome' = [outcome EXCEPT ![q] = "error"] /\ UNCHANGED qpc
     ELSE /\ outcome' = [outcome EXCEPT ![q] = "none"]
          /\ qpc' = [qpc EXCEPT ![q] = "trying"]
  /\ UNCHANGED <<mgrVars, applyVars, phase, panicked>>

(* A plain upstream that was closed has a nil connection; DoT dials for each
   query and DoH's Close drops idle connections only. *)
Usable(m, u) == u \in Plain => u \in open[m]

ExchangeOK(q) ==
  /\ Alive /\ qpc[q] = "trying" /\ Usable(loaded[q], pos[q])
  /\ outcome' = [outcome EXCEPT ![q] = "answer"]
  /\ qpc' = [qpc EXCEPT ![q] = "idle"]
  /\ UNCHANGED <<mgrVars, loaded, pos, attempt, fails, applyVars, phase, panicked>>

(* The inner loop's bound. *)
Exhausted_Early(n) == n + 1 >= MaxRetries
Exhausted(n) == n >= MaxRetries

(* There is another upstream in the list. *)
HasNext(q) == pos[q] < size[loaded[q]]

NextPos(q) == pos[q] + 1

(* One failed attempt: retry, fail over, or give up after the last upstream.
   The history counter saturates. *)
ExchangeErr(q) ==
  /\ Alive /\ qpc[q] = "trying" /\ Usable(loaded[q], pos[q])
  /\ fails' = [fails EXCEPT ![q][pos[q]] = IF @ < MaxRetries THEN @ + 1 ELSE @]
  /\ IF ~Exhausted(attempt[q] + 1)
     THEN /\ attempt' = [attempt EXCEPT ![q] = @ + 1]
          /\ UNCHANGED <<pos, qpc, outcome>>
     ELSE IF HasNext(q)
     THEN /\ attempt' = [attempt EXCEPT ![q] = 0]
          /\ pos' = [pos EXCEPT ![q] = NextPos(q)]
          /\ UNCHANGED <<qpc, outcome>>
     ELSE /\ outcome' = [outcome EXCEPT ![q] = "error"]
          /\ qpc' = [qpc EXCEPT ![q] = "idle"]
          /\ UNCHANGED <<attempt, pos>>
  /\ UNCHANGED <<mgrVars, loaded, applyVars, phase, panicked>>

(* The nil connection is dereferenced; nothing recovers the panic. *)
ExchangePanic(q) ==
  /\ Alive /\ qpc[q] = "trying" /\ ~Usable(loaded[q], pos[q])
  /\ panicked' = loaded[q]
  /\ UNCHANGED <<mgrVars, queryVars, applyVars, phase>>

-----------------------------------------------------------------------------
(* SetUpstreamResolvers is called with a list of n resolvers. The new manager
   is built without the WithDNS0x20 option. *)
ApplyBegin(a) ==
  /\ Alive /\ phase # "exited" /\ apc[a] = "idle" /\ built < MaxManagers
  /\ \E n \in 0 .. MaxUpstreams :
       /\ size' = [size EXCEPT ![built + 1] = n]
       /\ aleft' = [aleft EXCEPT ![a] = 1 .. n]
  /\ built' = built + 1
  /\ caseRand' = [caseRand EXCEPT ![built + 1] = FALSE]
  /\ amgr' = [amgr EXCEPT ![a] = built + 1]
  /\ apc' = [apc EXCEPT ![a] = "build"]
  /\ UNCHANGED <<current, open, queryVars, abandoned, phase, panicked>>

(* newUpstream for the next entry. *)
BuildUpstream(a) ==
  /\ Alive /\ phase # "exited" /\ apc[a] = "build"
  /\ \E u \in aleft[a] :
       /\ \A v \in aleft[a] : u <= v
       /\ open' = [open EXCEPT ![amgr[a]] = @ \cup {u}]
       /\ aleft' = [aleft EXCEPT ![a] = @ \ {u}]
  /\ UNCHANGED <<current, built, size, caseRand, queryVars, apc, amgr, abandoned,
                 phase, panicked>>

(* newUpstream fails: the error is returned, what was built is forgotten. *)
BuildErr(a) ==
  /\ Alive /\ phase # "exited" /\ apc[a] = "build" /\ aleft[a] # {}
  /\ abandoned' = abandoned \cup {amgr[a]}
  /\ apc' = [apc EXCEPT ![a] = "idle"]
  /\ UNCHANGED <<mgrVars, queryVars, amgr, aleft, phase, panicked>>

(* NewUpstreamManager has returned the complete manager. *)
BuildDone(a) == aleft[a] = {}

(* The manager to close is the one Swap returned. *)
SwappedOut(a) == current

(* upstreamManager.Swap: atomic exchange of the pointer. *)
Swap(a) ==
  /\ Alive /\ phase # "exited" /\ apc[a] = "build" /\ BuildDone(a)
  /\ current' = amgr[a]
  /\ amgr' = [amgr EXCEPT ![a] = SwappedOut(a)]
  /\ aleft' = [aleft EXCEPT ![a] = 1 .. size[SwappedOut(a)]]
  /\ apc' = [apc EXCEPT ![a] = "close"]
  /\ UNCHANGED <<built, size, caseRand, open, queryVars, abandoned, phase, panicked>>

(* UpstreamManager.Close, one upstream at a time, in order. *)
ClosesUpTo_FirstOnly(a) == {1}
ClosesUpTo(a) == Positions

CloseUpstream(a) ==
  /\ Alive /\ phase # "exited" /\ apc[a] = "close" /\ aleft[a] # {}
  /\ \E u \in aleft[a] :
       /\ \A v \in aleft[a] : u <= v
       /\ open' = [open EXCEPT ![amgr[a]] = @ \ ({u} \cap ClosesUpTo(a))]
       /\ aleft' = [aleft EXCEPT ![a] = @ \ {u}]
  /\ UNCHANGED <<current, built, size, caseRand, queryVars, apc, amgr, abandoned,
                 phase, panicked>>

ApplyReturn(a) ==
  /\ Alive /\ phase # "exited" /\ apc[a] = "close" /\ aleft[a] = {}
  /\ apc' = [apc EXCEPT ![a] = "idle"]
  /\ UNCHANGED <<mgrVars, queryVars, amgr, aleft, abandoned, phase, panicked>>

-----------------------------------------------------------------------------
(* Server.Run after the signal: no query is dispatched any more ... *)
Drain ==
  /\ Alive /\ phase = "serving"
  /\ phase' = "draining"
  /\ UNCHANGED <<mgrVars, queryVars, applyVars, panicked>>

HandlersDone_NotAwaited == TRUE
HandlersDone == \A q \in Queries : qpc[q] = "idle"

(* ... the servers' Shutdown waits for the handlers, then Engine.Shutdown
   closes the manager it loads (DoT and DoH have nothing to lose). The gRPC
   server is still up. *)
Shutdown ==
  /\ Alive /\ phase = "draining" /\ HandlersDone
  /\ open' = [open EXCEPT ![current] = {}]
  /\ phase' = "closing"
  /\ UNCHANGED <<current, built, size, caseRand, queryVars, applyVars, panicked>>

(* Run returns and the process exits, whatever the gRPC goroutines do. *)
Exit ==
  /\ Alive /\ phase = "closing"
  /\ phase' = "exited"
  /\ UNCHANGED <<mgrVars, queryVars, applyVars, panicked>>

QueryStep(q) == ExchangeOK(q) \/ ExchangeErr(q) \/ ExchangePanic(q)
ApplyStep(a) ==
  BuildUpstream(a) \/ BuildErr(a) \/ Swap(a) \/ CloseUpstream(a) \/ ApplyReturn(a)

Next ==
  \/ \E q \in Queries : LoadUpstream(q) \/ QueryStep(q)
  \/ \E a \in Appliers : ApplyBegin(a) \/ ApplyStep(a)
  \/ Drain \/ Shutdown \/ Exit

Spec == Init /\ [][Next]_vars

-----------------------------------------------------------------------------
(* Every variable has its type. *)
TypeOK ==
  /\ current \in 1 .. built /\ built \in Managers
  /\ size \in [Managers -> 0 .. MaxUpstreams]
  /\ caseRand \in [Managers -> BOOLEAN]
  /\ open \in [Managers -> SUBSET Positions]
  /\ qpc \in [Queries -> {"idle", "trying"}]
  /\ loaded \in [Queries -> 0 .. MaxManagers]
  /\ pos \in [Queries -> Positions]
  /\ attempt \in [Queries -> 0 .. MaxRetries]
  /\ fails \in [Queries -> [Positions -> 0 .. MaxRetries]]
  /\ outcome \in [Queries -> {"none", "answer", "error"}]
  /\ apc \in [Appliers -> {"idle", "build", "close"}]
  /\ amgr \in [Appliers -> 0 .. MaxManagers]
  /\ aleft \in [Appliers -> SUBSET Positions]
  /\ abandoned \subseteq Managers
  /\ phase \in {"serving", "draining", "closing", "exited"}
  /\ panicked \in 0 .. MaxManagers

(* "New queries always read the new manager": however applies overlap, the
   manager the pointer designates is fully built and nobody closes any part of
   it before Engine.Shutdown. *)
CurrentManagerIsWhole ==
  phase \in {"serving", "draining"} => open[current] = 1 .. size[current]

(* Each manager that was replaced is closed by the apply that replaced it:
   with no apply under way, only the current manager and those whose
   construction failed hold sockets. *)
ReplacedManagersAreClosed ==
  (\A a \in Appliers : apc[a] = "idle") =>
    \A m \in Managers : open[m] # {} => m = current \/ m \in abandoned

(* However applies overlap, the sockets of managers are those of the current one
   or of one whose apply is not over. *)
ManagersAccountedFor == CurrentManagerIsWhole /\ ReplacedManagersAreClosed

(* Exchange fails over in order: a query moves past an upstream only after all
   its attempts failed there, and reports an error only after every upstream
   of the manager it loaded failed MaxRetries times. *)
FailsOverInOrder ==
  \A q \in Queries :
    /\ qpc[q] = "trying" => \A u \in 1 .. pos[q] - 1 : fails[q][u] = MaxRetries
    /\ outcome[q] = "error" =>
         \A u \in 1 .. size[loaded[q]] : fails[q][u] = MaxRetries

(* Only a replaced manager can kill the process: a query that works on the
   current manager never meets a closed upstream, Engine.Shutdown included. *)
PanicOnlyAfterSwap == ~Alive => panicked # current

(* A query fails only for a reason: every attempt failed, or it held on to a
   manager that was replaced. *)
OutcomeIsJustified == FailsOverInOrder /\ PanicOnlyAfterSwap

-----------------------------------------------------------------------------
(* What the comments promise and the code does not keep.                     *)

(* "a query that loaded the old pointer just before the swap may observe a
   closed pool and fail": it fails, it does not end the process. *)
SwapOnlyFailsQueries == Alive

(* dns_0x20 enables "case-randomization on outbound upstream queries": the
   manager in use has the option the configuration turned on. *)
CaseRandomizationKept == caseRand[current]
=============================================================================
