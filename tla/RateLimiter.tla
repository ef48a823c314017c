---------------------------- MODULE RateLimiter ----------------------------
(***************************************************************************)
(* The per-client fixed-window limiter of internal/dnsengine/ratelimit.go. *)
(* allow reads the clock before it takes the mutex, so a handler may       *)
(* decide with a time that has passed.                                     *)
(***************************************************************************)
EXTENDS Integers, FiniteSets, Sequences

CONSTANTS
  Clients, Handlers,
  PerSec,        \* queries a client may make in a window
  Second,        \* the window, in clock units
  IdleAfter,     \* rateLimiter.idleAfter
  MaxClients,    \* rateLimiter.maxClients
  MaxTime,       \* bound on the clock
  MaxQueries     \* bound on the queries of a client admitted at one instant

VARIABLES
  clock,
  clients,       \* rateLimiter.clients: a function from the tracked clients
  reading,       \* reading[h]: the call of h between its clock read and the lock
  admitted,      \* history: the queries of c let through: when, in which window, its number there
  late,          \* history: some call decided with a time that had passed
  refusal        \* history: the client the last step refused

limitVars == <<clients, reading, admitted, late, refusal>>

NoCall == [client |-> "none", now |-> 0]
NoClient == "none"

Init ==
  /\ clock = 0
  /\ clients = [c \in {} |-> 0]
  /\ reading = [h \in Handlers |-> NoCall]
  /\ admitted = [c \in Clients |-> <<>>]
  /\ late = FALSE
  /\ refusal = NoClient

(* allow up to the lock. *)
ReadNow(h, c) ==
  /\ reading[h] = NoCall
  /\ reading' = [reading EXCEPT ![h] = [client |-> c, now |-> clock]]
  /\ refusal' = NoClient
  /\ UNCHANGED <<clock, clients, admitted, late>>

(* evictIdle, called when a new client meets a full map. *)
Idle_Any(c, now) == TRUE
Idle(c, now) == now - clients[c].lastSeen >= IdleAfter

Evicted(c, now) ==
  IF c \notin DOMAIN clients /\ Cardinality(DOMAIN clients) >= MaxClients
  THEN {d \in DOMAIN clients : Idle(d, now)} ELSE {}

(* The client's window, new or rolled once a full second has elapsed. *)
Fresh(now) == [windowStart |-> now, count |-> 0, lastSeen |-> now]
Elapsed(w, now) == now - w.windowStart >= Second
Rolled(c, now) ==
  IF c \notin DOMAIN clients \/ Elapsed(clients[c], now) THEN Fresh(now)
  ELSE [clients[c] EXCEPT !.lastSeen = now]

Admissions(c, from, to) ==
  Cardinality({i \in DOMAIN admitted[c] : admitted[c][i].at \in from .. to})

(* allow under the lock. *)
Allow(h) ==
  LET c    == reading[h].client
      now  == reading[h].now
      w    == Rolled(c, now)
      kept == (DOMAIN clients \ Evicted(c, now)) \cup {c}
      ok   == w.count < PerSec
  IN /\ reading[h] # NoCall
     /\ Admissions(c, clock, clock) < MaxQueries
     /\ clients' = [d \in kept |-> IF d # c THEN clients[d]
                                   ELSE IF ok THEN [w EXCEPT !.count = @ + 1] ELSE w]
     /\ admitted' = IF ok THEN [admitted EXCEPT ![c] =
                                  Append(@, [at |-> clock, win |-> w.windowStart, no |-> w.count + 1])]
                    ELSE admitted
     /\ refusal' = IF ok THEN NoClient ELSE c
     /\ late' = (late \/ now < clock)
     /\ reading' = [reading EXCEPT ![h] = NoCall]
     /\ UNCHANGED clock

Tick ==
  /\ clock < MaxTime /\ clock' = clock + 1
  /\ refusal' = NoClient
  /\ UNCHANGED <<clients, reading, admitted, late>>

Next == Tick \/ \E h \in Handlers : Allow(h) \/ \E c \in Clients : ReadNow(h, c)

-----------------------------------------------------------------------------
(* A fixed window lets a client through at most twice PerSec in any second,
   whatever evictions its entry saw, as long as no call decided with a time
   that had passed. *)
AtMostTwoWindows ==
  ~late => \A c \in Clients, t \in 0 .. MaxTime : Admissions(c, t, t + Second - 1) <= 2 * PerSec

(* A client is refused only when it made PerSec admitted queries in the second
   up to now, again unless some call was late. *)
RefusedOnlyOverLimit ==
  refusal # NoClient /\ ~late => Admissions(refusal, clock - Second + 1, clock) >= PerSec

(* The limiter neither lets too many through nor refuses too early. *)
LimitIsKept == AtMostTwoWindows /\ RefusedOnlyOverLimit
=============================================================================
