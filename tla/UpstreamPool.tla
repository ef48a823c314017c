---------------------------- MODULE UpstreamPool ----------------------------
(***************************************************************************)
(* One plain upstream resolver of the DNS engine                           *)
(* (internal/dnsengine/connections.go): a single UDP socket shared by all  *)
(* query goroutines under UDPClient.mu, and a fixed array of TCP slots     *)
(* under UpstreamPool.mu used when UDP fails or the answer is truncated.   *)
(*                                                                         *)
(* Every Exchange call is numbered; the number stands for its question,    *)
(* for the answer to that question and, because one call dials at most     *)
(* once, for the TCP connection the call dials.                            *)
(***************************************************************************)
EXTENDS Naturals, Sequences, FiniteSets

CONSTANTS
  Goroutines,    \* query goroutines that call Exchange, one call at a time
  NoOne,         \* mutex value: nobody holds the lock
  MaxConns,      \* maxConns: number of TCP slots
  MaxExchanges   \* bound: Exchange calls made during a behaviour

ASSUME PoolAssumption ==
  /\ MaxConns \in Nat \ {0}
  /\ MaxExchanges \in Nat
  /\ NoOne \notin Goroutines

Slots     == 0 .. MaxConns - 1
Exchanges == 1 .. MaxExchanges
Nil       == 0                     \* nil *net.TCPConn, no slot id, error result
NoSlot    == MaxConns              \* idx = -1

VARIABLES
  pc,        \* pc[g]: where goroutine g is inside Exchange
  asked,     \* asked[g]: number of g's current (or last) Exchange call
  answer,    \* answer[g]: what that call returned; Nil is an error
  slot,      \* slot[g]: TCP slot g reserved, NoSlot if none
  held,      \* held[g]: TCP connection g performs I/O on
  hadErr,    \* hadErr[g]: argument of the deferred releaseTCPConn
  issued,    \* Exchange calls made so far
  udpMu,     \* holder of UDPClient.mu
  udpOpen,   \* UDPClient.conn # nil
  inFlight,  \* UDP queries on the wire or at the resolver
  rcvBuf,    \* datagrams waiting in the UDP socket's receive buffer
  timedOut,  \* history: some UDP read has hit its deadline
  conns,     \* conns[i]
  inUse,     \* inUse[i]
  next,      \* round-robin cursor
  closed,    \* pool closed flag
  closing,   \* Close holds p.mu and waits for UDPClient.mu
  openTCP,   \* TCP sockets the process has open to this resolver
  panicked   \* the process died on a nil UDPClient.conn

exchangeVars == <<pc, asked, answer, slot, held, hadErr, issued>>
udpVars      == <<udpMu, udpOpen, inFlight, rcvBuf, timedOut>>
poolVars     == <<conns, inUse, next, closed, closing, openTCP>>
vars         == <<exchangeVars, udpVars, poolVars, panicked>>

Labels == {"idle", "udp", "udpRead", "getTCP", "dial", "dialed",
           "tcpDeadline", "tcpIO", "release"}

\* Program points at which a goroutine has reserved the slot slot[g].
HasSlot(g) == pc[g] \in {"dial", "dialed", "tcpDeadline", "tcpIO", "release"}
\* Program points at which a goroutine uses the connection held[g].
HasConn(g) == pc[g] \in {"tcpDeadline", "tcpIO", "release"}

\* p.mu is free: every critical section but the one of Close is one step.
PoolUnlocked == ~closing

-----------------------------------------------------------------------------
(* NewUpstreamPool: a connected UDP socket and empty slots. *)
Init ==
  /\ pc = [g \in Goroutines |-> "idle"]
  /\ asked = [g \in Goroutines |-> Nil]
  /\ answer = [g \in Goroutines |-> Nil]
  /\ slot = [g \in Goroutines |-> NoSlot]
  /\ held = [g \in Goroutines |-> Nil]
  /\ hadErr = [g \in Goroutines |-> FALSE]
  /\ issued = 0
  /\ udpMu = NoOne
  /\ udpOpen = TRUE
  /\ inFlight = {}
  /\ rcvBuf = <<>>
  /\ timedOut = FALSE
  /\ conns = [i \in Slots |-> Nil]
  /\ inUse = [i \in Slots |-> FALSE]
  /\ next = 0
  /\ closed = FALSE
  /\ closing = FALSE
  /\ openTCP = {}
  /\ panicked = FALSE

Goto(g, label) == pc' = [pc EXCEPT ![g] = label]

(* Exchange returns r to its caller. *)
Return(g, r) ==
  /\ Goto(g, "idle")
  /\ answer' = [answer EXCEPT ![g] = r]

-----------------------------------------------------------------------------
(* A query goroutine calls Exchange with a new question. *)
Call(g) ==
  /\ ~panicked /\ pc[g] = "idle" /\ issued < MaxExchanges
  /\ issued' = issued + 1
  /\ asked' = [asked EXCEPT ![g] = issued + 1]
  /\ answer' = [answer EXCEPT ![g] = Nil]
  /\ Goto(g, "udp")
  /\ UNCHANGED <<slot, held, hadErr, udpVars, poolVars, panicked>>

(* UDPClient.mu: Lock succeeds when nobody holds it; the deferred Unlock runs
   on every return path. *)
UdpMuFree_NoMutex == TRUE
UdpMuFree == udpMu = NoOne

UdpUnlock_NotOnError == UNCHANGED udpMu
UdpUnlock == udpMu' = NoOne

(* UDPClient.Exchange up to WriteMsg: take the mutex and send. A write error
   releases the mutex and falls back to TCP. *)
UdpSend(g) ==
  /\ ~panicked /\ pc[g] = "udp" /\ UdpMuFree /\ udpOpen
  /\ \/ /\ udpMu' = g
        /\ inFlight' = inFlight \cup {asked[g]}
        /\ Goto(g, "udpRead")
     \/ /\ Goto(g, "getTCP")
        /\ UNCHANGED <<udpMu, inFlight>>
  /\ UNCHANGED <<asked, answer, slot, held, hadErr, issued, udpOpen, rcvBuf,
                 timedOut, poolVars, panicked>>

(* UDPClient.Exchange on a closed client dereferences the nil conn. *)
UdpNil(g) ==
  /\ ~panicked /\ pc[g] = "udp" /\ UdpMuFree /\ ~udpOpen
  /\ panicked' = TRUE
  /\ UNCHANGED <<exchangeVars, udpVars, poolVars>>

(* The resolver's reply to question n reaches the socket, or, after Close,
   nobody. A lost datagram is a reply that never arrives. *)
UdpReply(n) ==
  /\ ~panicked /\ n \in inFlight
  /\ inFlight' = inFlight \ {n}
  /\ rcvBuf' = IF udpOpen THEN Append(rcvBuf, n) ELSE rcvBuf
  /\ UNCHANGED <<exchangeVars, udpMu, udpOpen, timedOut, poolVars, panicked>>

(* ReadMsg takes the first datagram of the buffer, whichever question it
   answers, and the mutex is released. A complete answer is returned; a
   truncated or malformed one leads to TCP. *)
UdpRead(g) ==
  /\ ~panicked /\ pc[g] = "udpRead" /\ rcvBuf # <<>>
  /\ rcvBuf' = Tail(rcvBuf)
  /\ UdpUnlock
  /\ \/ Return(g, Head(rcvBuf))
     \/ Goto(g, "getTCP") /\ UNCHANGED answer
  /\ UNCHANGED <<asked, slot, held, hadErr, issued, udpOpen, inFlight,
                 timedOut, poolVars, panicked>>

(* The read deadline of defaultQueryTimeout passes. *)
UdpTimeout(g) ==
  /\ ~panicked /\ pc[g] = "udpRead"
  /\ timedOut' = TRUE
  /\ UdpUnlock
  /\ Goto(g, "getTCP")
  /\ UNCHANGED <<asked, answer, slot, held, hadErr, issued, udpOpen, inFlight,
                 rcvBuf, poolVars, panicked>>

-----------------------------------------------------------------------------
(* The slot the round-robin scan of getTCPConn stops at. *)
FirstFree_Unchecked(idx) == idx = next
FirstFree(idx) ==
  \E i \in Slots :
    /\ idx = (next + i) % MaxConns
    /\ ~inUse[idx]
    /\ \A j \in 0 .. i - 1 : inUse[(next + j) % MaxConns]

NextCursor_NoWrap(idx) == idx + 1
NextCursor(idx) == (idx + 1) % MaxConns

(* getTCPConn, error returns: pool closed or every slot busy. *)
GetTCPRefused(g) ==
  /\ ~panicked /\ pc[g] = "getTCP" /\ PoolUnlocked
  /\ closed \/ \A i \in Slots : inUse[i]
  /\ Return(g, Nil)
  /\ UNCHANGED <<asked, slot, held, hadErr, issued, udpVars, poolVars, panicked>>

(* getTCPConn: reserve a slot; with a live connection go straight to I/O,
   otherwise dial with p.mu released. *)
GetTCPConn(g) ==
  /\ ~panicked /\ pc[g] = "getTCP" /\ PoolUnlocked /\ ~closed
  /\ \E idx \in Slots :
       /\ FirstFree(idx)
       /\ inUse' = [inUse EXCEPT ![idx] = TRUE]
       /\ next' = NextCursor(idx)
       /\ slot' = [slot EXCEPT ![g] = idx]
       /\ held' = [held EXCEPT ![g] = conns[idx]]
       /\ Goto(g, IF conns[idx] # Nil THEN "tcpDeadline" ELSE "dial")
  /\ hadErr' = [hadErr EXCEPT ![g] = FALSE]
  /\ UNCHANGED <<asked, answer, issued, udpVars, conns, closed, closing,
                 openTCP, panicked>>

(* Dial succeeds: the socket exists before the slot knows it. *)
DialOK(g) ==
  /\ ~panicked /\ pc[g] = "dial"
  /\ openTCP' = openTCP \cup {asked[g]}
  /\ Goto(g, "dialed")
  /\ UNCHANGED <<asked, answer, slot, held, hadErr, issued, udpVars, conns,
                 inUse, next, closed, closing, panicked>>

ConnStored_Forgotten(g) == conns
ConnStored(g) == [conns EXCEPT ![slot[g]] = asked[g]]

(* getTCPConn relocks p.mu and stores the connection; closed is not
   examined again. *)
StoreConn(g) ==
  /\ ~panicked /\ pc[g] = "dialed" /\ PoolUnlocked
  /\ conns' = ConnStored(g)
  /\ held' = [held EXCEPT ![g] = asked[g]]
  /\ Goto(g, "tcpDeadline")
  /\ UNCHANGED <<asked, answer, slot, hadErr, issued, udpVars, inUse, next,
                 closed, closing, openTCP, panicked>>

(* Dial fails: the slot is released and the error returned. *)
DialErr(g) ==
  /\ ~panicked /\ pc[g] = "dial" /\ PoolUnlocked
  /\ inUse' = [inUse EXCEPT ![slot[g]] = FALSE]
  /\ slot' = [slot EXCEPT ![g] = NoSlot]
  /\ Return(g, Nil)
  /\ UNCHANGED <<asked, held, hadErr, issued, udpVars, conns, next, closed,
                 closing, openTCP, panicked>>

(* SetDeadline fails exactly on a socket already closed; hadErr stays false. *)
TcpDeadline(g) ==
  /\ ~panicked /\ pc[g] = "tcpDeadline"
  /\ Goto(g, IF held[g] \in openTCP THEN "tcpIO" ELSE "release")
  /\ UNCHANGED <<asked, answer, slot, held, hadErr, issued, udpVars, poolVars,
                 panicked>>

(* WriteMsg and ReadMsg on the TCP connection. *)
TcpIO(g) ==
  /\ ~panicked /\ pc[g] = "tcpIO"
  /\ \/ /\ held[g] \in openTCP
        /\ answer' = [answer EXCEPT ![g] = asked[g]]
        /\ UNCHANGED hadErr
     \/ /\ hadErr' = [hadErr EXCEPT ![g] = TRUE]
        /\ UNCHANGED answer
  /\ Goto(g, "release")
  /\ UNCHANGED <<asked, slot, held, issued, udpVars, poolVars, panicked>>

(* The socket releaseTCPConn closes before it empties the slot. *)
ReleasedSocket_NotClosed(g) == {}
ReleasedSocket(g) == {conns[slot[g]]}

(* The deferred releaseTCPConn: only a failed exchange gives the slot back. *)
ReleaseTCPConn(g) ==
  /\ ~panicked /\ pc[g] = "release" /\ PoolUnlocked
  /\ IF hadErr[g]
     THEN /\ openTCP' = openTCP \ ReleasedSocket(g)
          /\ conns' = [conns EXCEPT ![slot[g]] = Nil]
          /\ inUse' = [inUse EXCEPT ![slot[g]] = FALSE]
     ELSE UNCHANGED <<openTCP, conns, inUse>>
  /\ slot' = [slot EXCEPT ![g] = NoSlot]
  /\ held' = [held EXCEPT ![g] = Nil]
  /\ Goto(g, "idle")
  /\ UNCHANGED <<asked, answer, hadErr, issued, udpVars, next, closed, closing,
                 panicked>>

-----------------------------------------------------------------------------
(* UpstreamPool.Close takes p.mu and marks the pool closed; a second call
   returns at once and changes nothing. *)
CloseBegin ==
  /\ ~panicked /\ PoolUnlocked /\ ~closed
  /\ closed' = TRUE
  /\ closing' = TRUE
  /\ UNCHANGED <<exchangeVars, udpVars, conns, inUse, next, openTCP, panicked>>

(* ... waits for a UDP exchange in progress, closes the UDP socket, then
   closes and clears every slot that has a connection. *)
CloseSockets ==
  /\ ~panicked /\ closing /\ UdpMuFree
  /\ udpOpen' = FALSE
  /\ openTCP' = openTCP \ {conns[i] : i \in Slots}
  /\ conns' = [i \in Slots |-> Nil]
  /\ inUse' = [i \in Slots |-> inUse[i] /\ conns[i] = Nil]
  /\ closing' = FALSE
  /\ UNCHANGED <<exchangeVars, udpMu, inFlight, rcvBuf, timedOut, next, closed,
                 panicked>>

-----------------------------------------------------------------------------
ExchangeStep(g) ==
  \/ UdpSend(g) \/ UdpNil(g) \/ UdpRead(g) \/ UdpTimeout(g)
  \/ GetTCPRefused(g) \/ GetTCPConn(g) \/ DialOK(g) \/ StoreConn(g)
  \/ DialErr(g) \/ TcpDeadline(g) \/ TcpIO(g) \/ ReleaseTCPConn(g)

Next ==
  \/ \E g \in Goroutines : Call(g) \/ ExchangeStep(g)
  \/ \E n \in Exchanges : UdpReply(n)
  \/ CloseBegin
  \/ CloseSockets

Spec == Init /\ [][Next]_vars

(* Every I/O call has a deadline or a dial timeout, and Go's mutexes are
   starvation free: a goroutine that keeps waiting for a lock that is released
   again and again obtains it. Hence strong fairness for the two steps that
   take UDPClient.mu and weak fairness for the others. Callers, the network
   and the decision to close are not fair. *)
Fairness ==
  /\ \A g \in Goroutines : /\ SF_vars(UdpSend(g) \/ UdpNil(g))
                           /\ WF_vars(ExchangeStep(g))
  /\ SF_vars(CloseSockets)

FairSpec == Spec /\ Fairness

-----------------------------------------------------------------------------
(* Every variable has its type. *)
TypeOK ==
  /\ pc \in [Goroutines -> Labels]
  /\ asked \in [Goroutines -> 0 .. MaxExchanges]
  /\ answer \in [Goroutines -> 0 .. MaxExchanges]
  /\ slot \in [Goroutines -> 0 .. MaxConns]
  /\ held \in [Goroutines -> 0 .. MaxExchanges]
  /\ hadErr \in [Goroutines -> BOOLEAN]
  /\ issued \in 0 .. MaxExchanges
  /\ udpMu \in Goroutines \cup {NoOne}
  /\ udpOpen \in BOOLEAN
  /\ inFlight \in SUBSET Exchanges
  /\ rcvBuf \in Seq(Exchanges)
  /\ timedOut \in BOOLEAN
  /\ conns \in [Slots -> 0 .. MaxExchanges]
  /\ inUse \in [Slots -> BOOLEAN]
  /\ next \in Slots
  /\ closed \in BOOLEAN
  /\ closing \in BOOLEAN
  /\ openTCP \in SUBSET Exchanges
  /\ panicked \in BOOLEAN

(* getTCPConn unlocks p.mu while it dials: no two exchanges may nevertheless
   own the same slot, and a slot that has an owner must stay reserved until
   the pool is closed. *)
SlotExclusive ==
  /\ \A g, h \in Goroutines :
       HasSlot(g) /\ HasSlot(h) /\ slot[g] = slot[h] => g = h
  /\ \A g \in Goroutines : HasSlot(g) /\ ~closed => inUse[slot[g]]

(* Until Close, the connection an exchange reads and writes is the one stored
   in its slot, it is open, and no other exchange uses it: releaseTCPConn,
   which closes conns[idx], never closes a connection under another query. *)
ConnStaysOpenInUse ==
  ~closed => \A g \in Goroutines : HasConn(g) =>
    /\ held[g] = conns[slot[g]]
    /\ held[g] \in openTCP
    /\ \A h \in Goroutines : HasConn(h) /\ held[h] = held[g] => h = g

(* No two exchanges share a slot or a connection, though getTCPConn dials with
   the pool unlocked and releaseTCPConn closes by slot number. *)
ConnUseIsExclusive == SlotExclusive /\ ConnStaysOpenInUse

(* Socket c occupies slot i: it is stored there, or was just dialed for it. *)
SocketInSlot(c, i) ==
  \/ conns[i] = c
  \/ \E g \in Goroutines : pc[g] = "dialed" /\ asked[g] = c /\ slot[g] = i

(* No socket is lost track of: each open TCP socket occupies a slot, and no
   two occupy the same one. So a pool never has more than MaxConns TCP sockets
   open, whatever dials, errors and Close interleave. *)
SocketsAccountedFor ==
  /\ \A c \in openTCP : \E i \in Slots : SocketInSlot(c, i)
  /\ \A c, d \in openTCP : \A i \in Slots :
       SocketInSlot(c, i) /\ SocketInSlot(d, i) => c = d

(* Replies are not matched to questions by message id, so only the mutex
   keeps answers apart. It suffices as long as every reply arrives before its
   read deadline: then Exchange never returns the answer to another query. *)
AnswersMatchUntilTimeout ==
  ~timedOut => \A g \in Goroutines : answer[g] \in {Nil, asked[g]}

(* Every call of Exchange returns (or the process dies): nobody waits forever
   for UDPClient.mu, for p.mu while Close holds it, or for a slot. *)
ExchangeReturns ==
  \A g \in Goroutines : pc[g] # "idle" ~> (pc[g] = "idle" \/ panicked)

(* Close, which keeps p.mu while it waits for a UDP exchange that may last the
   whole query timeout, ends. *)
CloseReturns == closing ~> (~closing \/ panicked)

(* Nobody waits for ever in connections.go. *)
CallsReturn == ExchangeReturns /\ CloseReturns

-----------------------------------------------------------------------------
(* What the comments of connections.go promise and the code does not keep.   *)

(* "releaseTCPConn releases the connection at index idx back to the pool":
   a slot is reserved only while some exchange owns it. *)
ReservedSlotHasOwner ==
  \A i \in Slots : inUse[i] => \E g \in Goroutines : HasSlot(g) /\ slot[g] = i

(* "Close shuts down the pool and closes all sockets": once Close has returned
   and the exchanges it met have returned, no TCP socket is open. *)
ClosedPoolHasNoSockets ==
  closed /\ ~closing /\ (\A g \in Goroutines : pc[g] = "idle") => openTCP = {}

(* An upstream "always should" echo the question it was sent: the answer
   Exchange returns is the answer to its question. *)
AnswersMatch == \A g \in Goroutines : answer[g] \in {Nil, asked[g]}

=============================================================================
