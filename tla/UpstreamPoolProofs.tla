------------------------- MODULE UpstreamPoolProofs -------------------------
(***************************************************************************)
(* Safety of UpstreamPool for any number of goroutines, slots and calls.   *)
(* PoolInv strengthens SlotExclusive, ConnStaysOpenInUse and               *)
(* SocketsAccountedFor; UdpInv strengthens AnswersMatchUntilTimeout.       *)
(***************************************************************************)
EXTENDS UpstreamPool, TLAPS

-----------------------------------------------------------------------------
(* Calls are numbered apart, so connections dialed by two calls differ. *)
NumbersInv ==
  /\ \A g \in Goroutines : asked[g] <= issued
  /\ \A g \in Goroutines : pc[g] # "idle" => asked[g] # Nil
  /\ \A g, h \in Goroutines : asked[g] = asked[h] /\ asked[g] # Nil => g = h
  /\ \A i \in Slots : conns[i] <= issued
  /\ \A c \in openTCP : c <= issued

(* A call that has not dialed has no socket of its own number. *)
NotDialed(g) == pc[g] \in {"udp", "udpRead", "getTCP", "dial"}

OwnerInv ==
  /\ \A g \in Goroutines : HasSlot(g) => slot[g] \in Slots
  /\ closing => closed
  /\ SlotExclusive

ConnInv ==
  /\ \A i \in Slots : conns[i] # Nil => conns[i] \in openTCP
  /\ \A i, j \in Slots : conns[i] = conns[j] /\ conns[i] # Nil => i = j
  /\ \A g \in Goroutines : NotDialed(g) => asked[g] \notin openTCP
  /\ \A g \in Goroutines : pc[g] \in {"dial", "dialed"} => conns[slot[g]] = Nil
  /\ \A g \in Goroutines : pc[g] = "dialed" =>
       asked[g] \in openTCP /\ \A i \in Slots : conns[i] # asked[g]
  /\ \A g \in Goroutines : HasConn(g) /\ ~closed =>
       held[g] # Nil /\ held[g] = conns[slot[g]]
  /\ \A c \in openTCP : \E i \in Slots : SocketInSlot(c, i)

PoolInv == NumbersInv /\ OwnerInv /\ ConnInv

(* The UDP socket serves one call at a time. Until a read times out there is
   nothing on the wire between two calls, and during a call only its own
   question or its own answer. *)
UdpInv ==
  /\ \A g \in Goroutines : udpMu = g <=> pc[g] = "udpRead"
  /\ udpMu # NoOne => udpOpen
  /\ ~timedOut =>
       /\ udpMu = NoOne => inFlight = {} /\ rcvBuf = <<>>
       /\ \A g \in Goroutines : udpMu = g =>
            \/ inFlight = {asked[g]} /\ rcvBuf = <<>>
            \/ inFlight = {} /\ rcvBuf = <<asked[g]>>
  /\ AnswersMatchUntilTimeout

-----------------------------------------------------------------------------
(* Indices produced by the round-robin scan are slots. *)
LEMMA CursorInSlots ==
  ASSUME NEW idx \in Slots
  PROVE  NextCursor(idx) \in Slots
  BY PoolAssumption, SMT DEF Slots, NextCursor

(* Type correctness of connections.go's state, for every number of
   goroutines, slots and calls. *)
THEOREM PoolTypeCorrect == Spec => []TypeOK
<1> DEFINE Numbered == \A g \in Goroutines : pc[g] # "idle" => asked[g] # Nil
<1> DEFINE T == TypeOK /\ Numbered
<1> USE DEF Goto, Nil, NoSlot, Labels
<1>1. Init => T
  BY PoolAssumption DEF Init, TypeOK, Slots, Exchanges
<1>2. T /\ [Next]_vars => T'
  <2> SUFFICES ASSUME T, [Next]_vars PROVE T'
    OBVIOUS
  <2> USE PoolAssumption DEF TypeOK, exchangeVars, udpVars, poolVars
  <2>1. ASSUME NEW g \in Goroutines, Call(g) PROVE T'
    BY <2>1 DEF Call, Exchanges
  <2>2. ASSUME NEW g \in Goroutines, UdpSend(g) PROVE T'
    <3>1. asked[g] \in Exchanges
      BY <2>2 DEF UdpSend, Exchanges
    <3>2. QED
      BY <2>2, <3>1 DEF UdpSend
  <2>3. ASSUME NEW g \in Goroutines, UdpNil(g) PROVE T'
    BY <2>3 DEF UdpNil, UdpMuFree
  <2>4. ASSUME NEW g \in Goroutines, UdpRead(g) PROVE T'
    <3>1. Head(rcvBuf) \in Exchanges /\ Tail(rcvBuf) \in Seq(Exchanges)
      BY <2>4 DEF UdpRead
    <3>2. Head(rcvBuf) \in 0 .. MaxExchanges
      BY <3>1 DEF Exchanges
    <3>3. QED
      BY <2>4, <3>1, <3>2 DEF UdpRead, UdpUnlock, Return
  <2>5. ASSUME NEW g \in Goroutines, UdpTimeout(g) PROVE T'
    BY <2>5 DEF UdpTimeout, UdpUnlock
  <2>6. ASSUME NEW g \in Goroutines, GetTCPRefused(g) PROVE T'
    BY <2>6 DEF GetTCPRefused, Return, PoolUnlocked
  <2>7. ASSUME NEW g \in Goroutines, GetTCPConn(g) PROVE T'
    <3>1. PICK idx \in Slots :
            /\ inUse' = [inUse EXCEPT ![idx] = TRUE]
            /\ next' = NextCursor(idx)
            /\ slot' = [slot EXCEPT ![g] = idx]
            /\ held' = [held EXCEPT ![g] = conns[idx]]
            /\ Goto(g, IF conns[idx] # Nil THEN "tcpDeadline" ELSE "dial")
      BY <2>7 DEF GetTCPConn
    <3>2. next' \in Slots
      BY <3>1, CursorInSlots
    <3>3. idx \in 0 .. MaxConns /\ conns[idx] \in 0 .. MaxExchanges
      BY DEF Slots
    <3>4. QED
      BY <2>7, <3>1, <3>2, <3>3 DEF GetTCPConn
  <2>8. ASSUME NEW g \in Goroutines, DialOK(g) PROVE T'
    <3>1. asked[g] \in Exchanges
      BY <2>8 DEF DialOK, Exchanges
    <3>2. QED
      BY <2>8, <3>1 DEF DialOK
  <2>9. ASSUME NEW g \in Goroutines, StoreConn(g) PROVE T'
    BY <2>9 DEF StoreConn, ConnStored, PoolUnlocked
  <2>10. ASSUME NEW g \in Goroutines, DialErr(g) PROVE T'
    <3>1. MaxConns \in 0 .. MaxConns /\ 0 \in 0 .. MaxExchanges
      OBVIOUS
    <3>2. QED
      BY <2>10, <3>1 DEF DialErr, Return
  <2>11. ASSUME NEW g \in Goroutines, TcpDeadline(g) PROVE T'
    BY <2>11 DEF TcpDeadline
  <2>12. ASSUME NEW g \in Goroutines, TcpIO(g) PROVE T'
    BY <2>12 DEF TcpIO
  <2>13. ASSUME NEW g \in Goroutines, ReleaseTCPConn(g) PROVE T'
    <3>1. MaxConns \in 0 .. MaxConns /\ 0 \in 0 .. MaxExchanges
      OBVIOUS
    <3>2. /\ openTCP' \in SUBSET Exchanges
          /\ conns' \in [Slots -> 0 .. MaxExchanges]
          /\ inUse' \in [Slots -> BOOLEAN]
      <4>1. CASE hadErr[g]
        <5>1. /\ openTCP' = openTCP \ ReleasedSocket(g)
              /\ conns' = [conns EXCEPT ![slot[g]] = 0]
              /\ inUse' = [inUse EXCEPT ![slot[g]] = FALSE]
          BY <2>13, <4>1 DEF ReleaseTCPConn
        <5>2. QED
          BY <3>1, <5>1
      <4>2. CASE ~hadErr[g]
        BY <2>13, <4>2 DEF ReleaseTCPConn
      <4>3. QED
        BY <4>1, <4>2
    <3>3. QED
      BY <2>13, <3>1, <3>2 DEF ReleaseTCPConn
  <2>14. ASSUME NEW k \in Exchanges, UdpReply(k) PROVE T'
    BY <2>14 DEF UdpReply
  <2>15. CASE CloseBegin
    BY <2>15 DEF CloseBegin
  <2>16. CASE CloseSockets
    <3>1. openTCP' \in SUBSET Exchanges
      BY <2>16 DEF CloseSockets
    <3>2. inUse' \in [Slots -> BOOLEAN]
      BY <2>16, Zenon DEF CloseSockets
    <3>3. conns' \in [Slots -> 0 .. MaxExchanges]
      BY <2>16 DEF CloseSockets
    <3>4. QED
      BY <2>16, <3>1, <3>2, <3>3 DEF CloseSockets
  <2>17. CASE UNCHANGED vars
    BY <2>17 DEF vars
  <2>18. QED
    BY <2>1, <2>2, <2>3, <2>4, <2>5, <2>6, <2>7, <2>8, <2>9, <2>10, <2>11, <2>12, <2>13, <2>14, <2>15, <2>16, <2>17
       DEF Next, ExchangeStep
<1>3. QED
  BY <1>1, <1>2, PTL DEF Spec

-----------------------------------------------------------------------------

(* Each call gets a number no socket has yet. *)
LEMMA NumbersStep ==
  ASSUME TypeOK, NumbersInv, [Next]_vars
  PROVE  NumbersInv'
<1>0. /\ issued \in Nat
      /\ pc \in [Goroutines -> Labels] /\ asked \in [Goroutines -> Nat]
      /\ slot \in [Goroutines -> Nat] /\ held \in [Goroutines -> Nat]
      /\ conns \in [Slots -> Nat] /\ inUse \in [Slots -> BOOLEAN]
      /\ openTCP \subseteq Nat \ {0}
  BY PoolAssumption DEF TypeOK, Slots, Exchanges
<1> USE <1>0
<1> USE DEF Goto, Nil, NoSlot, exchangeVars, udpVars, poolVars, NumbersInv
<1>1. ASSUME NEW g \in Goroutines, Call(g) PROVE NumbersInv'
  <2>1. /\ issued' = issued + 1 /\ asked' = [asked EXCEPT ![g] = issued + 1]
        /\ pc' = [pc EXCEPT ![g] = "udp"] /\ UNCHANGED <<conns, openTCP>>
    BY <1>1 DEF Call
  <2>2. \A h \in Goroutines : h # g => asked'[h] = asked[h] /\ pc'[h] = pc[h]
    BY <2>1
  <2>3. asked'[g] = issued + 1
    BY <2>1
  <2>4. \A h, k \in Goroutines : asked'[h] = asked'[k] /\ asked'[h] # Nil => h = k
    <3>1. \A h \in Goroutines : asked[h] \in Nat /\ asked[h] # issued + 1
      OBVIOUS
    <3>2. QED
      BY <2>2, <2>3, <3>1
  <2>5. /\ \A i \in Slots : conns[i] \in Nat /\ conns[i] <= issued + 1
        /\ \A d \in openTCP : d \in Nat /\ d <= issued + 1
    OBVIOUS
  <2>6. \A h \in Goroutines : asked'[h] <= issued' /\ (pc'[h] # "idle" => asked'[h] # Nil)
    <3> SUFFICES ASSUME NEW h \in Goroutines
                 PROVE  asked'[h] <= issued' /\ (pc'[h] # "idle" => asked'[h] # Nil)
      OBVIOUS
    <3>1. CASE h = g
      BY <2>1, <2>3, <3>1
    <3>2. CASE h # g
      BY <2>1, <2>2, <3>2
    <3>3. QED
      BY <3>1, <3>2
  <2>7. QED
    BY <2>1, <2>4, <2>5, <2>6
<1>2. ASSUME NEW g \in Goroutines, UdpSend(g) PROVE NumbersInv'
  BY <1>2 DEF UdpSend
<1>3. ASSUME NEW g \in Goroutines, UdpNil(g) PROVE NumbersInv'
  BY <1>3 DEF UdpNil
<1>4. ASSUME NEW g \in Goroutines, UdpRead(g) PROVE NumbersInv'
  BY <1>4 DEF UdpRead, Return
<1>5. ASSUME NEW g \in Goroutines, UdpTimeout(g) PROVE NumbersInv'
  BY <1>5 DEF UdpTimeout
<1>6. ASSUME NEW g \in Goroutines, GetTCPRefused(g) PROVE NumbersInv'
  BY <1>6 DEF GetTCPRefused, Return
<1>7. ASSUME NEW g \in Goroutines, GetTCPConn(g) PROVE NumbersInv'
  BY <1>7 DEF GetTCPConn, FirstFree
<1>8. ASSUME NEW g \in Goroutines, DialOK(g) PROVE NumbersInv'
  BY <1>8 DEF DialOK
<1>9. ASSUME NEW g \in Goroutines, StoreConn(g) PROVE NumbersInv'
  BY <1>9 DEF StoreConn, ConnStored
<1>10. ASSUME NEW g \in Goroutines, DialErr(g) PROVE NumbersInv'
  BY <1>10 DEF DialErr, Return
<1>11. ASSUME NEW g \in Goroutines, TcpDeadline(g) PROVE NumbersInv'
  BY <1>11 DEF TcpDeadline
<1>12. ASSUME NEW g \in Goroutines, TcpIO(g) PROVE NumbersInv'
  BY <1>12 DEF TcpIO
<1>13. ASSUME NEW g \in Goroutines, ReleaseTCPConn(g) PROVE NumbersInv'
  <2>1. UNCHANGED <<asked, issued>> /\ pc' = [pc EXCEPT ![g] = "idle"]
    BY <1>13 DEF ReleaseTCPConn
  <2>2. openTCP' \subseteq openTCP /\ \A i \in Slots : conns'[i] \in {conns[i], Nil}
    BY <1>13 DEF ReleaseTCPConn
  <2>3. \A i \in Slots : conns'[i] <= issued
    BY <2>2
  <2>4. \A h \in Goroutines : pc'[h] # "idle" => pc[h] # "idle"
    BY <2>1
  <2>5. QED
    BY <2>1, <2>2, <2>3, <2>4
<1>14. ASSUME NEW k \in Exchanges, UdpReply(k) PROVE NumbersInv'
  BY <1>14 DEF UdpReply
<1>15. CASE CloseBegin
  BY <1>15 DEF CloseBegin
<1>16. CASE CloseSockets
  BY <1>16 DEF CloseSockets
<1>17. CASE UNCHANGED vars
  BY <1>17 DEF vars
<1>18. QED
  BY <1>1, <1>2, <1>3, <1>4, <1>5, <1>6, <1>7, <1>8, <1>9, <1>10, <1>11, <1>12, <1>13, <1>14, <1>15, <1>16, <1>17 DEF Next, ExchangeStep

(* Reserving only a slot that is not in use keeps owners apart. *)
LEMMA OwnerStep ==
  ASSUME TypeOK, OwnerInv, [Next]_vars
  PROVE  OwnerInv'
<1>0. /\ issued \in Nat
      /\ pc \in [Goroutines -> Labels] /\ asked \in [Goroutines -> Nat]
      /\ slot \in [Goroutines -> Nat] /\ held \in [Goroutines -> Nat]
      /\ conns \in [Slots -> Nat] /\ inUse \in [Slots -> BOOLEAN]
      /\ openTCP \subseteq Nat \ {0}
  BY PoolAssumption DEF TypeOK, Slots, Exchanges
<1> USE <1>0
<1> USE DEF Goto, Nil, NoSlot, exchangeVars, udpVars, poolVars, OwnerInv, SlotExclusive, HasSlot
<1>1. ASSUME NEW g \in Goroutines, Call(g) PROVE OwnerInv'
  BY <1>1 DEF Call
<1>2. ASSUME NEW g \in Goroutines, UdpSend(g) PROVE OwnerInv'
  <2>1. PICK l \in {"udpRead", "getTCP"} : pc' = [pc EXCEPT ![g] = l]
    BY <1>2 DEF UdpSend
  <2>2. pc[g] = "udp" /\ UNCHANGED <<slot, inUse, closed, closing>>
    BY <1>2 DEF UdpSend
  <2>3. QED
    BY <2>1, <2>2
<1>3. ASSUME NEW g \in Goroutines, UdpNil(g) PROVE OwnerInv'
  BY <1>3 DEF UdpNil
<1>4. ASSUME NEW g \in Goroutines, UdpRead(g) PROVE OwnerInv'
  <2>1. PICK l \in {"idle", "getTCP"} : pc' = [pc EXCEPT ![g] = l]
    BY <1>4 DEF UdpRead, Return
  <2>2. pc[g] = "udpRead" /\ UNCHANGED <<slot, inUse, closed, closing>>
    BY <1>4 DEF UdpRead
  <2>3. QED
    BY <2>1, <2>2
<1>5. ASSUME NEW g \in Goroutines, UdpTimeout(g) PROVE OwnerInv'
  BY <1>5 DEF UdpTimeout
<1>6. ASSUME NEW g \in Goroutines, GetTCPRefused(g) PROVE OwnerInv'
  BY <1>6 DEF GetTCPRefused, Return
<1>7. ASSUME NEW g \in Goroutines, GetTCPConn(g) PROVE OwnerInv'
  <2>1. PICK idx \in Slots :
          /\ ~inUse[idx]
          /\ inUse' = [inUse EXCEPT ![idx] = TRUE]
          /\ slot' = [slot EXCEPT ![g] = idx]
          /\ held' = [held EXCEPT ![g] = conns[idx]]
          /\ pc' = [pc EXCEPT ![g] = IF conns[idx] # Nil THEN "tcpDeadline" ELSE "dial"]
    BY <1>7 DEF GetTCPConn, FirstFree
  <2>2. pc[g] = "getTCP" /\ ~closed /\ UNCHANGED <<asked, conns, openTCP, closed, closing>>
    BY <1>7 DEF GetTCPConn
  <2>3. slot'[g] = idx /\ \A h \in Goroutines : h # g =>
          slot'[h] = slot[h] /\ pc'[h] = pc[h]
    BY <2>1
  <2>4. \A h \in Goroutines : HasSlot(h) => slot[h] # idx
    BY <2>1, <2>2
  <2>5. QED
    BY <2>1, <2>2, <2>3, <2>4
<1>8. ASSUME NEW g \in Goroutines, DialOK(g) PROVE OwnerInv'
  BY <1>8 DEF DialOK
<1>9. ASSUME NEW g \in Goroutines, StoreConn(g) PROVE OwnerInv'
  BY <1>9 DEF StoreConn, ConnStored
<1>10. ASSUME NEW g \in Goroutines, DialErr(g) PROVE OwnerInv'
  BY <1>10 DEF DialErr, Return
<1>11. ASSUME NEW g \in Goroutines, TcpDeadline(g) PROVE OwnerInv'
  BY <1>11 DEF TcpDeadline
<1>12. ASSUME NEW g \in Goroutines, TcpIO(g) PROVE OwnerInv'
  BY <1>12 DEF TcpIO
<1>13. ASSUME NEW g \in Goroutines, ReleaseTCPConn(g) PROVE OwnerInv'
  BY <1>13 DEF ReleaseTCPConn, ReleasedSocket
<1>14. ASSUME NEW k \in Exchanges, UdpReply(k) PROVE OwnerInv'
  BY <1>14 DEF UdpReply
<1>15. CASE CloseBegin
  BY <1>15 DEF CloseBegin
<1>16. CASE CloseSockets
  <2>1. UNCHANGED <<pc, slot, closed>> /\ closed'
    BY <1>16 DEF CloseSockets
  <2>2. QED
    BY <2>1
<1>17. CASE UNCHANGED vars
  BY <1>17 DEF vars
<1>18. QED
  BY <1>1, <1>2, <1>3, <1>4, <1>5, <1>6, <1>7, <1>8, <1>9, <1>10, <1>11, <1>12, <1>13, <1>14, <1>15, <1>16, <1>17 DEF Next, ExchangeStep

(* Slots, connections and open sockets stay in step. *)
LEMMA ConnStep ==
  ASSUME TypeOK, PoolInv, [Next]_vars
  PROVE  ConnInv'
<1>0. /\ issued \in Nat
      /\ pc \in [Goroutines -> Labels] /\ asked \in [Goroutines -> Nat]
      /\ slot \in [Goroutines -> Nat] /\ held \in [Goroutines -> Nat]
      /\ conns \in [Slots -> Nat] /\ inUse \in [Slots -> BOOLEAN]
      /\ openTCP \subseteq Nat \ {0}
  BY PoolAssumption DEF TypeOK, Slots, Exchanges
<1> USE <1>0
<1> USE DEF Goto, Nil, NoSlot, exchangeVars, udpVars, poolVars, PoolInv, NumbersInv, OwnerInv, SlotExclusive, ConnInv, HasSlot, HasConn, NotDialed, SocketInSlot
<1>1. ASSUME NEW g \in Goroutines, Call(g) PROVE ConnInv'
  BY <1>1 DEF Call
<1>2. ASSUME NEW g \in Goroutines, UdpSend(g) PROVE ConnInv'
  <2>1. PICK l \in {"udpRead", "getTCP"} : pc' = [pc EXCEPT ![g] = l]
    BY <1>2 DEF UdpSend
  <2>2. pc[g] = "udp" /\ UNCHANGED <<asked, slot, held, conns, openTCP, closed>>
    BY <1>2 DEF UdpSend
  <2>3. QED
    BY <2>1, <2>2
<1>3. ASSUME NEW g \in Goroutines, UdpNil(g) PROVE ConnInv'
  BY <1>3 DEF UdpNil
<1>4. ASSUME NEW g \in Goroutines, UdpRead(g) PROVE ConnInv'
  <2>1. PICK l \in {"idle", "getTCP"} : pc' = [pc EXCEPT ![g] = l]
    BY <1>4 DEF UdpRead, Return
  <2>2. pc[g] = "udpRead" /\ UNCHANGED <<asked, slot, held, conns, openTCP, closed>>
    BY <1>4 DEF UdpRead
  <2>3. QED
    BY <2>1, <2>2
<1>5. ASSUME NEW g \in Goroutines, UdpTimeout(g) PROVE ConnInv'
  BY <1>5 DEF UdpTimeout
<1>6. ASSUME NEW g \in Goroutines, GetTCPRefused(g) PROVE ConnInv'
  BY <1>6 DEF GetTCPRefused, Return
<1>7. ASSUME NEW g \in Goroutines, GetTCPConn(g) PROVE ConnInv'
  <2>1. PICK idx \in Slots :
          /\ ~inUse[idx]
          /\ inUse' = [inUse EXCEPT ![idx] = TRUE]
          /\ slot' = [slot EXCEPT ![g] = idx]
          /\ held' = [held EXCEPT ![g] = conns[idx]]
          /\ pc' = [pc EXCEPT ![g] = IF conns[idx] # Nil THEN "tcpDeadline" ELSE "dial"]
    BY <1>7 DEF GetTCPConn, FirstFree
  <2>2. pc[g] = "getTCP" /\ ~closed /\ UNCHANGED <<asked, conns, openTCP, closed, closing>>
    BY <1>7 DEF GetTCPConn
  <2>3. slot'[g] = idx /\ held'[g] = conns[idx] /\ \A h \in Goroutines : h # g =>
          slot'[h] = slot[h] /\ pc'[h] = pc[h] /\ held'[h] = held[h]
    BY <2>1
  <2>4. pc'[g] \in {"tcpDeadline", "dial"} /\ (pc'[g] = "dial" <=> conns[idx] = Nil)
    BY <2>1
  <2>5. \A d \in openTCP : \A i \in Slots : SocketInSlot(d, i) => SocketInSlot(d, i)'
    BY <2>2, <2>3
  <2>6. \A h \in Goroutines : HasConn(h)' => held'[h] # Nil /\ held'[h] = conns'[slot'[h]]
    BY <2>2, <2>3, <2>4
  <2>7. \A h \in Goroutines : pc'[h] \in {"dial", "dialed"} => conns'[slot'[h]] = Nil
    BY <2>2, <2>3, <2>4
  <2>8. \A h \in Goroutines : pc'[h] = "dialed" => pc[h] = "dialed"
    BY <2>2, <2>3, <2>4
  <2>9. \A d \in openTCP' : \E i \in Slots : SocketInSlot(d, i)'
    <3> HIDE DEF SocketInSlot
    <3> QED
      BY <2>2, <2>5
  <2>10. /\ \A h \in Goroutines : NotDialed(h)' => asked'[h] \notin openTCP'
         /\ \A h \in Goroutines : pc'[h] = "dialed" =>
              asked'[h] \in openTCP' /\ \A i \in Slots : conns'[i] # asked'[h]
    <3>1. /\ \A h \in Goroutines : NotDialed(h) => asked[h] \notin openTCP
          /\ \A h \in Goroutines : pc[h] = "dialed" =>
               asked[h] \in openTCP /\ \A i \in Slots : conns[i] # asked[h]
      OBVIOUS
    <3>2. asked' = asked /\ openTCP' = openTCP /\ conns' = conns
      BY <2>2
    <3>3. ASSUME NEW h \in Goroutines, NotDialed(h)' PROVE asked[h] \notin openTCP
      <4>1. NotDialed(h)
        BY <2>2, <2>3, <2>4, <3>3
      <4>2. QED
        BY <3>1, <4>1
    <3>4. \A h \in Goroutines : pc'[h] = "dialed" =>
            asked[h] \in openTCP /\ \A i \in Slots : conns[i] # asked[h]
      BY <2>8, <3>1
    <3>5. QED
      BY <3>2, <3>3, <3>4
  <2>11. QED
    BY <2>2, <2>6, <2>7, <2>9, <2>10
<1>8. ASSUME NEW g \in Goroutines, DialOK(g) PROVE ConnInv'
  BY <1>8 DEF DialOK
<1>9. ASSUME NEW g \in Goroutines, StoreConn(g) PROVE ConnInv'
  <2>1. /\ pc[g] = "dialed" /\ slot[g] \in Slots
        /\ pc' = [pc EXCEPT ![g] = "tcpDeadline"]
        /\ conns' = [conns EXCEPT ![slot[g]] = asked[g]]
        /\ held' = [held EXCEPT ![g] = asked[g]]
        /\ UNCHANGED <<asked, slot, openTCP, closed>>
    BY <1>9 DEF StoreConn, ConnStored
  <2>2. /\ pc'[g] = "tcpDeadline" /\ held'[g] = asked[g] /\ conns'[slot[g]] = asked[g]
        /\ \A h \in Goroutines : h # g => pc'[h] = pc[h] /\ held'[h] = held[h]
        /\ \A i \in Slots : i # slot[g] => conns'[i] = conns[i]
    BY <2>1
  <2>3. \A h \in Goroutines : h # g /\ HasSlot(h) => slot[h] # slot[g]
    BY <2>1
  <2>4. asked[g] \in openTCP /\ asked[g] # Nil
    BY <2>1
  <2>5. \A h \in Goroutines : h # g => asked[h] # asked[g]
    BY <2>4
  <2>6. \A d \in openTCP : \A i \in Slots : SocketInSlot(d, i) => SocketInSlot(d, i)'
    BY <2>1, <2>2, <2>3
  <2>7. QED
    BY <2>1, <2>2, <2>3, <2>4, <2>5, <2>6
<1>10. ASSUME NEW g \in Goroutines, DialErr(g) PROVE ConnInv'
  BY <1>10 DEF DialErr, Return
<1>11. ASSUME NEW g \in Goroutines, TcpDeadline(g) PROVE ConnInv'
  BY <1>11 DEF TcpDeadline
<1>12. ASSUME NEW g \in Goroutines, TcpIO(g) PROVE ConnInv'
  BY <1>12 DEF TcpIO
<1>13. ASSUME NEW g \in Goroutines, ReleaseTCPConn(g) PROVE ConnInv'
  <2> DEFINE s == slot[g]
  <2>1. /\ pc[g] = "release" /\ s \in Slots
        /\ pc' = [pc EXCEPT ![g] = "idle"]
        /\ slot' = [slot EXCEPT ![g] = NoSlot] /\ held' = [held EXCEPT ![g] = Nil]
        /\ UNCHANGED <<asked, closed>>
    BY <1>13 DEF ReleaseTCPConn
  <2>2. pc'[g] = "idle" /\ \A h \in Goroutines : h # g =>
          pc'[h] = pc[h] /\ held'[h] = held[h] /\ slot'[h] = slot[h]
    BY <2>1
  <2>3. \A h \in Goroutines : h # g /\ HasSlot(h) => slot[h] # s
    BY <2>1
  <2>4. CASE ~hadErr[g]
    <3>1. UNCHANGED <<conns, openTCP>>
      BY <1>13, <2>4 DEF ReleaseTCPConn
    <3>2. \A d \in openTCP : \A i \in Slots : SocketInSlot(d, i) => SocketInSlot(d, i)'
      BY <2>1, <2>2, <3>1
    <3>3. QED
      BY <2>1, <2>2, <3>1, <3>2
  <2>5. CASE hadErr[g]
    <3>1. openTCP' = openTCP \ {conns[s]} /\ conns' = [conns EXCEPT ![s] = Nil]
      BY <1>13, <2>5 DEF ReleaseTCPConn, ReleasedSocket
    <3>2. conns'[s] = Nil /\ \A i \in Slots : i # s => conns'[i] = conns[i]
      BY <2>1, <3>1
    <3>3. \A d \in openTCP' : \A i \in Slots : SocketInSlot(d, i) => SocketInSlot(d, i)'
      BY <2>1, <2>2, <2>3, <3>1, <3>2
    <3>4. QED
      BY <2>1, <2>2, <2>3, <3>1, <3>2, <3>3
  <2>6. QED
    BY <2>4, <2>5
<1>14. ASSUME NEW k \in Exchanges, UdpReply(k) PROVE ConnInv'
  BY <1>14 DEF UdpReply
<1>15. CASE CloseBegin
  BY <1>15 DEF CloseBegin
<1>16. CASE CloseSockets
  <2>1. /\ closed' /\ UNCHANGED <<pc, asked, slot, held>>
        /\ openTCP' = openTCP \ {conns[i] : i \in Slots}
        /\ conns' = [i \in Slots |-> Nil]
    BY <1>16 DEF CloseSockets
  <2>2. \A d \in openTCP' : \E i \in Slots : SocketInSlot(d, i)'
    BY <2>1
  <2>3. QED
    BY <2>1, <2>2
<1>17. CASE UNCHANGED vars
  BY <1>17 DEF vars
<1>18. QED
  BY <1>1, <1>2, <1>3, <1>4, <1>5, <1>6, <1>7, <1>8, <1>9, <1>10, <1>11, <1>12, <1>13, <1>14, <1>15, <1>16, <1>17 DEF Next, ExchangeStep

-----------------------------------------------------------------------------
(* PoolInv is an invariant. *)
LEMMA PoolInvariant == Spec => []PoolInv
<1>1. Init => PoolInv
  BY PoolAssumption DEF Init, PoolInv, NumbersInv, OwnerInv, SlotExclusive,
     ConnInv, HasSlot, HasConn, NotDialed, SocketInSlot, Nil, NoSlot
<1>2. TypeOK /\ PoolInv /\ [Next]_vars => PoolInv'
  BY NumbersStep, OwnerStep, ConnStep DEF PoolInv
<1>3. QED
  BY <1>1, <1>2, PoolTypeCorrect, PTL DEF Spec

(* getTCPConn dials with p.mu released, yet no two exchanges ever own the same
   slot and an owned slot stays reserved until Close. *)
THEOREM PoolSlotExclusive == Spec => []SlotExclusive
<1>1. PoolInv => SlotExclusive
  BY DEF PoolInv, OwnerInv
<1>2. QED
  BY <1>1, PoolInvariant, PTL

(* Before Close, releaseTCPConn never closes a connection another exchange is
   reading or writing. *)
THEOREM PoolConnStaysOpenInUse == Spec => []ConnStaysOpenInUse
<1>1. TypeOK /\ PoolInv => ConnStaysOpenInUse
  <2> SUFFICES ASSUME TypeOK, PoolInv, ~closed, NEW g \in Goroutines, HasConn(g)
               PROVE  /\ held[g] = conns[slot[g]]
                      /\ held[g] \in openTCP
                      /\ \A h \in Goroutines : HasConn(h) /\ held[h] = held[g] => h = g
    BY DEF ConnStaysOpenInUse
  <2> USE DEF PoolInv, OwnerInv, ConnInv, SlotExclusive, HasSlot, HasConn
  <2>1. slot[g] \in Slots /\ held[g] # Nil /\ held[g] = conns[slot[g]]
    OBVIOUS
  <2>2. ASSUME NEW h \in Goroutines, HasConn(h), held[h] = held[g] PROVE h = g
    <3>1. slot[h] \in Slots /\ held[h] = conns[slot[h]]
      BY <2>2
    <3>2. slot[h] = slot[g]
      BY <2>1, <2>2, <3>1
    <3>3. QED
      BY <2>2, <3>2
  <2>3. QED
    BY <2>1, <2>2
<1>2. QED
  BY <1>1, PoolTypeCorrect, PoolInvariant, PTL

(* Both together: an exchange has its slot and its connection to itself. *)
THEOREM PoolConnUseIsExclusive == Spec => []ConnUseIsExclusive
<1>1. SlotExclusive /\ ConnStaysOpenInUse => ConnUseIsExclusive
  BY DEF ConnUseIsExclusive
<1>2. QED
  BY <1>1, PoolSlotExclusive, PoolConnStaysOpenInUse, PTL

(* Every open TCP socket occupies a slot of its own, whatever dials, errors
   and Close interleave: the pool cannot exceed maxConns sockets. *)
THEOREM PoolSocketsAccountedFor == Spec => []SocketsAccountedFor
<1>1. TypeOK /\ PoolInv => SocketsAccountedFor
  <2> SUFFICES ASSUME TypeOK, PoolInv,
                      NEW c \in openTCP, NEW d \in openTCP, NEW i \in Slots,
                      SocketInSlot(c, i), SocketInSlot(d, i)
               PROVE  c = d
    BY DEF SocketsAccountedFor, PoolInv, ConnInv
  <2>1. c # Nil /\ d # Nil
    BY DEF TypeOK, Exchanges, Nil
  <2>2. \A g, h \in Goroutines : pc[g] = "dialed" /\ pc[h] = "dialed"
                                /\ slot[g] = slot[h] => g = h
    BY DEF PoolInv, OwnerInv, SlotExclusive, HasSlot
  <2>3. \A g \in Goroutines : pc[g] = "dialed" => conns[slot[g]] = Nil
    BY DEF PoolInv, ConnInv
  <2>4. QED
    BY <2>1, <2>2, <2>3 DEF SocketInSlot
<1>2. QED
  BY <1>1, PoolTypeCorrect, PoolInvariant, PTL

-----------------------------------------------------------------------------
(* The UDP mutex keeps questions and answers paired until a read times out. *)
LEMMA UdpStep ==
  ASSUME TypeOK, NumbersInv, UdpInv, [Next]_vars
  PROVE  UdpInv'
<1>0. /\ pc \in [Goroutines -> Labels] /\ asked \in [Goroutines -> Nat]
      /\ answer \in [Goroutines -> Nat] /\ rcvBuf \in Seq(Exchanges)
      /\ udpMu \in Goroutines \cup {NoOne} /\ NoOne \notin Goroutines
      /\ timedOut \in BOOLEAN
  BY PoolAssumption DEF TypeOK
<1> USE <1>0 DEF Goto, exchangeVars, udpVars, poolVars, UdpInv, UdpMuFree,
       UdpUnlock, Return, AnswersMatchUntilTimeout
<1>1. ASSUME NEW g \in Goroutines, Call(g) PROVE UdpInv'
  BY <1>1 DEF Call
<1>2. ASSUME NEW g \in Goroutines, UdpSend(g) PROVE UdpInv'
  BY <1>2 DEF UdpSend
<1>3. ASSUME NEW g \in Goroutines, UdpNil(g) PROVE UdpInv'
  BY <1>3 DEF UdpNil
<1>4. ASSUME NEW g \in Goroutines, UdpRead(g) PROVE UdpInv'
  <2>1. pc[g] = "udpRead" /\ udpMu = g /\ rcvBuf # <<>>
    BY <1>4 DEF UdpRead
  <2>2. /\ rcvBuf' = Tail(rcvBuf) /\ udpMu' = NoOne
        /\ UNCHANGED <<asked, udpOpen, inFlight, timedOut>>
        /\ \A h \in Goroutines : h # g => answer'[h] = answer[h] /\ pc'[h] = pc[h]
        /\ answer'[g] \in {answer[g], Head(rcvBuf)} /\ pc'[g] # "udpRead"
    BY <1>4 DEF UdpRead
  <2>3. \A h \in Goroutines : udpMu' = h <=> pc'[h] = "udpRead"
    BY <2>1, <2>2
  <2>4. ASSUME ~timedOut
        PROVE  inFlight' = {} /\ rcvBuf' = <<>> /\ answer'[g] \in {Nil, asked[g]}
    <3>1. inFlight = {} /\ rcvBuf = <<asked[g]>>
      BY <2>1, <2>4
    <3>2. Head(rcvBuf) = asked[g] /\ Tail(rcvBuf) = <<>>
      BY <3>1
    <3>3. QED
      BY <2>2, <2>4, <3>1, <3>2
  <2>5. QED
    BY <2>2, <2>3, <2>4
<1>5. ASSUME NEW g \in Goroutines, UdpTimeout(g) PROVE UdpInv'
  BY <1>5 DEF UdpTimeout
<1>6. ASSUME NEW g \in Goroutines, GetTCPRefused(g) PROVE UdpInv'
  BY <1>6 DEF GetTCPRefused
<1>7. ASSUME NEW g \in Goroutines, GetTCPConn(g) PROVE UdpInv'
  BY <1>7 DEF GetTCPConn
<1>8. ASSUME NEW g \in Goroutines, DialOK(g) PROVE UdpInv'
  BY <1>8 DEF DialOK
<1>9. ASSUME NEW g \in Goroutines, StoreConn(g) PROVE UdpInv'
  BY <1>9 DEF StoreConn
<1>10. ASSUME NEW g \in Goroutines, DialErr(g) PROVE UdpInv'
  BY <1>10 DEF DialErr
<1>11. ASSUME NEW g \in Goroutines, TcpDeadline(g) PROVE UdpInv'
  BY <1>11 DEF TcpDeadline
<1>12. ASSUME NEW g \in Goroutines, TcpIO(g) PROVE UdpInv'
  BY <1>12 DEF TcpIO
<1>13. ASSUME NEW g \in Goroutines, ReleaseTCPConn(g) PROVE UdpInv'
  BY <1>13 DEF ReleaseTCPConn
<1>14. ASSUME NEW k \in Exchanges, UdpReply(k) PROVE UdpInv'
  <2>1. /\ k \in inFlight /\ inFlight' = inFlight \ {k}
        /\ rcvBuf' = IF udpOpen THEN Append(rcvBuf, k) ELSE rcvBuf
        /\ UNCHANGED <<pc, asked, answer, udpMu, udpOpen, timedOut>>
    BY <1>14 DEF UdpReply
  <2>2. ASSUME ~timedOut, NEW g \in Goroutines, udpMu = g
        PROVE  inFlight' = {} /\ rcvBuf' = <<asked[g]>>
    <3>1. inFlight = {asked[g]} /\ rcvBuf = <<>> /\ udpOpen
      BY <2>1, <2>2
    <3>2. QED
      BY <2>1, <3>1
  <2>3. ~timedOut => udpMu # NoOne
    BY <2>1
  <2>4. QED
    BY <2>1, <2>2, <2>3
<1>15. CASE CloseBegin
  BY <1>15 DEF CloseBegin
<1>16. CASE CloseSockets
  BY <1>16 DEF CloseSockets
<1>17. CASE UNCHANGED vars
  BY <1>17 DEF vars
<1>18. QED
  BY <1>1, <1>2, <1>3, <1>4, <1>5, <1>6, <1>7, <1>8, <1>9, <1>10, <1>11, <1>12, <1>13, <1>14, <1>15, <1>16, <1>17 DEF Next, ExchangeStep

(* As long as no UDP read times out, Exchange never returns the answer to
   another query although replies are not matched by message id. *)
THEOREM PoolAnswersMatchUntilTimeout == Spec => []AnswersMatchUntilTimeout
<1>1. Init => UdpInv
  BY PoolAssumption DEF Init, UdpInv, AnswersMatchUntilTimeout, Nil
<1>2. TypeOK /\ PoolInv /\ UdpInv /\ [Next]_vars => UdpInv'
  BY UdpStep DEF PoolInv
<1>3. UdpInv => AnswersMatchUntilTimeout
  BY DEF UdpInv
<1>4. QED
  BY <1>1, <1>2, <1>3, PoolTypeCorrect, PoolInvariant, PTL DEF Spec
=============================================================================
