---------------------------- MODULE PolicyProofs ----------------------------
(***************************************************************************)
(* Policies: how they reach the engines (PolicyStore), for any number of   *)
(* handlers, policies and requests, and what an engine decides by them     *)
(* (PolicyEngine), for any names, clients and policies.                    *)
(*                                                                         *)
(* SnapshotsFollowTable is not inductive: it says nothing of a request     *)
(* that is still running, which CalmInv follows through its steps.         *)
(* EvaluationIsRight rests on what the loop over the candidates computes,  *)
(* which is proved by induction over the list: a counterexample would have *)
(* a least position. The length of a schedule window is counted by a       *)
(* bijection between its instants and its minutes on the scheduled days.   *)
(***************************************************************************)
EXTENDS PolicyStore, PolicyEngine, SequenceTheorems, FiniteSetTheorems, FunctionTheorems,
        WellFoundedInduction, NaturalsInduction, TLAPS

-----------------------------------------------------------------------------
(* While requests come one at a time: one runs at most, what it has listed is
   the table, and until it writes the engine agrees with the table. *)
CalmInv ==
  calm =>
    /\ \A g, h \in Handlers : pc[g] # "idle" /\ pc[h] # "idle" => g = h
    /\ \A h \in Handlers : pc[h] = "load" => list[h] = db
    /\ ~listErr /\ ~imported /\ (\A h \in Handlers : pc[h] \in {"idle", "write"})
         => cpSnap = db

(* A running update holds a row, so what it saves is one. *)
RowInv == \A h \in Handlers : pc[h] = "write" => row[h] \in Rows

StoreInv == TypeOK /\ RowInv /\ CalmInv /\ PollIsCurrent

-----------------------------------------------------------------------------
(* Setting one field of a policy gives a policy. *)
LEMMA PatchedRow ==
  ASSUME NEW r \in Rows, NEW f \in Fields, NEW v \in Values
  PROVE  [r EXCEPT ![f] = v] \in Rows
<1>1. CASE f = "action"
  BY <1>1 DEF Rows, Values
<1>2. CASE f = "priority"
  BY <1>2 DEF Rows, Values
<1>3. QED
  BY <1>1, <1>2 DEF Fields

(* NoRow is not a policy, and the table without policies is a table. *)
LEMMA EmptyTable == Empty \in Tables /\ NoRow \notin Rows
  BY DEF Empty, Tables, NoRow, Rows, Values

(* Every SQL statement and every swap of a snapshot preserves the types. *)
LEMMA TypeStep == TypeOK /\ RowInv /\ [Next]_vars => TypeOK' /\ RowInv'
<1> SUFFICES ASSUME TypeOK, RowInv, [Next]_vars PROVE TypeOK' /\ RowInv'
  OBVIOUS
<1> USE StoreAssumption, EmptyTable
    DEF TypeOK, RowInv, hVars, dpVars, Labels, Tables, Goto, Write
<1>0. ASSUME NEW h \in Handlers, NEW i \in Ids, Request(h, i)
      PROVE  /\ requests' \in 0 .. MaxRequests /\ id' \in [Handlers -> Ids]
             /\ calm' \in BOOLEAN /\ pc[h] = "idle"
  BY <1>0 DEF Request
<1>1. ASSUME NEW h \in Handlers, NEW i \in Ids, NEW r \in Rows, CreatePolicy(h, i, r)
      PROVE  TypeOK' /\ RowInv'
  <2>1. Request(h, i) /\ UNCHANGED <<cpSnap, dpVars, field, row, list, listErr, imported>>
    BY <1>1 DEF CreatePolicy
  <2>2. CASE Write(i, r) /\ Goto(h, "list")
    BY <1>0, <2>1, <2>2
  <2>3. CASE UNCHANGED <<db, settled, pc>>
    BY <1>0, <2>1, <2>3
  <2>4. QED
    BY <1>1, <2>2, <2>3 DEF CreatePolicy
<1>2. ASSUME NEW h \in Handlers, NEW i \in Ids, NEW f \in Fields, NEW v \in Values,
             UpdateRead(h, i, f, v)
      PROVE  TypeOK' /\ RowInv'
  <2>1. CASE db[i] # NoRow
    <3>1. db[i] \in Rows
      BY <2>1
    <3>2. [db[i] EXCEPT ![f] = v] \in Rows
      BY <3>1, PatchedRow
    <3>3. /\ row' = [row EXCEPT ![h] = [db[i] EXCEPT ![f] = v]]
          /\ field' = [field EXCEPT ![h] = f]
          /\ pc' = [pc EXCEPT ![h] = "write"]
      BY <1>2, <2>1 DEF UpdateRead
    <3>4. row' \in [Handlers -> Rows \cup {NoRow}] /\ RowInv'
      BY <3>2, <3>3
    <3>5. Request(h, i) /\ UNCHANGED <<db, cpSnap, dpVars, list, listErr, imported, settled>>
      BY <1>2 DEF UpdateRead
    <3>6. QED
      BY <1>0, <3>3, <3>4, <3>5
  <2>2. CASE db[i] = NoRow
    BY <1>0, <1>2, <2>2 DEF UpdateRead
  <2>3. QED
    BY <2>1, <2>2
<1>3. ASSUME NEW h \in Handlers, NEW i \in Ids, DeletePolicy(h, i) PROVE TypeOK' /\ RowInv'
  BY <1>0, <1>3 DEF DeletePolicy
<1>4. ASSUME NEW h \in Handlers, NEW i \in Ids, NEW doc \in Tables, ImportConfig(h, i, doc)
      PROVE  TypeOK' /\ RowInv'
  <2>1. Request(h, i) /\ UNCHANGED <<cpSnap, dpVars, pc, field, row, list, listErr>>
    BY <1>4 DEF ImportConfig
  <2>2. db' \in [Ids -> Rows \cup {NoRow}] /\ settled' \subseteq Ids /\ imported' \in BOOLEAN
    BY <1>4 DEF ImportConfig
  <2>3. QED
    BY <1>0, <2>1, <2>2
<1>5. ASSUME NEW h \in Handlers, UpdateWrite(h) PROVE TypeOK' /\ RowInv'
  BY <1>5 DEF UpdateWrite
<1>6. ASSUME NEW h \in Handlers, UpdateErr(h) PROVE TypeOK' /\ RowInv'
  BY <1>6 DEF UpdateErr
<1>7. ASSUME NEW h \in Handlers, Reload(h) PROVE TypeOK' /\ RowInv'
  BY <1>7 DEF Reload
<1>8. ASSUME NEW h \in Handlers, ReloadErr(h) PROVE TypeOK' /\ RowInv'
  BY <1>8 DEF ReloadErr
<1>9. ASSUME NEW h \in Handlers, ReloadSwap(h) PROVE TypeOK' /\ RowInv'
  BY <1>9 DEF ReloadSwap, Loaded
<1>10. CASE PollList
  BY <1>10 DEF PollList, Listed
<1>11. CASE PollErr
  BY <1>11 DEF PollErr, RowsAfterErr
<1>12. CASE PollLoad
  BY <1>12 DEF PollLoad, Merged
<1>13. CASE UNCHANGED vars
  BY <1>13 DEF vars
<1>14. QED
  BY <1>1, <1>2, <1>3, <1>4, <1>5, <1>6, <1>7, <1>8, <1>9, <1>10, <1>11, <1>12, <1>13
     DEF Next, HandlerStep

(* A request that overlaps no other leaves the engine with the table. *)
LEMMA CalmStep == TypeOK /\ CalmInv /\ [Next]_vars => CalmInv'
<1> SUFFICES ASSUME TypeOK, CalmInv, [Next]_vars PROVE CalmInv'
  OBVIOUS
<1> USE DEF TypeOK, CalmInv, hVars, dpVars, Labels, Request, Goto, Write, AllIdle
<1>1. ASSUME NEW h \in Handlers, NEW i \in Ids, NEW r \in Rows, CreatePolicy(h, i, r)
      PROVE  CalmInv'
  BY <1>1 DEF CreatePolicy
<1>2. ASSUME NEW h \in Handlers, NEW i \in Ids, NEW f \in Fields, NEW v \in Values,
             UpdateRead(h, i, f, v)
      PROVE  CalmInv'
  <2>1. /\ calm' => calm /\ \A g \in Handlers : pc[g] = "idle"
        /\ pc' = [pc EXCEPT ![h] = "write"] \/ pc' = pc
        /\ UNCHANGED <<db, cpSnap, list, listErr, imported>>
    BY <1>2 DEF UpdateRead
  <2>2. QED
    BY <2>1
<1>3. ASSUME NEW h \in Handlers, NEW i \in Ids, DeletePolicy(h, i) PROVE CalmInv'
  BY <1>3 DEF DeletePolicy
<1>4. ASSUME NEW h \in Handlers, NEW i \in Ids, NEW doc \in Tables, ImportConfig(h, i, doc)
      PROVE  CalmInv'
  <2>1. /\ calm' => calm /\ \A g \in Handlers : pc[g] = "idle"
        /\ imported' \/ UNCHANGED <<db, imported>>
        /\ UNCHANGED <<cpSnap, list, listErr, pc>>
    BY <1>4 DEF ImportConfig
  <2>2. QED
    BY <2>1
<1>5. ASSUME NEW h \in Handlers, UpdateWrite(h) PROVE CalmInv'
  BY <1>5 DEF UpdateWrite
<1>6. ASSUME NEW h \in Handlers, UpdateErr(h) PROVE CalmInv'
  BY <1>6 DEF UpdateErr
<1>7. ASSUME NEW h \in Handlers, Reload(h) PROVE CalmInv'
  BY <1>7 DEF Reload
<1>8. ASSUME NEW h \in Handlers, ReloadErr(h) PROVE CalmInv'
  BY <1>8 DEF ReloadErr
<1>9. ASSUME NEW h \in Handlers, ReloadSwap(h) PROVE CalmInv'
  BY <1>9 DEF ReloadSwap, Loaded
<1>10. CASE PollList \/ PollErr \/ PollLoad
  BY <1>10 DEF PollList, PollErr, PollLoad
<1>11. CASE UNCHANGED vars
  BY <1>11 DEF vars
<1>12. QED
  BY <1>1, <1>2, <1>3, <1>4, <1>5, <1>6, <1>7, <1>8, <1>9, <1>10, <1>11 DEF Next, HandlerStep

(* No write of the table leaves a listed row behind that still counts. *)
LEMMA PollStep == TypeOK /\ PollIsCurrent /\ [Next]_vars => PollIsCurrent'
<1> SUFFICES ASSUME TypeOK, PollIsCurrent, [Next]_vars PROVE PollIsCurrent'
  OBVIOUS
<1> USE DEF TypeOK, PollIsCurrent, hVars, dpVars, Tables, Write
<1>1. ASSUME NEW h \in Handlers, NEW i \in Ids, NEW r \in Rows, CreatePolicy(h, i, r)
      PROVE  PollIsCurrent'
  BY <1>1 DEF CreatePolicy
<1>2. ASSUME NEW h \in Handlers, NEW i \in Ids, NEW f \in Fields, NEW v \in Values,
             UpdateRead(h, i, f, v)
      PROVE  PollIsCurrent'
  BY <1>2 DEF UpdateRead
<1>3. ASSUME NEW h \in Handlers, NEW i \in Ids, DeletePolicy(h, i) PROVE PollIsCurrent'
  BY <1>3 DEF DeletePolicy
<1>4. ASSUME NEW h \in Handlers, NEW i \in Ids, NEW doc \in Tables, ImportConfig(h, i, doc)
      PROVE  PollIsCurrent'
  BY <1>4 DEF ImportConfig
<1>5. ASSUME NEW h \in Handlers, UpdateWrite(h) PROVE PollIsCurrent'
  BY <1>5 DEF UpdateWrite
<1>6. ASSUME NEW h \in Handlers, UpdateErr(h) \/ Reload(h) \/ ReloadErr(h) \/ ReloadSwap(h)
      PROVE  PollIsCurrent'
  BY <1>6 DEF UpdateErr, Reload, ReloadErr, ReloadSwap
<1>7. CASE PollList \/ PollErr \/ PollLoad
  BY <1>7 DEF PollList, PollErr, PollLoad, Listed
<1>8. CASE UNCHANGED vars
  BY <1>8 DEF vars
<1>9. QED
  BY <1>1, <1>2, <1>3, <1>4, <1>5, <1>6, <1>7, <1>8 DEF Next, HandlerStep

(* The inductive invariant of the policy store. *)
LEMMA StoreInvariant == Spec => []StoreInv
<1>1. Init => StoreInv
  <2> SUFFICES ASSUME Init PROVE StoreInv
    OBVIOUS
  <2>1. TypeOK
    <3>1. /\ db \in Tables /\ cpSnap \in Tables /\ dpSnap \in Tables /\ polled \in Tables
          /\ list \in [Handlers -> Tables] /\ poll = "idle" /\ polled = Empty
      BY EmptyTable DEF Init
    <3>2. /\ pc \in [Handlers -> Labels] /\ id \in [Handlers -> Ids]
          /\ field \in [Handlers -> Fields] /\ row \in [Handlers -> Rows \cup {NoRow}]
      BY DEF Init, Labels, Fields
    <3>3. requests \in 0 .. MaxRequests
      BY StoreAssumption DEF Init
    <3>4. calm \in BOOLEAN /\ listErr \in BOOLEAN /\ imported \in BOOLEAN /\ settled \subseteq Ids
      BY DEF Init
    <3>5. QED
      BY <3>1, <3>2, <3>3, <3>4 DEF TypeOK
  <2>2. RowInv /\ CalmInv /\ PollIsCurrent
    BY DEF Init, RowInv, CalmInv, PollIsCurrent
  <2>3. QED
    BY <2>1, <2>2 DEF StoreInv
<1>2. StoreInv /\ [Next]_vars => StoreInv'
  BY TypeStep, CalmStep, PollStep DEF StoreInv
<1>3. QED
  BY <1>1, <1>2, PTL DEF Spec

(* Type correctness of the policies table, the two engines' snapshots and the
   handlers' locals. *)
THEOREM PolicyTypeCorrect == Spec => []TypeOK
<1>1. StoreInv => TypeOK
  BY DEF StoreInv
<1>2. QED
  BY <1>1, StoreInvariant, PTL

(* Edits that come one at a time are in force in the control plane when they are
   answered (reloadPolicyEngine), and a poll of the dataplane (reloadPolicies)
   never undoes an edit, for any number of handlers, policies and requests. *)
THEOREM EnginesFollowTable == Spec => []SnapshotsFollowTable
<1>1. StoreInv => SnapshotsFollowTable
  BY DEF StoreInv, CalmInv, SnapshotsFollowTable, AppliedWhenCalm, AllIdle
<1>2. QED
  BY <1>1, StoreInvariant, PTL

-----------------------------------------------------------------------------
(* A set of naturals has a least element. *)
LEMMA LeastNatural ==
  ASSUME NEW S, S \subseteq Nat, S # {}
  PROVE  \E n \in S : \A m \in S : n <= m
<1> DEFINE R == OpToRel(<, Nat)
<1>1. IsWellFoundedOn(R, Nat)
  BY NatLessThanWellFounded
<1>2. \A x, y \in Nat : x < y => <<x, y>> \in R
  BY DEF OpToRel
<1> HIDE DEF R
<1>3. PICK n \in S : \A m \in S : <<m, n>> \notin R
  BY <1>1, WFMin
<1>4. ASSUME NEW m \in S PROVE n <= m
  <2>1. m \in Nat /\ n \in Nat /\ ~(m < n)
    BY <1>2, <1>3
  <2>2. QED
    BY <2>1
<1>5. QED
  BY <1>4


(* What the loop of pickHighestPriorityScoped does with the element i. *)
Loop(ps, at, c, b, i) ==
  IF i = 0 THEN NoPolicy ELSE IF i \in at THEN Keep(b[i - 1], ps[i], c) ELSE b[i - 1]

(* The loop runs over any prefix of the list. *)
LEMMA LoopRuns ==
  ASSUME NEW ps, NEW at, NEW c, NEW n \in Nat
  PROVE  \E b : b = [i \in 0 .. n |-> Loop(ps, at, c, b, i)]
<1> DEFINE P(m) == \E b : b = [i \in 0 .. m |-> Loop(ps, at, c, b, i)]
           S == {m \in Nat : ~P(m)}
<1>1. SUFFICES ASSUME S # {} PROVE FALSE
  OBVIOUS
<1>2. PICK m \in S : \A k \in S : m <= k
  BY <1>1, LeastNatural
<1>3. m # 0
  <2>1. P(0)
    <3> DEFINE b == [i \in 0 .. 0 |-> NoPolicy]
    <3>1. \A i \in 0 .. 0 : Loop(ps, at, c, b, i) = NoPolicy
      BY DEF Loop
    <3>2. b = [i \in 0 .. 0 |-> Loop(ps, at, c, b, i)]
      BY <3>1
    <3>3. QED
      BY <3>2
  <2>2. QED
    BY <2>1
<1>4. m - 1 \in Nat /\ m - 1 \notin S /\ m \in Nat
  BY <1>2, <1>3
<1>5. PICK b : b = [i \in 0 .. m - 1 |-> Loop(ps, at, c, b, i)]
  BY <1>4
<1> DEFINE e == [i \in 0 .. m |-> IF i = m THEN Loop(ps, at, c, b, m) ELSE b[i]]
<1>6. ASSUME NEW i \in 0 .. m PROVE e[i] = Loop(ps, at, c, e, i)
  <2>1. i # 0 => i - 1 \in 0 .. m - 1 /\ e[i - 1] = b[i - 1]
    BY <1>4
  <2>2. Loop(ps, at, c, e, i) = Loop(ps, at, c, b, i)
    BY <2>1 DEF Loop
  <2>3. i # m => i \in 0 .. m - 1 /\ b[i] = Loop(ps, at, c, b, i)
    BY <1>4, <1>5
  <2>4. QED
    BY <2>2, <2>3
<1>7. e = [i \in 0 .. m |-> Loop(ps, at, c, e, i)]
  BY <1>6
<1>8. P(m)
  BY <1>7
<1>9. QED
  BY <1>2, <1>8

LEMMA LoopStep ==
  ASSUME NEW ps, Len(ps) \in Nat, NEW at, NEW c
  PROVE  LET b == BestSoFar(ps, at, c) IN
         /\ b[0] = NoPolicy
         /\ \A i \in 1 .. Len(ps) : b[i] = IF i \in at THEN Keep(b[i - 1], ps[i], c) ELSE b[i - 1]
<1> DEFINE b == BestSoFar(ps, at, c)
<1>1. \E f : f = [i \in 0 .. Len(ps) |-> Loop(ps, at, c, f, i)]
  BY LoopRuns
<1>2. b = CHOOSE f : f = [i \in 0 .. Len(ps) |-> Loop(ps, at, c, f, i)]
  BY DEF BestSoFar, Loop
<1> HIDE DEF b
<1>3. b = [i \in 0 .. Len(ps) |-> Loop(ps, at, c, b, i)]
  BY <1>1, <1>2
<1>4. \A i \in 0 .. Len(ps) : b[i] = Loop(ps, at, c, b, i)
  BY <1>3
<1>5. b[0] = NoPolicy
  BY <1>4 DEF Loop
<1>6. \A i \in 1 .. Len(ps) : b[i] = IF i \in at THEN Keep(b[i - 1], ps[i], c) ELSE b[i - 1]
  BY <1>4 DEF Loop
<1>7. QED
  BY <1>5, <1>6 DEF b

(* The policies of a list among the first i candidates that are in scope. *)
InScope(ps, at, c, i) == {j \in at : j <= i /\ MatchesClient(ps[j], c)}

(* The loop's best is in scope and no other one supersedes it. *)
Picked(ps, at, c, i, p) ==
  IF p = NoPolicy THEN InScope(ps, at, c, i) = {}
  ELSE /\ \E j \in InScope(ps, at, c, i) : p = ps[j]
       /\ \A j \in InScope(ps, at, c, i) : ~Supersedes(ps[j], p)

LEMMA PolicyFields ==
  ASSUME NEW p \in PolicyType
  PROVE  /\ p.id \in Nat /\ p.id # 0 /\ p.priority \in Int /\ p # NoPolicy
         /\ p.scope \subseteq Clients /\ p.regexes \subseteq Domains
<1>1. p.id \in Nat \ {0} /\ p.priority \in Int /\ p.scope \in SUBSET Clients /\ p.regexes \in SUBSET Domains
  BY DEF PolicyType
<1>2. p # NoPolicy
  BY <1>1 DEF NoPolicy
<1>3. QED
  BY <1>1, <1>2

LEMMA LoopPicks ==
  ASSUME NEW ps \in Seq(PolicyType), NEW at \in SUBSET DOMAIN ps, NEW c
  PROVE  Picked(ps, at, c, Len(ps), PickHighest(ps, at, c))
<1> DEFINE b == BestSoFar(ps, at, c)
           S == {i \in 0 .. Len(ps) : ~Picked(ps, at, c, i, b[i])}
<1>1. Len(ps) \in Nat /\ DOMAIN ps = 1 .. Len(ps) /\ \A j \in DOMAIN ps : ps[j] \in PolicyType
  OBVIOUS
<1>2. /\ b[0] = NoPolicy
      /\ \A i \in 1 .. Len(ps) : b[i] = IF i \in at THEN Keep(b[i - 1], ps[i], c) ELSE b[i - 1]
  BY <1>1, LoopStep
<1>3. PickHighest(ps, at, c) = b[Len(ps)]
  BY DEF PickHighest
<1> HIDE DEF b
<1>4. ASSUME S # {} PROVE FALSE
  <2>1. S \subseteq Nat
    BY <1>1
  <2>2. PICK i \in S : \A k \in S : i <= k
    BY <1>4, <2>1, LeastNatural
  <2>3. i # 0
    <3>1. InScope(ps, at, c, 0) = {}
      BY <1>1 DEF InScope
    <3>2. QED
      BY <1>2, <2>2, <3>1 DEF Picked
  <2>4. i \in 1 .. Len(ps) /\ i - 1 \in 0 .. Len(ps) /\ ~(i <= i - 1)
    BY <1>1, <2>3
  <2>5. Picked(ps, at, c, i - 1, b[i - 1])
    BY <2>2, <2>4
  <2>6. ~Picked(ps, at, c, i, b[i])
    BY <2>2
  <2> DEFINE o == b[i - 1]
             p == ps[i]
             before == InScope(ps, at, c, i - 1)
  <2>7. InScope(ps, at, c, i) = IF i \in at /\ MatchesClient(p, c) THEN before \cup {i} ELSE before
    <3>1. \A j \in at : j <= i <=> (j <= i - 1 \/ j = i)
      BY <1>1, <2>4
    <3>2. QED
      BY <3>1 DEF InScope
  <2>8. p \in PolicyType /\ \A j \in before : ps[j] \in PolicyType
    BY <1>1, <2>4 DEF InScope
  <2>9. CASE ~(i \in at /\ MatchesClient(p, c))
    <3>1. b[i] = o
      BY <1>2, <2>4, <2>9 DEF Keep
    <3>2. QED
      BY <2>5, <2>6, <2>7, <2>9, <3>1 DEF Picked
  <2>10. CASE i \in at /\ MatchesClient(p, c)
    <3>1. b[i] = IF o = NoPolicy \/ Supersedes(p, o) THEN p ELSE o
      BY <1>2, <2>4, <2>10 DEF Keep
    <3>2. p # NoPolicy /\ ~Supersedes(p, p)
      BY <2>8, PolicyFields DEF Supersedes
    <3>3. CASE o = NoPolicy
      <4>1. before = {} /\ b[i] = p
        BY <2>5, <3>1, <3>3 DEF Picked
      <4>2. QED
        BY <2>6, <2>7, <2>10, <3>2, <4>1 DEF Picked
    <3>4. CASE o # NoPolicy /\ Supersedes(p, o)
      <4>1. /\ b[i] = p /\ o \in PolicyType
            /\ \A j \in before : ~Supersedes(ps[j], o)
        BY <2>5, <2>8, <3>1, <3>4 DEF Picked
      <4>2. ASSUME NEW j \in before PROVE ~Supersedes(ps[j], p)
        <5>1. ~Supersedes(ps[j], o) /\ ps[j] \in PolicyType
          BY <2>8, <4>1
        <5>2. /\ p.priority \in Int /\ o.priority \in Int /\ ps[j].priority \in Int
              /\ p.id \in Nat /\ o.id \in Nat /\ ps[j].id \in Nat
          BY <2>8, <4>1, <5>1, PolicyFields
        <5>3. QED
          BY <3>4, <5>1, <5>2 DEF Supersedes
      <4>3. QED
        BY <2>6, <2>7, <2>10, <3>2, <4>1, <4>2 DEF Picked
    <3>5. CASE o # NoPolicy /\ ~Supersedes(p, o)
      <4>1. /\ b[i] = o /\ \E j \in before : o = ps[j]
            /\ \A j \in before : ~Supersedes(ps[j], o)
        BY <2>5, <3>1, <3>5 DEF Picked
      <4>2. QED
        BY <2>6, <2>7, <2>10, <3>5, <4>1 DEF Picked
    <3>6. QED
      BY <3>3, <3>4, <3>5
  <2>11. QED
    BY <2>9, <2>10
<1>5. Len(ps) \in 0 .. Len(ps)
  BY <1>1
<1>6. QED
  BY <1>3, <1>4, <1>5

-----------------------------------------------------------------------------
(* The policies the two walks of a name consider at a level, or beyond. *)
LEMMA RulesTwice ==
  ASSUME pols \in Seq(PolicyType)
  PROVE  /\ Rules \in Seq(PolicyType) /\ Len(pols) \in Nat
         /\ DOMAIN pols = 1 .. Len(pols) /\ DOMAIN Rules = 1 .. Len(pols) + Len(pols)
         /\ \A j \in DOMAIN pols : /\ Rules[j] = pols[j] /\ j \in DOMAIN Rules
                                   /\ Rules[Len(pols) + j] = pols[j] /\ Len(pols) + j \in DOMAIN Rules
         /\ \A j \in DOMAIN Rules : j <= Len(pols) \/ j - Len(pols) \in DOMAIN pols
<1>1. Len(pols) \in Nat /\ DOMAIN pols = 1 .. Len(pols)
  OBVIOUS
<1>2. /\ Rules \in Seq(PolicyType) /\ Len(Rules) = Len(pols) + Len(pols)
      /\ \A j \in 1 .. Len(pols) + Len(pols) :
           Rules[j] = IF j <= Len(pols) THEN pols[j] ELSE pols[j - Len(pols)]
  BY ConcatProperties DEF Rules
<1>3. DOMAIN Rules = 1 .. Len(pols) + Len(pols)
  BY <1>2
<1>4. ASSUME NEW j \in DOMAIN pols
      PROVE  /\ Rules[j] = pols[j] /\ j \in DOMAIN Rules
             /\ Rules[Len(pols) + j] = pols[j] /\ Len(pols) + j \in DOMAIN Rules
  <2>1. /\ j \in 1 .. Len(pols) + Len(pols) /\ Len(pols) + j \in 1 .. Len(pols) + Len(pols)
        /\ j <= Len(pols) /\ ~(Len(pols) + j <= Len(pols)) /\ (Len(pols) + j) - Len(pols) = j
    BY <1>1
  <2>2. QED
    BY <1>2, <1>3, <2>1
<1>5. \A j \in DOMAIN Rules : j <= Len(pols) \/ j - Len(pols) \in DOMAIN pols
  BY <1>1, <1>3
<1>6. QED
  BY <1>1, <1>2, <1>3, <1>4, <1>5

(* The active policies with an exact rule for a level of a name, and with a
   wildcard or a regex for it. *)
ExactRules(d, i) == {pols[j] : j \in {k \in DOMAIN pols :
                       Exact(pols[k], Suffix(d, i)) /\ Active(pols[k].sched, now)}}
DynamicRules(d) == {pols[j] : j \in {k \in DOMAIN pols :
                      /\ Wildcard(pols[k], d) \/ d \in pols[k].regexes
                      /\ Active(pols[k].sched, now)}}

(* The policy p is the best in scope among the candidates P, if there is one. *)
Chosen(P, c, p) ==
  IF p = NoPolicy THEN \A q \in P : ~MatchesClient(q, c)
  ELSE /\ p \in P /\ MatchesClient(p, c)
       /\ \A q \in P : MatchesClient(q, c) => ~Supersedes(q, p)

LEMMA PickIsChosen ==
  ASSUME NEW ps \in Seq(PolicyType), NEW at \in SUBSET DOMAIN ps, NEW c
  PROVE  Chosen({ps[j] : j \in at}, c, PickHighest(ps, at, c))
<1> DEFINE p == PickHighest(ps, at, c)
<1>1. Picked(ps, at, c, Len(ps), p)
  BY LoopPicks
<1>2. InScope(ps, at, c, Len(ps)) = {j \in at : MatchesClient(ps[j], c)}
  <2>1. \A j \in at : j <= Len(ps)
    OBVIOUS
  <2>2. QED
    BY <2>1 DEF InScope
<1> HIDE DEF p
<1>3. CASE p = NoPolicy
  <2>1. \A j \in at : ~MatchesClient(ps[j], c)
    BY <1>1, <1>2, <1>3 DEF Picked
  <2>2. Chosen({ps[j] : j \in at}, c, p)
    BY <1>3, <2>1 DEF Chosen
  <2>3. QED
    BY <2>2 DEF p
<1>4. CASE p # NoPolicy
  <2>1. PICK j \in at : p = ps[j] /\ MatchesClient(ps[j], c)
    BY <1>1, <1>2, <1>4 DEF Picked
  <2>2. \A k \in at : MatchesClient(ps[k], c) => ~Supersedes(ps[k], p)
    BY <1>1, <1>2, <1>4 DEF Picked
  <2>3. p \in {ps[k] : k \in at} /\ MatchesClient(p, c)
    BY <2>1
  <2>4. ASSUME NEW q \in {ps[k] : k \in at}, MatchesClient(q, c) PROVE ~Supersedes(q, p)
    BY <2>2, <2>4
  <2>5. Chosen({ps[k] : k \in at}, c, p)
    BY <1>4, <2>3, <2>4 DEF Chosen
  <2>6. QED
    BY <2>5 DEF p
<1>5. QED
  BY <1>3, <1>4

LEMMA ExactChosen ==
  ASSUME pols \in Seq(PolicyType), NEW d, NEW i, NEW c
  PROVE  Chosen(ExactRules(d, i), c, PickHighest(pols, ExactAt(d, i), c))
<1>1. ExactAt(d, i) \in SUBSET DOMAIN pols
  BY DEF ExactAt
<1>2. ExactRules(d, i) = {pols[j] : j \in ExactAt(d, i)}
  BY DEF ExactRules, ExactAt, FilterActive
<1>3. QED
  BY <1>1, <1>2, PickIsChosen

LEMMA DynamicSet ==
  ASSUME pols \in Seq(PolicyType), NEW d
  PROVE  Dynamic(d) \in SUBSET DOMAIN Rules /\ DynamicRules(d) = {Rules[j] : j \in Dynamic(d)}
<1>1. /\ Rules \in Seq(PolicyType) /\ Len(pols) \in Nat
      /\ DOMAIN pols = 1 .. Len(pols) /\ DOMAIN Rules = 1 .. Len(pols) + Len(pols)
      /\ \A j \in DOMAIN pols : /\ Rules[j] = pols[j] /\ j \in DOMAIN Rules
                                /\ Rules[Len(pols) + j] = pols[j] /\ Len(pols) + j \in DOMAIN Rules
      /\ \A j \in DOMAIN Rules : j <= Len(pols) \/ j - Len(pols) \in DOMAIN pols
  BY RulesTwice
<1>2. ASSUME NEW j
      PROVE  j \in Dynamic(d) <=>
               /\ j \in DOMAIN Rules
               /\ IF j <= Len(pols) THEN Wildcard(Rules[j], d) ELSE d \in Rules[j].regexes
               /\ Active(Rules[j].sched, now)
  BY DEF Dynamic, FilterActive
<1>3. ASSUME NEW j \in Dynamic(d) PROVE Rules[j] \in DynamicRules(d)
  <2>1. CASE j <= Len(pols)
    <3>1. j \in DOMAIN pols /\ Rules[j] = pols[j]
      BY <1>1, <1>2, <2>1
    <3>2. QED
      BY <1>2, <2>1, <3>1 DEF DynamicRules
  <2>2. CASE ~(j <= Len(pols))
    <3>1. j - Len(pols) \in DOMAIN pols /\ Len(pols) + (j - Len(pols)) = j
      BY <1>1, <1>2, <2>2
    <3>2. Rules[j] = pols[j - Len(pols)]
      BY <1>1, <3>1
    <3>3. QED
      BY <1>2, <2>2, <3>1, <3>2 DEF DynamicRules
  <2>3. QED
    BY <2>1, <2>2
<1>4. ASSUME NEW q \in DynamicRules(d) PROVE \E j \in Dynamic(d) : q = Rules[j]
  <2>1. PICK k \in DOMAIN pols : /\ q = pols[k] /\ Active(pols[k].sched, now)
                                 /\ Wildcard(pols[k], d) \/ d \in pols[k].regexes
    BY DEF DynamicRules
  <2>2. CASE Wildcard(pols[k], d)
    <3>1. k \in DOMAIN Rules /\ k <= Len(pols) /\ Rules[k] = pols[k]
      BY <1>1
    <3>2. k \in Dynamic(d)
      BY <1>2, <2>1, <2>2, <3>1
    <3>3. QED
      BY <2>1, <3>1, <3>2
  <2>3. CASE d \in pols[k].regexes
    <3>1. /\ Len(pols) + k \in DOMAIN Rules /\ Rules[Len(pols) + k] = pols[k]
          /\ ~(Len(pols) + k <= Len(pols))
      BY <1>1
    <3>2. Len(pols) + k \in Dynamic(d)
      BY <1>2, <2>1, <2>3, <3>1
    <3>3. QED
      BY <2>1, <3>1, <3>2
  <2>4. QED
    BY <2>1, <2>2, <2>3
<1>5. Dynamic(d) \in SUBSET DOMAIN Rules
  BY <1>2
<1>6. QED
  BY <1>3, <1>4, <1>5

LEMMA DynamicChosen ==
  ASSUME pols \in Seq(PolicyType), NEW d, NEW c
  PROVE  Chosen(DynamicRules(d), c, PickHighest(Rules, Dynamic(d), c))
BY DynamicSet, RulesTwice, PickIsChosen

(* What the two walks have in common: the Bloom filter hides no exact rule. *)
LEMMA BloomHidesNothing ==
  ASSUME EngineTypeOK, NEW d \in Domains, NEW i \in 1 .. Len(d), Suffix(d, i) \notin bloom
  PROVE  ExactRules(d, i) = {}
<1>1. Suffix(d, i) \in AllNames
  BY DEF AllNames
<1>2. \A k \in DOMAIN pols : ~Exact(pols[k], Suffix(d, i))
  BY <1>1 DEF EngineTypeOK
<1>3. QED
  BY <1>2 DEF ExactRules

(* Evaluate: the nearest level with an active exact rule in scope decides, else
   the wildcards and regexes do. *)
LEMMA EvaluateDecides ==
  ASSUME EngineTypeOK, NEW d \in Domains, NEW c
  PROVE  \/ \E i \in 1 .. Len(d) - 1 :
              /\ Evaluate(d, c) # NoPolicy /\ Chosen(ExactRules(d, i), c, Evaluate(d, c))
              /\ Suffix(d, i) \in bloom
              /\ \A k \in 1 .. Len(d) - 1 : k < i => Chosen(ExactRules(d, k), c, NoPolicy)
         \/ /\ \A k \in 1 .. Len(d) - 1 : Chosen(ExactRules(d, k), c, NoPolicy)
            /\ Chosen(DynamicRules(d), c, Evaluate(d, c))
<1> DEFINE Pick(i) == PickHighest(pols, ExactAt(d, i), c)
           hits == {i \in Levels(d) : Pick(i) # NoPolicy}
<1>1. pols \in Seq(PolicyType) /\ Len(d) \in Nat
  BY PolicyAssumption DEF EngineTypeOK
<1>2. \A i : Chosen(ExactRules(d, i), c, Pick(i))
  BY <1>1, ExactChosen
<1>3. ASSUME NEW k \in 1 .. Len(d) - 1, k \notin hits PROVE Chosen(ExactRules(d, k), c, NoPolicy)
  <2>1. CASE k \in Levels(d)
    BY <1>2, <1>3, <2>1
  <2>2. CASE k \notin Levels(d)
    <3>1. Suffix(d, k) \notin bloom /\ k \in 1 .. Len(d)
      BY <1>1, <2>2 DEF Levels
    <3>2. ExactRules(d, k) = {}
      BY <3>1, BloomHidesNothing
    <3>3. QED
      BY <3>2 DEF Chosen
  <2>3. QED
    BY <2>1, <2>2
<1>4. CASE hits = {}
  <2>1. Evaluate(d, c) = PickHighest(Rules, Dynamic(d), c)
    BY <1>4 DEF Evaluate
  <2>2. QED
    BY <1>1, <1>3, <1>4, <2>1, DynamicChosen
<1>5. CASE hits # {}
  <2>1. hits \subseteq Nat
    BY <1>1 DEF Levels
  <2>2. \E i \in hits : \A j \in hits : i <= j
    BY <1>5, <2>1, LeastNatural
  <2> DEFINE i == CHOOSE x \in hits : \A j \in hits : x <= j
  <2>3. i \in hits /\ \A j \in hits : i <= j
    BY <2>2
  <2>4. Evaluate(d, c) = Pick(i)
    BY <1>5 DEF Evaluate
  <2> HIDE DEF i
  <2>5. i \in 1 .. Len(d) - 1 /\ Suffix(d, i) \in bloom /\ Pick(i) # NoPolicy
    BY <2>3 DEF Levels
  <2>6. ASSUME NEW k \in 1 .. Len(d) - 1, k < i PROVE k \notin hits
    <3>1. ~(i <= k)
      BY <1>1, <2>5, <2>6
    <3>2. QED
      BY <2>3, <3>1
  <2>7. QED
    BY <1>2, <1>3, <2>4, <2>5, <2>6
<1>6. QED
  BY <1>4, <1>5

-----------------------------------------------------------------------------
(* With one policy to an ID, a client is in scope if it is in the policy's own
   ranges. *)
LEMMA OwnRanges ==
  ASSUME UniqueIDs, NEW k \in DOMAIN pols, NEW c
  PROVE  MatchesClient(pols[k], c) <=> (pols[k].scoped => c \in pols[k].scope)
<1>1. {j \in DOMAIN pols : pols[j].id = pols[k].id} = {k}
  BY DEF UniqueIDs
<1>2. ClientNets(pols[k].id) = pols[k].scope
  BY <1>1 DEF ClientNets
<1>3. QED
  BY <1>2 DEF MatchesClient

(* The rank of a policy is its lowest exact level, else the length of the name. *)
LEMMA RankIsLeast ==
  ASSUME NEW d, Len(d) \in Nat, NEW p
  PROVE  \/ /\ Rank(p, d) = Len(d)
            /\ \A i \in 1 .. Len(d) - 1 : ~Exact(p, Suffix(d, i))
         \/ /\ Rank(p, d) \in 1 .. Len(d) - 1 /\ Exact(p, Suffix(d, Rank(p, d)))
            /\ \A i \in 1 .. Len(d) - 1 : Exact(p, Suffix(d, i)) => Rank(p, d) <= i
<1> DEFINE at == {i \in 1 .. Len(d) - 1 : Exact(p, Suffix(d, i))}
<1>1. CASE at = {}
  BY <1>1 DEF Rank
<1>2. CASE at # {}
  <2>1. at \subseteq Nat
    OBVIOUS
  <2>2. \E i \in at : \A j \in at : i <= j
    BY <1>2, <2>1, LeastNatural
  <2>3. Rank(p, d) = CHOOSE i \in at : \A j \in at : i <= j
    BY <1>2 DEF Rank
  <2> HIDE DEF at
  <2>4. Rank(p, d) \in at /\ \A j \in at : Rank(p, d) <= j
    BY <2>2, <2>3
  <2>5. QED
    BY <2>4 DEF at
<1>3. QED
  BY <1>1, <1>2

LEMMA BestDecides ==
  ASSUME EngineTypeOK
  PROVE  DecisionIsBest
<1>1. SUFFICES ASSUME UniqueIDs, NEW d \in Domains, NEW c \in Clients \cup {Unknown}
               PROVE  LET applying == {pols[i] : i \in {j \in DOMAIN pols : Applies(pols[j], d, c)}}
                      IN  IF Evaluate(d, c) = NoPolicy THEN applying = {}
                          ELSE /\ Evaluate(d, c) \in applying
                               /\ \A q \in applying : ~Beats(q, Evaluate(d, c), d)
  BY DEF DecisionIsBest, Asked
<1> DEFINE applying == {pols[i] : i \in {j \in DOMAIN pols : Applies(pols[j], d, c)}}
<1>2. Len(d) \in Nat /\ pols \in Seq(PolicyType)
  BY PolicyAssumption DEF EngineTypeOK
<1>3. ASSUME NEW q
      PROVE  q \in applying <=>
               /\ \/ \E i \in 1 .. Len(d) - 1 : q \in ExactRules(d, i)
                  \/ q \in DynamicRules(d)
               /\ MatchesClient(q, c)
  <2>1. ASSUME q \in applying
        PROVE  /\ \/ \E i \in 1 .. Len(d) - 1 : q \in ExactRules(d, i)
                  \/ q \in DynamicRules(d)
               /\ MatchesClient(q, c)
    <3>1. PICK k \in DOMAIN pols : q = pols[k] /\ Applies(pols[k], d, c)
      BY <2>1
    <3>2. MatchesClient(q, c)
      BY <1>1, <3>1, OwnRanges DEF Applies
    <3>3. QED
      BY <3>1, <3>2 DEF Applies, Matches, ExactRules, DynamicRules
  <2>2. ASSUME \/ \E i \in 1 .. Len(d) - 1 : q \in ExactRules(d, i)
               \/ q \in DynamicRules(d),
               MatchesClient(q, c)
        PROVE  q \in applying
    <3>1. PICK k \in DOMAIN pols : q = pols[k] /\ Matches(pols[k], d) /\ Active(pols[k].sched, now)
      BY <2>2 DEF Matches, ExactRules, DynamicRules
    <3>2. Applies(pols[k], d, c)
      BY <1>1, <2>2, <3>1, OwnRanges DEF Applies
    <3>3. QED
      BY <3>1, <3>2
  <2>3. QED
    BY <2>1, <2>2
<1>4. ASSUME NEW q \in applying
      PROVE  /\ q \in PolicyType
             /\ \A i \in 1 .. Len(d) - 1 : Exact(q, Suffix(d, i)) => q \in ExactRules(d, i)
  <2>1. PICK k \in DOMAIN pols : q = pols[k] /\ Active(pols[k].sched, now)
    BY DEF Applies
  <2>2. QED
    BY <1>2, <2>1 DEF ExactRules
<1> HIDE DEF applying
<1>5. \A i : \A q \in ExactRules(d, i) : Exact(q, Suffix(d, i))
  BY DEF ExactRules
<1> DEFINE p == Evaluate(d, c)
<1>6. CASE \E i \in 1 .. Len(d) - 1 :
             /\ p # NoPolicy /\ Chosen(ExactRules(d, i), c, p)
             /\ \A k \in 1 .. Len(d) - 1 : k < i => Chosen(ExactRules(d, k), c, NoPolicy)
  <2>1. PICK i \in 1 .. Len(d) - 1 :
             /\ p # NoPolicy /\ Chosen(ExactRules(d, i), c, p)
             /\ \A k \in 1 .. Len(d) - 1 : k < i => Chosen(ExactRules(d, k), c, NoPolicy)
    BY <1>6
  <2> HIDE DEF p
  <2>2. p \in ExactRules(d, i) /\ MatchesClient(p, c)
    BY <2>1 DEF Chosen
  <2>3. p \in applying
    BY <1>3, <2>2
  <2>4. ASSUME NEW q \in applying, NEW k \in 1 .. Len(d) - 1, Exact(q, Suffix(d, k)) PROVE ~(k < i)
    BY <1>3, <1>4, <2>1, <2>4 DEF Chosen
  <2>5. Rank(p, d) = i
    <3>1. Rank(p, d) \in 1 .. Len(d) - 1 /\ Exact(p, Suffix(d, Rank(p, d))) /\ Rank(p, d) <= i
      BY <1>2, <1>5, <2>2, RankIsLeast
    <3>2. ~(Rank(p, d) < i)
      BY <2>3, <2>4, <3>1
    <3>3. QED
      BY <1>2, <3>1, <3>2
  <2>6. ASSUME NEW q \in applying PROVE ~Beats(q, p, d)
    <3>1. Rank(q, d) \in Nat /\ ~(Rank(q, d) < i)
      <4>1. CASE Rank(q, d) = Len(d)
        BY <1>2, <4>1
      <4>2. CASE Rank(q, d) \in 1 .. Len(d) - 1 /\ Exact(q, Suffix(d, Rank(q, d)))
        <5>1. Rank(q, d) \in Nat
          BY <1>2, <4>2
        <5>2. QED
          BY <2>4, <4>2, <5>1
      <4>3. QED
        BY <1>2, <4>1, <4>2, RankIsLeast
    <3>2. ASSUME Rank(q, d) = i PROVE ~Supersedes(q, p)
      <4>1. Exact(q, Suffix(d, i))
        <5>1. Rank(q, d) # Len(d)
          BY <1>2, <3>2
        <5>2. QED
          BY <1>2, <3>2, <5>1, RankIsLeast
      <4>2. q \in ExactRules(d, i) /\ MatchesClient(q, c)
        BY <1>3, <1>4, <4>1
      <4>3. QED
        BY <2>1, <4>2 DEF Chosen
    <3>3. QED
      BY <2>5, <3>1, <3>2 DEF Beats, Supersedes
  <2>7. QED
    BY <2>1, <2>3, <2>6 DEF p, applying
<1>7. CASE /\ \A k \in 1 .. Len(d) - 1 : Chosen(ExactRules(d, k), c, NoPolicy)
           /\ Chosen(DynamicRules(d), c, p)
  <2> HIDE DEF p
  <2>1. ASSUME NEW q \in applying
        PROVE  /\ \A k \in 1 .. Len(d) - 1 : ~Exact(q, Suffix(d, k))
               /\ q \in DynamicRules(d) /\ MatchesClient(q, c) /\ Rank(q, d) = Len(d)
    <3>1. MatchesClient(q, c) /\ \A k \in 1 .. Len(d) - 1 : q \notin ExactRules(d, k)
      BY <1>3, <1>7 DEF Chosen
    <3>2. \A k \in 1 .. Len(d) - 1 : ~Exact(q, Suffix(d, k))
      BY <1>4, <3>1
    <3>3. Rank(q, d) = Len(d)
      BY <1>2, <3>2, RankIsLeast
    <3>4. QED
      BY <1>3, <3>1, <3>2, <3>3
  <2>2. CASE p = NoPolicy
    <3>1. applying = {}
      BY <1>7, <2>1, <2>2 DEF Chosen
    <3>2. QED
      BY <2>2, <3>1 DEF p, applying
  <2>3. CASE p # NoPolicy
    <3>1. p \in DynamicRules(d) /\ MatchesClient(p, c)
      BY <1>7, <2>3 DEF Chosen
    <3>2. p \in applying
      BY <1>3, <3>1
    <3>3. ASSUME NEW q \in applying PROVE ~Beats(q, p, d)
      <4>1. ~Supersedes(q, p)
        BY <1>7, <2>1, <2>3 DEF Chosen
      <4>2. Rank(q, d) = Rank(p, d) /\ Rank(p, d) \in Nat
        BY <1>2, <2>1, <3>2
      <4>3. QED
        BY <4>1, <4>2 DEF Beats, Supersedes
    <3>4. QED
      BY <2>3, <3>2, <3>3 DEF p, applying
  <2>4. QED
    BY <2>2, <2>3
<1>8. QED
  BY <1>6, <1>7, EvaluateDecides

LEMMA AllowFollows ==
  ASSUME EngineTypeOK
  PROVE  AllowAgrees
<1>1. SUFFICES ASSUME NEW d \in Domains, NEW c \in Clients \cup {Unknown}
               PROVE  /\ Evaluate(d, c) # NoPolicy /\ Evaluate(d, c).action = "ALLOW" => AllowSurface(d, c)
                      /\ Evaluate(d, c) = NoPolicy => ~AllowSurface(d, c)
  BY DEF AllowAgrees, Asked, IsExplicitlyAllowed
<1>2. pols \in Seq(PolicyType) /\ Len(d) \in Nat
  BY PolicyAssumption DEF EngineTypeOK
<1>3. \A i : HasScopedAllow(pols, ExactAt(d, i), c)
             <=> \E q \in ExactRules(d, i) : MatchesClient(q, c) /\ q.action = "ALLOW"
  BY DEF HasScopedAllow, ExactRules, ExactAt, FilterActive
<1>4. HasScopedAllow(Rules, Dynamic(d), c)
      <=> \E q \in DynamicRules(d) : MatchesClient(q, c) /\ q.action = "ALLOW"
  BY <1>2, DynamicSet DEF HasScopedAllow
<1> DEFINE p == Evaluate(d, c)
<1>5. CASE \E i \in 1 .. Len(d) - 1 : /\ p # NoPolicy /\ Chosen(ExactRules(d, i), c, p)
                                      /\ Suffix(d, i) \in bloom
  <2> HIDE DEF p
  <2>1. PICK i \in Levels(d) : p # NoPolicy /\ Chosen(ExactRules(d, i), c, p)
    BY <1>5 DEF Levels
  <2>2. p.action = "ALLOW" => HasScopedAllow(pols, ExactAt(d, i), c)
    BY <1>3, <2>1 DEF Chosen
  <2>3. QED
    BY <2>1, <2>2 DEF AllowSurface, p
<1>6. CASE /\ \A k \in 1 .. Len(d) - 1 : Chosen(ExactRules(d, k), c, NoPolicy)
           /\ Chosen(DynamicRules(d), c, p)
  <2> HIDE DEF p
  <2>1. \A i \in Levels(d) : ~HasScopedAllow(pols, ExactAt(d, i), c)
    BY <1>3, <1>6 DEF Chosen, Levels
  <2>2. CASE p = NoPolicy
    <3>1. ~HasScopedAllow(Rules, Dynamic(d), c)
      BY <1>4, <1>6, <2>2 DEF Chosen
    <3>2. QED
      BY <2>1, <2>2, <3>1 DEF AllowSurface, p
  <2>3. CASE p # NoPolicy
    <3>1. p.action = "ALLOW" => HasScopedAllow(Rules, Dynamic(d), c)
      BY <1>4, <1>6, <2>3 DEF Chosen
    <3>2. QED
      BY <2>3, <3>1 DEF AllowSurface, p
  <2>4. QED
    BY <2>2, <2>3
<1>7. QED
  BY <1>5, <1>6, EvaluateDecides

LEMMA UnknownUnscoped ==
  ASSUME EngineTypeOK
  PROVE  UnknownClientUnscoped
<1>1. SUFFICES ASSUME NEW d \in Domains, Evaluate(d, Unknown) # NoPolicy
               PROVE  ~Evaluate(d, Unknown).scoped
  BY DEF UnknownClientUnscoped
<1> DEFINE p == Evaluate(d, Unknown)
<1>2. MatchesClient(p, Unknown)
  BY <1>1, EvaluateDecides DEF Chosen
<1> HIDE DEF p
<1>3. \A n : ClientNets(n) \subseteq Clients
  <2>1. \A j \in DOMAIN pols : pols[j] \in PolicyType
    BY DEF EngineTypeOK
  <2>2. \A j \in DOMAIN pols : pols[j].scope \subseteq Clients
    BY <2>1, PolicyFields
  <2>3. QED
    BY <2>2 DEF ClientNets
<1>4. ~p.scoped
  BY <1>2, <1>3, PolicyAssumption DEF MatchesClient
<1>5. QED
  BY <1>4 DEF p

-----------------------------------------------------------------------------
(* Quotient and remainder by a positive number, which are determined by what
   they have to be. *)
LEMMA Division ==
  ASSUME NEW a \in Int, NEW n \in Nat \ {0}
  PROVE  a = n * (a \div n) + (a % n) /\ a % n \in 0 .. n - 1 /\ a \div n \in Int
<1>1. a % n \in 0 .. n - 1
  OBVIOUS
<1>2. a \div n \in Int
  OBVIOUS
<1>3. a = n * (a \div n) + (a % n)
  OBVIOUS
<1>4. QED
  BY <1>1, <1>2, <1>3

LEMMA Multiple ==
  ASSUME NEW n \in Nat, NEW k \in Int, k >= 1
  PROVE  n * k >= n
OBVIOUS

LEMMA DivisionIsUnique ==
  ASSUME NEW n \in Nat \ {0}, NEW q \in Int, NEW p \in Int,
         NEW r \in 0 .. n - 1, NEW s \in 0 .. n - 1, n * q + r = n * p + s
  PROVE  q = p /\ r = s
<1>1. n * (q - p) = s - r /\ n * (p - q) = r - s
  OBVIOUS
<1>2. ~(q - p >= 1)
  <2>1. SUFFICES ASSUME q - p >= 1 PROVE FALSE
    OBVIOUS
  <2>2. n * (q - p) >= n
    BY <2>1, Multiple
  <2>3. QED
    BY <1>1, <2>2
<1>3. ~(p - q >= 1)
  <2>1. SUFFICES ASSUME p - q >= 1 PROVE FALSE
    OBVIOUS
  <2>2. n * (p - q) >= n
    BY <2>1, Multiple
  <2>3. QED
    BY <1>1, <2>2
<1>4. q = p
  BY <1>2, <1>3
<1>5. QED
  BY <1>4

LEMMA Divided ==
  ASSUME NEW n \in Nat \ {0}, NEW q \in Int, NEW r \in 0 .. n - 1,
         NEW a \in Int, a = n * q + r
  PROVE  a \div n = q /\ a % n = r
<1>1. a = n * (a \div n) + (a % n) /\ a % n \in 0 .. n - 1 /\ a \div n \in Int
  BY Division
<1>2. QED
  BY <1>1, DivisionIsUnique

(* The minutes of a week are its days' minutes. *)
LEMMA DayAndMinute ==
  ASSUME NEW len \in Nat \ {0}, NEW n \in Nat \ {0}
  PROVE  /\ \A x \in 0 .. n * len - 1 : x \div len \in 0 .. n - 1 /\ x % len \in 0 .. len - 1
         /\ \A d \in 0 .. n - 1, m \in 0 .. len - 1 :
              /\ len * d + m \in 0 .. n * len - 1
              /\ (len * d + m) \div len = d /\ (len * d + m) % len = m
<1>1. n * len \in Nat /\ n * len = len * n
  OBVIOUS
<1>2. ASSUME NEW x \in 0 .. n * len - 1
      PROVE  x \div len \in 0 .. n - 1 /\ x % len \in 0 .. len - 1
  <2> DEFINE q == x \div len
             r == x % len
  <2>1. x \in Int /\ x >= 0 /\ x < len * n
    BY <1>1
  <2>2. x = len * q + r /\ r \in 0 .. len - 1 /\ q \in Int
    BY <2>1, Division
  <2> HIDE DEF q, r
  <2>3. q >= 0
    <3>1. SUFFICES ASSUME -q >= 1 PROVE FALSE
      BY <2>2
    <3>2. len * (-q) >= len
      BY <2>2, <3>1, Multiple
    <3>3. len * (-q) = r - x
      BY <2>1, <2>2
    <3>4. QED
      BY <2>1, <2>2, <3>2, <3>3
  <2>4. q < n
    <3>1. SUFFICES ASSUME q >= n PROVE FALSE
      BY <2>2
    <3>2. len * q >= len * n
      BY <2>2, <3>1
    <3>3. QED
      BY <2>1, <2>2, <3>2
  <2>5. QED
    BY <2>2, <2>3, <2>4 DEF q, r
<1>3. ASSUME NEW d \in 0 .. n - 1, NEW m \in 0 .. len - 1
      PROVE  /\ len * d + m \in 0 .. n * len - 1
             /\ (len * d + m) \div len = d /\ (len * d + m) % len = m
  <2>1. len * d \in Nat /\ len * (d + 1) = len * d + len
    OBVIOUS
  <2>2. len * (d + 1) <= len * n
    OBVIOUS
  <2>3. len * d + m \in Int /\ len * d + m >= 0 /\ len * d + m < n * len
    BY <1>1, <2>1, <2>2
  <2>4. QED
    BY <1>1, <2>3, Divided
<1>4. QED
  BY <1>2, <1>3

(* Moving an instant by a zone, and back. *)
LEMMA ZoneAndBack ==
  ASSUME NEW n \in Nat \ {0}, NEW z \in Int, NEW x \in 0 .. n - 1
  PROVE  (x - z) % n \in 0 .. n - 1 /\ (((x - z) % n) + z) % n = x
<1> DEFINE q == (x - z) \div n
           h == (x - z) % n
<1>1. x - z = n * q + h /\ h \in 0 .. n - 1 /\ q \in Int
  BY Division
<1> HIDE DEF q, h
<1>2. h + z = n * (-q) + x
  <2>1. n * (-q) = -(n * q) /\ n * q \in Int
    BY <1>1
  <2>2. QED
    BY <1>1, <2>1
<1>3. (h + z) % n = x
  <2>1. h + z \in Int /\ -q \in Int
    BY <1>1
  <2>2. QED
    BY <1>2, <2>1, Divided
<1>4. QED
  BY <1>1, <1>3 DEF h

-----------------------------------------------------------------------------
(* The minutes of a day in a window, across midnight or not. *)
WindowMinutes(s, e) == {m \in 0 .. DayLen - 1 : InWindow(m, s, e)}

LEMMA WindowMinutesCounted ==
  ASSUME NEW s \in 0 .. DayLen - 1, NEW e \in 0 .. DayLen - 1
  PROVE  /\ IsFiniteSet(WindowMinutes(s, e))
         /\ Cardinality(WindowMinutes(s, e)) = (e - s) % DayLen
<1>1. DayLen \in Nat \ {0}
  BY PolicyAssumption
<1>2. CASE s <= e
  <2>1. WindowMinutes(s, e) = s .. e - 1
    BY <1>1, <1>2 DEF WindowMinutes, InWindow
  <2>2. IsFiniteSet(s .. e - 1) /\ Cardinality(s .. e - 1) = e - s
    <3>1. s \in Int /\ e - 1 \in Int /\ (IF s > e - 1 THEN 0 ELSE e - 1 - s + 1) = e - s
      BY <1>1, <1>2
    <3>2. QED
      BY <3>1, FS_Interval
  <2>3. (e - s) % DayLen = e - s
    <3>1. e - s = DayLen * 0 + (e - s) /\ e - s \in 0 .. DayLen - 1
      BY <1>1, <1>2
    <3>2. QED
      BY <1>1, <3>1, Divided
  <2>4. QED
    BY <2>1, <2>2, <2>3
<1>3. CASE s > e
  <2> DEFINE early == 0 .. e - 1
             late  == s .. DayLen - 1
  <2>1. WindowMinutes(s, e) = early \cup late
    BY <1>1, <1>3 DEF WindowMinutes, InWindow
  <2>2. IsFiniteSet(early) /\ Cardinality(early) = e
    BY <1>1, FS_Interval
  <2>3. IsFiniteSet(late) /\ Cardinality(late) = DayLen - s
    BY <1>1, FS_Interval
  <2>4. early \cap late = {}
    BY <1>1, <1>3
  <2> HIDE DEF early, late
  <2>5. /\ IsFiniteSet(early \cup late)
        /\ Cardinality(early \cup late) = e + (DayLen - s) - 0
    BY <2>2, <2>3, <2>4, FS_Union, FS_EmptySet
  <2>6. (e - s) % DayLen = e - s + DayLen
    <3>1. e - s = DayLen * (-1) + (e - s + DayLen) /\ e - s + DayLen \in 0 .. DayLen - 1
      BY <1>1, <1>3
    <3>2. QED
      BY <1>1, <3>1, Divided
  <2>7. QED
    BY <1>1, <2>1, <2>5, <2>6
<1>4. QED
  BY <1>1, <1>2, <1>3

ScheduledDays(s) == IF s.days = {} THEN 0 .. Days - 1 ELSE s.days

LEMMA ScheduledDaysCounted ==
  ASSUME NEW s, s.days \subseteq 0 .. Days - 1
  PROVE  /\ ScheduledDays(s) \subseteq 0 .. Days - 1 /\ IsFiniteSet(ScheduledDays(s))
         /\ Cardinality(ScheduledDays(s)) = IF s.days = {} THEN Days ELSE Cardinality(s.days)
<1>1. IsFiniteSet(0 .. Days - 1) /\ Cardinality(0 .. Days - 1) = Days
  BY PolicyAssumption, FS_Interval
<1>2. IsFiniteSet(s.days)
  BY <1>1, FS_Subset
<1>3. QED
  BY <1>1, <1>2 DEF ScheduledDays

(* The instants at which a window is on are, zone by zone, the minutes of the
   window on the scheduled days. *)
LEMMA WindowCounted ==
  ASSUME NEW s, s.days \subseteq 0 .. Days - 1, s.zone \in Nat,
         s.start \in 0 .. DayLen - 1, s.end \in 0 .. DayLen - 1
  PROVE  Cardinality({t \in Week : Active(s, t)}) =
           (IF s.days = {} THEN Days ELSE Cardinality(s.days)) * ((s.end - s.start) % DayLen)
<1> DEFINE n  == Days * DayLen
           D  == ScheduledDays(s)
           W  == WindowMinutes(s.start, s.end)
           On == {t \in Week : Active(s, t)}
           Local(t)   == (t + s.zone) % n
           Instant(d, m) == ((DayLen * d + m) - s.zone) % n
           F == [p \in D \X W |-> Instant(p[1], p[2])]
<1>1. Days \in Nat \ {0} /\ DayLen \in Nat \ {0} /\ n \in Nat \ {0} /\ Week = 0 .. n - 1
  BY PolicyAssumption DEF Week
<1>2. /\ \A x \in 0 .. n - 1 : x \div DayLen \in 0 .. Days - 1 /\ x % DayLen \in 0 .. DayLen - 1
      /\ \A d \in 0 .. Days - 1, m \in 0 .. DayLen - 1 :
           /\ DayLen * d + m \in 0 .. n - 1
           /\ (DayLen * d + m) \div DayLen = d /\ (DayLen * d + m) % DayLen = m
  BY <1>1, DayAndMinute
<1>3. D \subseteq 0 .. Days - 1 /\ W \subseteq 0 .. DayLen - 1
  BY ScheduledDaysCounted DEF WindowMinutes
<1>4. ASSUME NEW t \in Week
      PROVE  Local(t) \in 0 .. n - 1 /\ (t \in On <=> Local(t) \div DayLen \in D /\ Local(t) % DayLen \in W)
  <2>1. Local(t) \in 0 .. n - 1
    <3>1. t + s.zone \in Int
      BY <1>1
    <3> HIDE DEF n
    <3>2. QED
      BY <1>1, <3>1, Division
  <2>2. s.start # NoTime
    BY <1>1 DEF NoTime
  <2>3. Local(t) \div DayLen \in 0 .. Days - 1 /\ Local(t) % DayLen \in 0 .. DayLen - 1
    BY <1>2, <2>1
  <2>4. Active(s, t) <=>
          /\ s.days # {} => Local(t) \div DayLen \in s.days
          /\ InWindow(Local(t) % DayLen, s.start, s.end)
    BY <2>2 DEF Active
  <2> HIDE DEF Local
  <2>5. QED
    BY <2>1, <2>3, <2>4 DEF ScheduledDays, WindowMinutes
<1>5. ASSUME NEW d \in D, NEW m \in W
      PROVE  Instant(d, m) \in On /\ Local(Instant(d, m)) = DayLen * d + m
  <2> DEFINE x == DayLen * d + m
  <2>1. x \in 0 .. n - 1 /\ x \div DayLen = d /\ x % DayLen = m
    BY <1>2, <1>3
  <2>2. Instant(d, m) = (x - s.zone) % n
    OBVIOUS
  <2> HIDE DEF x, n
  <2>3. (x - s.zone) % n \in 0 .. n - 1 /\ (((x - s.zone) % n) + s.zone) % n = x
    <3>1. s.zone \in Int
      OBVIOUS
    <3>2. QED
      BY <1>1, <2>1, <3>1, ZoneAndBack
  <2> HIDE DEF On, Instant, D, W
  <2>4. Instant(d, m) \in Week /\ Local(Instant(d, m)) = x
    BY <1>1, <2>2, <2>3
  <2>5. QED
    BY <1>4, <2>1, <2>4 DEF x
<1>6. ASSUME NEW t \in On
      PROVE  \E d \in D, m \in W : Instant(d, m) = t
  <2> DEFINE d == Local(t) \div DayLen
             m == Local(t) % DayLen
  <2>1. t \in Week /\ t \in 0 .. n - 1
    BY <1>1
  <2>2. d \in D /\ m \in W /\ Local(t) \in 0 .. n - 1
    BY <1>4, <2>1
  <2>3. Local(t) = DayLen * d + m
    <3>1. Local(t) \in Int
      BY <1>1, <2>2
    <3> HIDE DEF Local
    <3>2. QED
      BY <1>1, <3>1, Division
  <2>4. (Local(t) - s.zone) % n = t
    <3> DEFINE z == -s.zone
    <3>1. z \in Int /\ t + s.zone = t - z /\ Local(t) - s.zone = Local(t) + z
      BY <1>1, <2>1, <2>2
    <3>2. (((t - z) % n) + z) % n = t
      BY <1>1, <2>1, <3>1, ZoneAndBack
    <3>3. QED
      BY <3>1, <3>2
  <2>5. Instant(d, m) = t
    BY <2>3, <2>4
  <2>6. QED
    BY <2>2, <2>5
<1>7. F \in Bijection(D \X W, On)
  <2> HIDE DEF On, D, W
  <2>1. F \in [D \X W -> On]
    <3>1. ASSUME NEW p \in D \X W PROVE Instant(p[1], p[2]) \in On
      <4>1. PICK d \in D, m \in W : p = <<d, m>>
        OBVIOUS
      <4> HIDE DEF Instant
      <4>2. QED
        BY <1>5, <4>1
    <3> HIDE DEF Instant
    <3>2. QED
      BY <3>1
  <2>2. ASSUME NEW p \in D \X W, NEW o \in D \X W, F[p] = F[o] PROVE p = o
    <3>1. PICK d \in D, m \in W : p = <<d, m>>
      OBVIOUS
    <3>2. PICK e \in D, k \in W : o = <<e, k>>
      OBVIOUS
    <3> HIDE DEF Instant, Local
    <3>3. Instant(d, m) = Instant(e, k)
      BY <2>2, <3>1, <3>2
    <3>4. DayLen * d + m = DayLen * e + k
      BY <1>5, <3>3
    <3>5. d = e /\ m = k
      BY <1>2, <1>3, <3>4
    <3>6. QED
      BY <3>1, <3>2, <3>5
  <2>3. ASSUME NEW t \in On PROVE \E p \in D \X W : F[p] = t
    <3> HIDE DEF Instant
    <3>1. PICK d \in D, m \in W : Instant(d, m) = t
      BY <1>6
    <3>2. <<d, m>> \in D \X W /\ F[<<d, m>>] = t
      BY <3>1
    <3>3. QED
      BY <3>2
  <2> HIDE DEF F
  <2>4. QED
    BY <2>1, <2>2, <2>3, Fun_IsBij
<1>8. ExistsBijection(D \X W, On)
  BY <1>7 DEF ExistsBijection
<1>9. /\ IsFiniteSet(D) /\ Cardinality(D) = IF s.days = {} THEN Days ELSE Cardinality(s.days)
      /\ IsFiniteSet(W) /\ Cardinality(W) = (s.end - s.start) % DayLen
  BY ScheduledDaysCounted, WindowMinutesCounted
<1> HIDE DEF D, W, On
<1>10. IsFiniteSet(D \X W) /\ Cardinality(D \X W) = Cardinality(D) * Cardinality(W)
  BY <1>9, FS_Product
<1>11. Cardinality(On) = Cardinality(D \X W)
  BY <1>8, <1>10, FS_Bijection
<1>12. QED
  BY <1>9, <1>10, <1>11 DEF On

LEMMA WindowsHaveTheirLength ==
  ASSUME EngineTypeOK
  PROVE  WindowHasItsLength
<1>1. SUFFICES ASSUME NEW i \in DOMAIN pols, pols[i].sched.start # NoTime
               PROVE  LET s == pols[i].sched IN
                      Cardinality({t \in Week : Active(s, t)}) =
                        (IF s.days = {} THEN Days ELSE Cardinality(s.days)) * ((s.end - s.start) % DayLen)
  BY DEF WindowHasItsLength
<1> DEFINE s == pols[i].sched
<1>2. pols[i] \in PolicyType
  BY DEF EngineTypeOK
<1>3. \/ s \in [days : SUBSET (0 .. Days - 1), start : 0 .. DayLen - 1, end : 0 .. DayLen - 1, zone : Nat]
      \/ s \in {[Always EXCEPT !.days = d] : d \in SUBSET (0 .. Days - 1)}
  BY <1>2 DEF PolicyType
<1>4. \A d : [Always EXCEPT !.days = d].start = NoTime
  BY DEF Always
<1>5. s \in [days : SUBSET (0 .. Days - 1), start : 0 .. DayLen - 1, end : 0 .. DayLen - 1, zone : Nat]
  BY <1>1, <1>3, <1>4
<1> HIDE DEF s
<1>6. /\ s.days \subseteq 0 .. Days - 1 /\ s.zone \in Nat
      /\ s.start \in 0 .. DayLen - 1 /\ s.end \in 0 .. DayLen - 1
  BY <1>5
<1>7. QED
  BY <1>6, WindowCounted DEF s

-----------------------------------------------------------------------------
(* Every snapshot has the policies' types, and no exact name is missing from its
   Bloom filter. *)
THEOREM EngineTypeCorrect == EngineSpec => []EngineTypeOK
<1>1. EngineInit => EngineTypeOK
  <2>1. <<>> \in Seq(PolicyType) /\ DOMAIN <<>> = {}
    OBVIOUS
  <2>2. QED
    BY <2>1 DEF EngineInit, EngineTypeOK
<1>2. EngineTypeOK /\ [EngineNext]_engineVars => EngineTypeOK'
  <2> SUFFICES ASSUME EngineTypeOK, [EngineNext]_engineVars PROVE EngineTypeOK'
    OBVIOUS
  <2>1. ASSUME NEW n \in 0 .. MaxPolicies, NEW ps \in [1 .. n -> Policies],
               NEW fp \in SUBSET AllNames, LoadPolicies(ps, fp)
        PROVE  EngineTypeOK'
    <3>1. ps \in Seq(PolicyType)
      <4>1. n \in Nat /\ ps \in [1 .. n -> PolicyType]
        BY PolicyAssumption
      <4>2. QED
        BY <4>1
    <3>2. BloomNames(ps) \subseteq AllNames
      BY DEF BloomNames
    <3>3. \A i \in DOMAIN ps : {m \in AllNames : Exact(ps[i], m)} \subseteq BloomNames(ps)
      BY DEF BloomNames
    <3>4. pols' = ps /\ bloom' = BloomNames(ps) \cup fp /\ now' = now
      BY <2>1 DEF LoadPolicies
    <3> HIDE DEF BloomNames
    <3>5. QED
      BY <3>1, <3>2, <3>3, <3>4 DEF EngineTypeOK
  <2>2. ASSUME NEW t \in Week, Clock(t) PROVE EngineTypeOK'
    BY <2>2 DEF Clock, EngineTypeOK
  <2>3. CASE UNCHANGED engineVars
    BY <2>3 DEF engineVars, EngineTypeOK
  <2>4. QED
    BY <2>1, <2>2, <2>3 DEF EngineNext
<1>3. QED
  BY <1>1, <1>2, PTL DEF EngineSpec

(* Evaluate and IsExplicitlyAllowed, for any names, clients and policies: with one
   policy to an ID the decision is that of the nearest, then the highest, then
   the first policy that applies; the two questions agree; a client that cannot
   be identified is decided by unscoped policies; and a schedule is on for the
   length of its window on each of its days, at every offset. *)
THEOREM EvaluationCorrect == EngineSpec => []EvaluationIsRight
<1>1. EngineTypeOK => EvaluationIsRight
  BY BestDecides, AllowFollows, UnknownUnscoped, WindowsHaveTheirLength DEF EvaluationIsRight
<1>2. QED
  BY <1>1, EngineTypeCorrect, PTL
=============================================================================
