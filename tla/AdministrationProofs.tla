------------------------ MODULE AdministrationProofs ------------------------
(***************************************************************************)
(* Safety of the parts an administrator deals with, for any number of      *)
(* requests, queries, resolvers, managers, lists, writes and restarts. The *)
(* parts share a clock at most: each has an invariant that its own steps   *)
(* preserve and the steps of the others leave alone.                       *)
(***************************************************************************)
EXTENDS MCAdministration, Integers, Sequences, FiniteSetTheorems, TLAPS

-----------------------------------------------------------------------------
(* First setup.                                                              *)

(* Whoever got past the insert is the one in the credential table. *)
SetupInv ==
  /\ step \in [Admins -> {"new", "hash", "insert", "sources", "end"}]
  /\ chosen \in [Admins -> SUBSET Choices]
  /\ answer \in [Admins -> {"none", "token", "conflict", "error"}]
  /\ creds \subseteq Admins /\ (creds = {} \/ \E a \in Admins : creds = {a})
  /\ \A a \in Admins : step[a] = "sources" \/ answer[a] = "token" => a \in creds
  /\ \A c \in created : c.by \in creds

-----------------------------------------------------------------------------
(* The two planes.                                                           *)

(* The call of an actor that waits. *)
Call(r) == [n |-> waitsFor[r], kind |-> kind[r], value |-> value[r]]
Pushing(r) == pc[r] \in {"send", "wait", "replied"}

(* The control plane serves requests once it has booted. A resolver handler
   pushes a list that is not older than its own write. *)
PushInv ==
  /\ value = [r \in Actors |-> value[r]]
  /\ cp = "booting" <=> pc[Boot] # "idle"
  /\ dbList <= writes
  /\ \A r \in Requests :
       /\ pc[r] # "idle" => cp = "up"
       /\ pc[r] = "read" => kind[r] = "list" /\ result[r] = "none"
       /\ wrote[r] <= dbList /\ (cp # "up" => wrote[r] = 0)
       /\ kind[r] = "list" /\ (Pushing(r) \/ result[r] = "ok") => value[r] >= wrote[r]

(* While nothing fails and nothing overlaps, one actor at most is busy, its call
   is the only one, and it pushes the one half of the configuration that differs
   from the stored one. *)
SyncInv ==
  calm =>
    /\ dp = "serving"
    /\ \A r, s \in Actors : pc[r] # "idle" /\ pc[s] # "idle" => r = s
    /\ calls # {} => \E r \in Actors : pc[r] = "wait" /\ calls = {Call(r)}
    /\ \A r \in Actors :
         /\ pc[r] \in {"seed", "read"} => accept = dbEnabled
         /\ Pushing(r) /\ kind[r] = "switch" =>
              value[r] = dbEnabled /\ (r # Boot => running = dbList)
         /\ Pushing(r) /\ kind[r] = "list" => value[r] = dbList /\ accept = dbEnabled
         /\ pc[r] = "replied" /\ kind[r] = "switch" => accept = dbEnabled
         /\ pc[r] = "replied" /\ kind[r] = "list" => running = dbList
    /\ AllIdle /\ cp = "up" => accept = dbEnabled /\ running = dbList

PlaneInv == TypeOK /\ PushInv /\ SyncInv

-----------------------------------------------------------------------------
(* The engine's upstream managers.                                           *)

Busy(a) == apc[a] # "idle"

(* Who answers for the sockets of a manager: the pointer, the one apply that
   builds or closes it, or nobody after a failed construction. *)
OwnerInv ==
  /\ current \notin abandoned /\ abandoned \subseteq 1 .. built
  /\ \A a \in Appliers : Busy(a) =>
       amgr[a] \in 1 .. built /\ amgr[a] # current /\ amgr[a] \notin abandoned
  /\ \A a, b \in Appliers : Busy(a) /\ Busy(b) /\ amgr[a] = amgr[b] => a = b
  /\ \A m \in Managers :
       /\ open[m] \subseteq 1 .. size[m]
       /\ \/ open[m] = {} \/ m = current \/ m \in abandoned
          \/ \E a \in Appliers : Busy(a) /\ amgr[a] = m

(* What an apply has left to build is not open, what it has left to close is all
   that is open; the manager in use is whole until Shutdown closes it. *)
SocketInv ==
  /\ \A a \in Appliers :
       /\ apc[a] = "build" => /\ aleft[a] \subseteq 1 .. size[amgr[a]]
                              /\ open[amgr[a]] = (1 .. size[amgr[a]]) \ aleft[a]
       /\ apc[a] = "close" => open[amgr[a]] \subseteq aleft[a]
  /\ Engine!CurrentManagerIsWhole

(* A query has failed so often on each upstream before its position, and as often
   on that one as its retry counter says. None is left when Shutdown runs. *)
QueryInv(q) ==
  /\ qpc[q] = "trying" =>
       /\ phase \in {"serving", "draining"} /\ outcome[q] = "none"
       /\ loaded[q] \in 1 .. built /\ pos[q] <= size[loaded[q]]
       /\ attempt[q] < MaxRetries /\ fails[q][pos[q]] = attempt[q]
       /\ \A u \in Positions : u < pos[q] => fails[q][u] = MaxRetries
       /\ \A u \in Positions : u > pos[q] => fails[q][u] = 0
  /\ outcome[q] = "error" =>
       /\ loaded[q] \in 1 .. built
       /\ \A u \in Positions : u <= size[loaded[q]] => fails[q][u] = MaxRetries

EngineInv ==
  /\ Engine!TypeOK /\ OwnerInv /\ SocketInv
  /\ \A q \in Queries : QueryInv(q)
  /\ Engine!PanicOnlyAfterSwap

-----------------------------------------------------------------------------
(* Export and import.                                                        *)

PolicyEntry == [id : PolicyIds, action : Transfer!Actions, on : BOOLEAN]
SourceEntry == [id : SourceIds, url : {"http", ""}, on : BOOLEAN]

TransferInv ==
  /\ policies \in [PolicyIds -> Transfer!PolicyRows \cup {Transfer!NoRow}]
  /\ sources \in [SourceIds -> Transfer!SourceRows \cup {Transfer!NoRow}]
  /\ settings \in BOOLEAN
  /\ part1 \subseteq PolicyEntry /\ part2 \subseteq SourceEntry
  /\ doc # Transfer!NoDoc =>
       \E ps \in SUBSET PolicyEntry, ss \in SUBSET SourceEntry, on1 \in BOOLEAN :
         doc = Transfer!Document(ps, ss, on1)
  (* What was imported is in the tables until it is edited. *)
  /\ applied # Transfer!NoDoc =>
       /\ \A e \in applied.policies :
            /\ e.id \in PolicyIds /\ e = [id |-> e.id, action |-> e.action, on |-> e.on]
            /\ policies[e.id] = [action |-> e.action, on |-> TRUE]
       /\ \A e \in applied.sources :
            /\ e.id \in SourceIds /\ e = [id |-> e.id, url |-> e.url, on |-> e.on]
            /\ sources[e.id] = [url |-> e.url, on |-> e.on]
       /\ settings = applied.on
  (* What an undisturbed export has read is still so. *)
  /\ intact =>
       /\ exporting # "idle" => part1 = Transfer!PolicyEntries
       /\ exporting = "settings" => part2 = Transfer!SourceEntries
       /\ exporting = "idle" =>
            doc = Transfer!Document(Transfer!PolicyEntries, Transfer!SourceEntries, settings)
  /\ exporting \in {"idle", "sources", "settings"}

-----------------------------------------------------------------------------
(* The two monitors.                                                         *)

Snapshots == [size : Nat, at : Nat]
Verdict(s, t) == IF s \in enabled THEN Health!Evaluate(Health!Recent(s), t) ELSE "none"

(* A source nobody wrote since the sweep began has not been looked at, or has the
   verdict of that moment; published verdicts of such sources stand. *)
HealthInv ==
  /\ snaps \in [Monitored -> Seq(Snapshots)] /\ enabled \subseteq Monitored
  /\ sweptAt \in Nat /\ checkedAt \in Nat /\ left \subseteq Monitored
  /\ found = [s \in Monitored |-> found[s]]
  /\ \A s \in left : found[s] = "none"
  /\ ~sweeping => left = {} /\ found = Health!NoneFound
  /\ sweeping => \A s \in Monitored \ moved :
       IF s \in left THEN s \in enabled ELSE found[s] = Verdict(s, sweptAt)
  /\ \A s \in Monitored \ unsure : statuses[s] = Verdict(s, checkedAt)

(* The report is of the last sample and the one before it. *)
DiskSamples == [used : 0 .. Capacity, at : Nat]
DiskInv ==
  /\ used \in 0 .. Capacity /\ samples \in Seq(DiskSamples)
  /\ IF samples = <<>> THEN prev = Disk!NoSample /\ report.reason = ""
     ELSE /\ prev = samples[Len(samples)]
          /\ report = Disk!Evaluate(IF Len(samples) > 1 THEN samples[Len(samples) - 1]
                                    ELSE Disk!NoSample, samples[Len(samples)])

-----------------------------------------------------------------------------
(* What a process starts with.                                               *)

StartInv ==
  /\ file \in StartUp!Files /\ env \in StartUp!Texts
  /\ fileSwitch \in BOOLEAN /\ envSwitch \in StartUp!Words
  /\ StartUp!SettingsAreSound

TokenInv ==
  /\ key \in Token!Tokens /\ keyFile \in Token!Tokens \cup {Token!Unreadable}
  /\ judged # Token!NotJudged =>
       /\ judged.key \in Token!Tokens /\ judged.file \in Token!Tokens \cup {Token!Unreadable}
       /\ judged.at \in Nat
       /\ mode = Token!Mode(Token!Token(judged.key, judged.file), judged.at)

AdminInv ==
  /\ SetupInv /\ PlaneInv /\ EngineInv /\ TransferInv
  /\ clock \in Nat /\ HealthInv /\ DiskInv /\ StartInv /\ TokenInv

-----------------------------------------------------------------------------
(* However setups race and restart, the primary key lets one of them pass. *)
LEMMA SetupStep == SetupInv /\ [Setup!Next]_setupVars => SetupInv'
<1> SUFFICES ASSUME SetupInv, [Setup!Next]_setupVars PROVE SetupInv'
  OBVIOUS
<1> USE DEF SetupInv, Setup!Goto, Setup!Answer
<1>1. ASSUME NEW a \in Admins, Setup!Setup(a) \/ Setup!CreateAdmin(a) PROVE SetupInv'
  BY <1>1 DEF Setup!Setup, Setup!CreateAdmin
<1>2. ASSUME NEW a \in Admins, Setup!InsertAdmin(a) PROVE SetupInv'
  BY <1>2 DEF Setup!InsertAdmin, Setup!Conflicts
<1>3. ASSUME NEW a \in Admins, Setup!FinishSetup(a) PROVE SetupInv'
  BY <1>3 DEF Setup!FinishSetup
<1>4. ASSUME NEW a \in Admins, Setup!SetupErr(a) PROVE SetupInv'
  BY <1>4 DEF Setup!SetupErr
<1>5. ASSUME NEW a \in Admins, Setup!Login(a) PROVE SetupInv'
  BY <1>5 DEF Setup!Login
<1>6. ASSUME NEW a \in Admins, NEW s \in Choices, Setup!CreateSource(a, s) PROVE SetupInv'
  BY <1>6 DEF Setup!CreateSource
<1>7. CASE Setup!Restart
  BY <1>7 DEF Setup!Restart
<1>8. CASE UNCHANGED setupVars
  BY <1>8 DEF setupVars
<1>9. QED
  BY <1>1, <1>2, <1>3, <1>4, <1>5, <1>6, <1>7, <1>8 DEF Setup!Next

(* One row of credentials, and all who were given a token are in it. *)
LEMMA SetupSafe == SetupInv => Setup!SetupHasOneWinner
<1> SUFFICES ASSUME SetupInv PROVE Setup!SetupHasOneWinner
  OBVIOUS
<1>1. \A a \in Admins : answer[a] = "token" => Setup!Authorized(a)
  BY DEF SetupInv, Setup!Authorized, Setup!IsSetup
<1>2. \A c \in created : creds = {c.by}
  BY DEF SetupInv
<1>3. Cardinality({a \in Admins : answer[a] = "token"}) <= 1
  <2>1. PICK w : creds \subseteq {w}
    BY DEF SetupInv
  <2>2. {a \in Admins : answer[a] = "token"} = {}
        \/ {a \in Admins : answer[a] = "token"} = {w}
    BY <2>1 DEF SetupInv
  <2>3. Cardinality({}) = 0 /\ Cardinality({w}) = 1
    BY FS_EmptySet, FS_Singleton
  <2>4. QED
    BY <2>2, <2>3
<1>4. Setup!Cardinality({a \in Admins : answer[a] = "token"})
        = Cardinality({a \in Admins : answer[a] = "token"})
  BY DEF Cardinality, Setup!Cardinality
<1>5. QED
  BY <1>1, <1>2, <1>3, <1>4 DEF Setup!SetupHasOneWinner

-----------------------------------------------------------------------------
(* Every step of a query, an apply or the shutdown preserves the types. *)
LEMMA EngineTypeStep == EngineInv /\ [Engine!Next]_engineVars => Engine!TypeOK'
<1> SUFFICES ASSUME EngineInv, [Engine!Next]_engineVars PROVE Engine!TypeOK'
  OBVIOUS
<1>0. /\ Engine!Managers = 1 .. MaxManagers /\ Engine!Positions = 1 .. MaxUpstreams
      /\ Engine!None = 0 /\ Positions = 1 .. MaxUpstreams
  BY DEF Engine!Managers, Engine!Positions, Engine!None, Positions
<1> USE <1>0, EngineUpstreamAssumption DEF EngineInv, Engine!TypeOK, Engine!queryVars,
    Engine!applyVars, Engine!mgrVars
<1>1. ASSUME NEW q \in Queries, Engine!LoadUpstream(q) PROVE Engine!TypeOK'
  <2>1. loaded' \in [Queries -> 0 .. MaxManagers] /\ pos' \in [Queries -> 1 .. MaxUpstreams]
        /\ attempt' \in [Queries -> 0 .. MaxRetries]
    BY <1>1 DEF Engine!LoadUpstream
  <2>2. fails' \in [Queries -> [1 .. MaxUpstreams -> 0 .. MaxRetries]]
    <3>1. Engine!NoFails \in [1 .. MaxUpstreams -> 0 .. MaxRetries]
      BY DEF Engine!NoFails
    <3>2. QED
      BY <1>1, <3>1 DEF Engine!LoadUpstream
  <2>3. /\ outcome' \in [Queries -> {"none", "answer", "error"}]
        /\ qpc' \in [Queries -> {"idle", "trying"}]
    BY <1>1 DEF Engine!LoadUpstream
  <2>4. UNCHANGED <<current, built, size, caseRand, open, apc, amgr, aleft, abandoned,
                    phase, panicked>>
    BY <1>1 DEF Engine!LoadUpstream
  <2>5. QED
    BY <2>1, <2>2, <2>3, <2>4
<1>2. ASSUME NEW q \in Queries, Engine!ExchangeOK(q) PROVE Engine!TypeOK'
  BY <1>2 DEF Engine!ExchangeOK
<1>3. ASSUME NEW q \in Queries, Engine!ExchangeErr(q) PROVE Engine!TypeOK'
  <2>1. fails' \in [Queries -> [1 .. MaxUpstreams -> 0 .. MaxRetries]]
    BY <1>3 DEF Engine!ExchangeErr
  <2>2. attempt[q] < MaxRetries /\ size[loaded[q]] \in 0 .. MaxUpstreams
    BY <1>3 DEF Engine!ExchangeErr, QueryInv
  <2>3. attempt' \in [Queries -> 0 .. MaxRetries]
    <3>1. \/ attempt' = [attempt EXCEPT ![q] = attempt[q] + 1]
          \/ attempt' = [attempt EXCEPT ![q] = 0] \/ attempt' = attempt
      BY <1>3 DEF Engine!ExchangeErr
    <3>2. attempt[q] + 1 \in 0 .. MaxRetries /\ 0 \in 0 .. MaxRetries
      BY <2>2
    <3>3. QED
      BY <3>1, <3>2
  <2>4. pos' \in [Queries -> 1 .. MaxUpstreams]
    <3>1. \/ pos' = [pos EXCEPT ![q] = pos[q] + 1] /\ pos[q] < size[loaded[q]]
          \/ pos' = pos
      BY <1>3 DEF Engine!ExchangeErr, Engine!HasNext, Engine!NextPos
    <3>2. pos[q] < size[loaded[q]] => pos[q] + 1 \in 1 .. MaxUpstreams
      BY <2>2
    <3>3. QED
      BY <3>1, <3>2
  <2>5. /\ outcome' \in [Queries -> {"none", "answer", "error"}]
        /\ qpc' \in [Queries -> {"idle", "trying"}]
    BY <1>3 DEF Engine!ExchangeErr
  <2>6. QED
    BY <1>3, <2>1, <2>3, <2>4, <2>5 DEF Engine!ExchangeErr
<1>4. ASSUME NEW q \in Queries, Engine!ExchangePanic(q) PROVE Engine!TypeOK'
  BY <1>4 DEF Engine!ExchangePanic
<1>5. ASSUME NEW a \in Appliers, Engine!ApplyBegin(a) PROVE Engine!TypeOK'
  <2>1. built' \in 1 .. MaxManagers /\ current' \in 1 .. built'
    BY <1>5 DEF Engine!ApplyBegin
  <2>2. PICK n \in 0 .. MaxUpstreams :
          size' = [size EXCEPT ![built + 1] = n] /\ aleft' = [aleft EXCEPT ![a] = 1 .. n]
    BY <1>5 DEF Engine!ApplyBegin
  <2>3. 1 .. n \in SUBSET (1 .. MaxUpstreams)
    OBVIOUS
  <2>4. /\ size' \in [1 .. MaxManagers -> 0 .. MaxUpstreams]
        /\ aleft' \in [Appliers -> SUBSET (1 .. MaxUpstreams)]
    BY <2>2, <2>3
  <2>5. caseRand' \in [1 .. MaxManagers -> BOOLEAN]
        /\ amgr' \in [Appliers -> 0 .. MaxManagers]
        /\ apc' \in [Appliers -> {"idle", "build", "close"}]
    BY <1>5 DEF Engine!ApplyBegin
  <2>6. QED
    BY <1>5, <2>1, <2>4, <2>5 DEF Engine!ApplyBegin
<1>6. ASSUME NEW a \in Appliers, Engine!BuildUpstream(a) PROVE Engine!TypeOK'
  <2>1. PICK u \in aleft[a] : /\ open' = [open EXCEPT ![amgr[a]] = @ \cup {u}]
                              /\ aleft' = [aleft EXCEPT ![a] = @ \ {u}]
    BY <1>6 DEF Engine!BuildUpstream
  <2>2. u \in 1 .. MaxUpstreams
    BY <2>1
  <2>3. /\ open' \in [1 .. MaxManagers -> SUBSET (1 .. MaxUpstreams)]
        /\ aleft' \in [Appliers -> SUBSET (1 .. MaxUpstreams)]
    BY <2>1, <2>2
  <2>4. QED
    BY <1>6, <2>3 DEF Engine!BuildUpstream
<1>7. ASSUME NEW a \in Appliers, Engine!BuildErr(a) PROVE Engine!TypeOK'
  <2>1. amgr[a] \in 1 .. MaxManagers
    BY <1>7 DEF Engine!BuildErr, OwnerInv, Busy
  <2>2. abandoned' \subseteq 1 .. MaxManagers
    BY <1>7, <2>1 DEF Engine!BuildErr
  <2>3. apc' \in [Appliers -> {"idle", "build", "close"}]
    BY <1>7 DEF Engine!BuildErr
  <2>4. QED
    BY <1>7, <2>2, <2>3 DEF Engine!BuildErr
<1>8. ASSUME NEW a \in Appliers, Engine!Swap(a) PROVE Engine!TypeOK'
  <2>1. current' \in 1 .. built
    BY <1>8 DEF Engine!Swap, OwnerInv, Busy
  <2>2. size[current] \in 0 .. MaxUpstreams
    OBVIOUS
  <2>3. 1 .. size[current] \in SUBSET (1 .. MaxUpstreams)
    BY <2>2
  <2>4. aleft' \in [Appliers -> SUBSET (1 .. MaxUpstreams)]
    BY <1>8, <2>3 DEF Engine!Swap, Engine!SwappedOut
  <2>5. amgr' \in [Appliers -> 0 .. MaxManagers]
        /\ apc' \in [Appliers -> {"idle", "build", "close"}]
    BY <1>8 DEF Engine!Swap, Engine!SwappedOut
  <2>6. QED
    BY <1>8, <2>1, <2>4, <2>5 DEF Engine!Swap
<1>9. ASSUME NEW a \in Appliers, Engine!CloseUpstream(a) PROVE Engine!TypeOK'
  <2>1. PICK u \in aleft[a] : /\ open' = [open EXCEPT ![amgr[a]] = @ \ ({u} \cap Engine!ClosesUpTo(a))]
                              /\ aleft' = [aleft EXCEPT ![a] = @ \ {u}]
    BY <1>9 DEF Engine!CloseUpstream
  <2>2. /\ open' \in [1 .. MaxManagers -> SUBSET (1 .. MaxUpstreams)]
        /\ aleft' \in [Appliers -> SUBSET (1 .. MaxUpstreams)]
    BY <2>1
  <2>3. QED
    BY <1>9, <2>2 DEF Engine!CloseUpstream
<1>10. ASSUME NEW a \in Appliers, Engine!ApplyReturn(a) PROVE Engine!TypeOK'
  BY <1>10 DEF Engine!ApplyReturn
<1>11. CASE Engine!Drain \/ Engine!Shutdown \/ Engine!Exit
  BY <1>11 DEF Engine!Drain, Engine!Shutdown, Engine!Exit
<1>12. CASE UNCHANGED engineVars
  BY <1>12 DEF engineVars
<1>13. QED
  BY <1>1, <1>2, <1>3, <1>4, <1>5, <1>6, <1>7, <1>8, <1>9, <1>10, <1>11, <1>12
     DEF Engine!Next, Engine!QueryStep, Engine!ApplyStep

(* The types that the steps below use. *)
LEMMA EngineTypes ==
  ASSUME Engine!TypeOK
  PROVE  /\ current \in 1 .. built /\ built \in 1 .. MaxManagers
         /\ Managers = 1 .. MaxManagers /\ Positions = 1 .. MaxUpstreams
         /\ size \in [Managers -> 0 .. MaxUpstreams]
         /\ open \in [Managers -> SUBSET Positions]
         /\ apc \in [Appliers -> {"idle", "build", "close"}]
         /\ amgr \in [Appliers -> 0 .. MaxManagers]
         /\ aleft \in [Appliers -> SUBSET Positions]
         /\ phase \in {"serving", "draining", "closing", "exited"}
         /\ \A m \in 1 .. built : m \in Managers /\ size[m] \in 0 .. MaxUpstreams
  BY EngineUpstreamAssumption DEF Engine!TypeOK, Engine!Managers, Engine!Positions, Managers, Positions

(* The steps that touch no manager: a query, Drain, Exit. *)
Aside == UNCHANGED <<current, built, size, open, apc, amgr, aleft, abandoned>>
         /\ (phase' \in {"serving", "draining"} => phase \in {"serving", "draining"})

LEMMA AsideSteps ==
  ASSUME [Engine!Next]_engineVars
  PROVE  \/ Aside \/ Engine!Shutdown
         \/ \E a \in Appliers : Engine!ApplyBegin(a) \/ Engine!ApplyStep(a)
<1> USE DEF Aside, Engine!queryVars, Engine!applyVars, Engine!mgrVars
<1>1. ASSUME NEW q \in Queries, Engine!LoadUpstream(q) \/ Engine!QueryStep(q) PROVE Aside
  BY <1>1 DEF Engine!LoadUpstream, Engine!QueryStep, Engine!ExchangeOK, Engine!ExchangeErr,
              Engine!ExchangePanic
<1>2. ASSUME Engine!Drain \/ Engine!Exit PROVE Aside
  BY <1>2 DEF Engine!Drain, Engine!Exit
<1>3. ASSUME UNCHANGED engineVars PROVE Aside
  BY <1>3 DEF engineVars
<1>4. QED
  BY <1>1, <1>2, <1>3 DEF Engine!Next

(* Every manager keeps exactly one owner. *)
LEMMA OwnerStep == EngineInv /\ [Engine!Next]_engineVars => OwnerInv'
<1> SUFFICES ASSUME EngineInv, [Engine!Next]_engineVars PROVE OwnerInv'
  OBVIOUS
<1>0. /\ current \in 1 .. built /\ built \in 1 .. MaxManagers
      /\ Managers = 1 .. MaxManagers
      /\ size \in [Managers -> 0 .. MaxUpstreams]
      /\ open \in [Managers -> SUBSET Positions]
      /\ apc \in [Appliers -> {"idle", "build", "close"}]
      /\ amgr \in [Appliers -> 0 .. MaxManagers]
      /\ aleft \in [Appliers -> SUBSET Positions]
      /\ OwnerInv /\ SocketInv
  BY EngineTypes DEF EngineInv
<1> USE <1>0, EngineUpstreamAssumption DEF OwnerInv, Busy, Engine!mgrVars
<1>1. CASE Aside
  BY <1>1 DEF Aside
<1>2. CASE Engine!Shutdown
  BY <1>2 DEF Engine!Shutdown, Engine!applyVars
<1>3. ASSUME NEW a \in Appliers, Engine!ApplyBegin(a) PROVE OwnerInv'
  <2>1. PICK n \in 0 .. MaxUpstreams : size' = [size EXCEPT ![built + 1] = n]
    BY <1>3 DEF Engine!ApplyBegin
  <2>2. /\ built' = built + 1 /\ built + 1 \in Managers /\ built + 1 \notin 1 .. built
        /\ amgr' = [amgr EXCEPT ![a] = built + 1] /\ apc' = [apc EXCEPT ![a] = "build"]
        /\ ~Busy(a) /\ UNCHANGED <<current, open, abandoned>>
    BY <1>3 DEF Engine!ApplyBegin
  <2>3. 1 .. built \subseteq 1 .. built' /\ built + 1 \in 1 .. built'
    BY <2>2
  <2>4. open[built + 1] = {}
    BY <2>2
  <2>5. ASSUME NEW m \in Managers PROVE open'[m] \subseteq 1 .. size'[m]
    BY <2>1, <2>2, <2>4
  <2>6. ASSUME NEW m \in Managers
        PROVE  \/ open'[m] = {} \/ m = current' \/ m \in abandoned'
               \/ \E b \in Appliers : apc'[b] # "idle" /\ amgr'[b] = m
    BY <2>2
  <2>7. current' \notin abandoned' /\ abandoned' \subseteq 1 .. built'
    BY <2>2, <2>3
  <2>8. ASSUME NEW b \in Appliers, apc'[b] # "idle"
        PROVE  amgr'[b] \in 1 .. built' /\ amgr'[b] # current' /\ amgr'[b] \notin abandoned'
    <3>1. CASE b = a
      BY <2>2, <2>3, <3>1
    <3>2. CASE b # a
      BY <2>2, <2>3, <2>8, <3>2
    <3>3. QED
      BY <3>1, <3>2
  <2>9. ASSUME NEW b \in Appliers, NEW c \in Appliers, apc'[b] # "idle", apc'[c] # "idle",
               amgr'[b] = amgr'[c]
        PROVE  b = c
    BY <2>2, <2>9
  <2>10. QED
    BY <2>5, <2>6, <2>7, <2>8, <2>9
<1>4. ASSUME NEW a \in Appliers, Engine!BuildUpstream(a) PROVE OwnerInv'
  <2>1. PICK u \in aleft[a] : open' = [open EXCEPT ![amgr[a]] = @ \cup {u}]
    BY <1>4 DEF Engine!BuildUpstream
  <2>2. /\ Busy(a) /\ amgr[a] \in Managers
        /\ UNCHANGED <<current, built, size, apc, amgr, abandoned>>
    BY <1>4 DEF Engine!BuildUpstream
  <2>3. ASSUME NEW m \in Managers PROVE open'[m] \subseteq 1 .. size'[m]
    <3>1. u \in 1 .. size[amgr[a]]
      BY <1>4, <2>1 DEF Engine!BuildUpstream, SocketInv
    <3>2. QED
      BY <2>1, <2>2, <3>1
  <2>4. QED
    BY <2>1, <2>2, <2>3
<1>5. ASSUME NEW a \in Appliers, Engine!BuildErr(a) PROVE OwnerInv'
  <2>1. /\ Busy(a) /\ amgr[a] \in 1 .. built /\ amgr[a] # current
        /\ abandoned' = abandoned \cup {amgr[a]} /\ apc' = [apc EXCEPT ![a] = "idle"]
        /\ UNCHANGED <<current, built, size, open, amgr>>
    BY <1>5 DEF Engine!BuildErr
  <2>2. QED
    BY <2>1
<1>6. ASSUME NEW a \in Appliers, Engine!Swap(a) PROVE OwnerInv'
  <2>1. /\ Busy(a) /\ current' = amgr[a] /\ amgr' = [amgr EXCEPT ![a] = current]
        /\ apc' = [apc EXCEPT ![a] = "close"] /\ UNCHANGED <<built, size, open, abandoned>>
    BY <1>6 DEF Engine!Swap, Engine!SwappedOut
  <2>2. /\ amgr[a] \in 1 .. built /\ amgr[a] # current /\ amgr[a] \notin abandoned
        /\ \A b \in Appliers : b # a /\ Busy(b) => amgr[b] # amgr[a]
    BY <2>1
  <2>3. ASSUME NEW b \in Appliers, apc'[b] # "idle"
        PROVE  amgr'[b] \in 1 .. built' /\ amgr'[b] # current' /\ amgr'[b] \notin abandoned'
    <3>1. CASE b = a
      BY <2>1, <2>2, <3>1
    <3>2. CASE b # a
      BY <2>1, <2>2, <2>3, <3>2
    <3>3. QED
      BY <3>1, <3>2
  <2>4. ASSUME NEW b \in Appliers, NEW c \in Appliers, apc'[b] # "idle", apc'[c] # "idle",
               amgr'[b] = amgr'[c]
        PROVE  b = c
    BY <2>1, <2>4
  <2>5. ASSUME NEW m \in Managers
        PROVE  \/ open'[m] = {} \/ m = current' \/ m \in abandoned'
               \/ \E b \in Appliers : apc'[b] # "idle" /\ amgr'[b] = m
    <3>1. CASE m = current
      BY <2>1, <3>1
    <3>2. ASSUME NEW b \in Appliers, b # a, Busy(b), amgr[b] = m
          PROVE  apc'[b] # "idle" /\ amgr'[b] = m
      BY <2>1, <3>2
    <3>3. QED
      BY <2>1, <3>1, <3>2
  <2>6. QED
    BY <2>1, <2>2, <2>3, <2>4, <2>5
<1>7. ASSUME NEW a \in Appliers, Engine!CloseUpstream(a) PROVE OwnerInv'
  <2>1. PICK u : open' = [open EXCEPT ![amgr[a]] = @ \ ({u} \cap Engine!ClosesUpTo(a))]
    BY <1>7 DEF Engine!CloseUpstream
  <2>2. /\ Busy(a) /\ UNCHANGED <<current, built, size, apc, amgr, abandoned>>
        /\ \A m \in Managers : open'[m] \subseteq open[m]
    BY <1>7, <2>1 DEF Engine!CloseUpstream
  <2>3. QED
    BY <2>2
<1>8. ASSUME NEW a \in Appliers, Engine!ApplyReturn(a) PROVE OwnerInv'
  <2>1. /\ apc' = [apc EXCEPT ![a] = "idle"] /\ open[amgr[a]] = {}
        /\ UNCHANGED <<current, built, size, open, amgr, abandoned>>
    BY <1>8 DEF Engine!ApplyReturn, SocketInv
  <2>2. QED
    BY <2>1
<1>9. QED
  BY <1>1, <1>2, <1>3, <1>4, <1>5, <1>6, <1>7, <1>8, AsideSteps DEF Engine!ApplyStep

(* No apply opens or closes a socket of the manager in use. *)
LEMMA SocketStep == EngineInv /\ [Engine!Next]_engineVars => SocketInv'
<1> SUFFICES ASSUME EngineInv, [Engine!Next]_engineVars PROVE SocketInv'
  OBVIOUS
<1>0. /\ current \in 1 .. built /\ built \in 1 .. MaxManagers
      /\ Managers = 1 .. MaxManagers /\ Positions = 1 .. MaxUpstreams
      /\ size \in [Managers -> 0 .. MaxUpstreams]
      /\ open \in [Managers -> SUBSET Positions]
      /\ apc \in [Appliers -> {"idle", "build", "close"}]
      /\ amgr \in [Appliers -> 0 .. MaxManagers]
      /\ aleft \in [Appliers -> SUBSET Positions]
      /\ OwnerInv /\ SocketInv
  BY EngineTypes DEF EngineInv
<1> USE <1>0, EngineUpstreamAssumption
    DEF SocketInv, Engine!CurrentManagerIsWhole, Engine!mgrVars
<1>1. CASE Aside
  BY <1>1 DEF Aside
<1>2. CASE Engine!Shutdown
  BY <1>2 DEF Engine!Shutdown, Engine!applyVars, OwnerInv, Busy
<1>3. ASSUME NEW a \in Appliers, Engine!ApplyBegin(a) PROVE SocketInv'
  <2>1. PICK n \in 0 .. MaxUpstreams :
          size' = [size EXCEPT ![built + 1] = n] /\ aleft' = [aleft EXCEPT ![a] = 1 .. n]
    BY <1>3 DEF Engine!ApplyBegin
  <2>2. /\ built + 1 \in Managers /\ built + 1 \notin 1 .. built
        /\ amgr' = [amgr EXCEPT ![a] = built + 1] /\ apc' = [apc EXCEPT ![a] = "build"]
        /\ apc[a] = "idle" /\ UNCHANGED <<current, open, phase>>
    BY <1>3 DEF Engine!ApplyBegin
  <2>3. open[built + 1] = {}
    BY <2>2 DEF OwnerInv, Busy
  <2>4. size'[built + 1] = n /\ \A m \in 1 .. built : size'[m] = size[m]
    BY <2>1, <2>2
  <2>5. ASSUME NEW b \in Appliers
        PROVE  /\ apc'[b] = "build" => /\ aleft'[b] \subseteq 1 .. size'[amgr'[b]]
                                       /\ open'[amgr'[b]] = (1 .. size'[amgr'[b]]) \ aleft'[b]
               /\ apc'[b] = "close" => open'[amgr'[b]] \subseteq aleft'[b]
    <3>1. CASE b = a
      BY <2>1, <2>2, <2>3, <2>4, <3>1
    <3>2. CASE b # a
      <4>1. /\ apc'[b] = apc[b] /\ amgr'[b] = amgr[b] /\ aleft'[b] = aleft[b]
            /\ apc[b] # "idle" => amgr[b] \in 1 .. built
        BY <2>1, <2>2, <3>2 DEF OwnerInv, Busy
      <4>2. QED
        BY <2>2, <2>4, <4>1
    <3>3. QED
      BY <3>1, <3>2
  <2>6. QED
    BY <2>2, <2>4, <2>5
<1>4. ASSUME NEW a \in Appliers, Engine!BuildUpstream(a) PROVE SocketInv'
  <2>1. PICK u \in aleft[a] : /\ open' = [open EXCEPT ![amgr[a]] = @ \cup {u}]
                              /\ aleft' = [aleft EXCEPT ![a] = @ \ {u}]
    BY <1>4 DEF Engine!BuildUpstream
  <2>2. /\ apc[a] = "build" /\ amgr[a] \in Managers /\ amgr[a] # current
        /\ UNCHANGED <<current, built, size, apc, amgr, phase>>
    BY <1>4 DEF Engine!BuildUpstream, OwnerInv, Busy
  <2>3. \A b \in Appliers : b # a /\ apc[b] # "idle" => amgr[b] # amgr[a]
    BY <2>2 DEF OwnerInv, Busy
  <2>4. ASSUME NEW b \in Appliers
        PROVE  /\ apc'[b] = "build" => /\ aleft'[b] \subseteq 1 .. size'[amgr'[b]]
                                       /\ open'[amgr'[b]] = (1 .. size'[amgr'[b]]) \ aleft'[b]
               /\ apc'[b] = "close" => open'[amgr'[b]] \subseteq aleft'[b]
    <3>1. CASE b = a
      BY <2>1, <2>2, <3>1
    <3>2. CASE b # a
      BY <2>1, <2>2, <2>3, <3>2
    <3>3. QED
      BY <3>1, <3>2
  <2>5. QED
    BY <2>1, <2>2, <2>4
<1>5. ASSUME NEW a \in Appliers, Engine!BuildErr(a) PROVE SocketInv'
  BY <1>5 DEF Engine!BuildErr
<1>6. ASSUME NEW a \in Appliers, Engine!Swap(a) PROVE SocketInv'
  <2>1. /\ apc[a] = "build" /\ aleft[a] = {} /\ amgr[a] \in Managers
        /\ current' = amgr[a] /\ amgr' = [amgr EXCEPT ![a] = current]
        /\ aleft' = [aleft EXCEPT ![a] = 1 .. size[current]]
        /\ apc' = [apc EXCEPT ![a] = "close"] /\ UNCHANGED <<size, open>>
    BY <1>6 DEF Engine!Swap, Engine!SwappedOut, Engine!BuildDone, OwnerInv, Busy
  <2>2. open[current] \subseteq 1 .. size[current]
    BY DEF OwnerInv
  <2>3. ASSUME NEW b \in Appliers
        PROVE  /\ apc'[b] = "build" => /\ aleft'[b] \subseteq 1 .. size'[amgr'[b]]
                                       /\ open'[amgr'[b]] = (1 .. size'[amgr'[b]]) \ aleft'[b]
               /\ apc'[b] = "close" => open'[amgr'[b]] \subseteq aleft'[b]
    <3>1. CASE b = a
      BY <2>1, <2>2, <3>1
    <3>2. CASE b # a
      BY <2>1, <3>2
    <3>3. QED
      BY <3>1, <3>2
  <2>4. QED
    BY <2>1, <2>3
<1>7. ASSUME NEW a \in Appliers, Engine!CloseUpstream(a) PROVE SocketInv'
  <2>1. PICK u \in aleft[a] : /\ open' = [open EXCEPT ![amgr[a]] = @ \ ({u} \cap Engine!ClosesUpTo(a))]
                              /\ aleft' = [aleft EXCEPT ![a] = @ \ {u}]
    BY <1>7 DEF Engine!CloseUpstream
  <2>2. {u} \cap Engine!ClosesUpTo(a) = {u}
    BY DEF Engine!ClosesUpTo, Engine!Positions
  <2>3. /\ apc[a] = "close" /\ amgr[a] \in Managers /\ amgr[a] # current
        /\ UNCHANGED <<current, built, size, apc, amgr, phase>>
    BY <1>7 DEF Engine!CloseUpstream, OwnerInv, Busy
  <2>4. \A b \in Appliers : b # a /\ apc[b] # "idle" => amgr[b] # amgr[a]
    BY <2>3 DEF OwnerInv, Busy
  <2>5. ASSUME NEW b \in Appliers
        PROVE  /\ apc'[b] = "build" => /\ aleft'[b] \subseteq 1 .. size'[amgr'[b]]
                                       /\ open'[amgr'[b]] = (1 .. size'[amgr'[b]]) \ aleft'[b]
               /\ apc'[b] = "close" => open'[amgr'[b]] \subseteq aleft'[b]
    <3>1. CASE b = a
      BY <2>1, <2>2, <2>3, <3>1
    <3>2. CASE b # a
      BY <2>1, <2>3, <2>4, <3>2
    <3>3. QED
      BY <3>1, <3>2
  <2>6. QED
    BY <2>1, <2>3, <2>5
<1>8. ASSUME NEW a \in Appliers, Engine!ApplyReturn(a) PROVE SocketInv'
  BY <1>8 DEF Engine!ApplyReturn
<1>9. QED
  BY <1>1, <1>2, <1>3, <1>4, <1>5, <1>6, <1>7, <1>8, AsideSteps DEF Engine!ApplyStep

(* A query that a step leaves alone: its own state, the length of the list it
   works on, and the shutdown has not come. *)
LEMMA QueryUntouched ==
  ASSUME EngineInv, NEW q \in Queries,
         qpc'[q] = qpc[q] /\ loaded'[q] = loaded[q] /\ pos'[q] = pos[q]
         /\ attempt'[q] = attempt[q] /\ fails'[q] = fails[q] /\ outcome'[q] = outcome[q],
         1 .. built \subseteq 1 .. built', \A m \in 1 .. built : size'[m] = size[m],
         phase' = phase \/ phase' = "draining" \/ qpc[q] = "idle"
  PROVE  QueryInv(q)'
<1>1. QueryInv(q) /\ qpc \in [Queries -> {"idle", "trying"}]
  BY DEF EngineInv, Engine!TypeOK
<1>2. QED
  BY <1>1 DEF QueryInv

(* Exchange tries the upstreams of the manager it loaded in order. *)
LEMMA QueryStepInv ==
  ASSUME EngineInv, [Engine!Next]_engineVars, NEW q \in Queries
  PROVE  QueryInv(q)'
<1>0. /\ current \in 1 .. built /\ built \in 1 .. MaxManagers
      /\ Managers = 1 .. MaxManagers /\ Positions = 1 .. MaxUpstreams
      /\ size \in [Managers -> 0 .. MaxUpstreams]
      /\ qpc \in [Queries -> {"idle", "trying"}] /\ loaded \in [Queries -> 0 .. MaxManagers]
      /\ pos \in [Queries -> Positions] /\ attempt \in [Queries -> 0 .. MaxRetries]
      /\ fails \in [Queries -> [Positions -> 0 .. MaxRetries]]
      /\ outcome \in [Queries -> {"none", "answer", "error"}]
      /\ QueryInv(q) /\ \A m \in 1 .. built : m \in Managers /\ size[m] \in 0 .. MaxUpstreams
  <2>1. Engine!TypeOK /\ QueryInv(q)
    BY DEF EngineInv
  <2>2. QED
    BY <2>1, EngineTypes DEF Engine!TypeOK, Engine!Positions, Positions
<1> USE DEF Engine!queryVars, Engine!applyVars, Engine!mgrVars
<1>1. ASSUME NEW x \in Queries, Engine!LoadUpstream(x) PROVE QueryInv(q)'
  <2>1. CASE x # q
    BY <1>0, EngineUpstreamAssumption, <1>1, <2>1, QueryUntouched DEF Engine!LoadUpstream
  <2>2. CASE x = q
    <3>1. /\ phase = "serving" /\ loaded'[q] = current /\ pos'[q] = 1 /\ attempt'[q] = 0
          /\ fails'[q] = Engine!NoFails /\ UNCHANGED <<built, size, phase>>
          /\ IF size[current] = 0 THEN outcome'[q] = "error" /\ qpc'[q] = "idle"
             ELSE outcome'[q] = "none" /\ qpc'[q] = "trying"
      BY <1>0, EngineUpstreamAssumption, <1>1, <2>2 DEF Engine!LoadUpstream
    <3>2. \A u \in Positions : fails'[q][u] = 0
      BY <1>0, EngineUpstreamAssumption, <3>1 DEF Engine!NoFails, Engine!Positions
    <3>3. CASE size[current] = 0
      BY <1>0, EngineUpstreamAssumption, <3>1, <3>3 DEF QueryInv
    <3>4. CASE size[current] # 0
      <4>1. size[current] \in 1 .. MaxUpstreams /\ 1 \in Positions
        BY <1>0, EngineUpstreamAssumption, <3>4
      <4>2. fails'[q][1] = 0
        BY <1>0, EngineUpstreamAssumption, <3>2, <4>1
      <4>3. 1 <= size[current] /\ 0 < MaxRetries /\ \A u \in Positions : ~(u < 1)
        BY <1>0, <4>1, EngineUpstreamAssumption
      <4>4. QED
        BY <1>0, <3>1, <3>2, <3>4, <4>2, <4>3 DEF QueryInv
    <3>5. QED
      BY <1>0, EngineUpstreamAssumption, <3>3, <3>4
  <2>3. QED
    BY <1>0, EngineUpstreamAssumption, <2>1, <2>2
<1>2. ASSUME NEW x \in Queries, Engine!ExchangeOK(x) PROVE QueryInv(q)'
  <2>1. CASE x # q
    BY <1>0, EngineUpstreamAssumption, <1>2, <2>1, QueryUntouched DEF Engine!ExchangeOK
  <2>2. CASE x = q
    BY <1>0, EngineUpstreamAssumption, <1>2, <2>2 DEF Engine!ExchangeOK, QueryInv
  <2>3. QED
    BY <1>0, EngineUpstreamAssumption, <2>1, <2>2
<1>3. ASSUME NEW x \in Queries, Engine!ExchangeErr(x) PROVE QueryInv(q)'
  <2>1. CASE x # q
    BY <1>0, <1>3, <2>1, QueryUntouched DEF Engine!ExchangeErr
  <2>2. CASE x = q
    <3>1. /\ qpc[q] = "trying" /\ UNCHANGED <<loaded, built, size, phase>>
          /\ fails' = [fails EXCEPT ![q][pos[q]] = IF @ < MaxRetries THEN @ + 1 ELSE @]
      BY <1>3, <2>2 DEF Engine!ExchangeErr
    <3>2. /\ phase \in {"serving", "draining"} /\ outcome[q] = "none"
          /\ loaded[q] \in 1 .. built /\ pos[q] <= size[loaded[q]]
          /\ attempt[q] < MaxRetries /\ fails[q][pos[q]] = attempt[q]
          /\ \A u \in Positions : u < pos[q] => fails[q][u] = MaxRetries
          /\ \A u \in Positions : u > pos[q] => fails[q][u] = 0
      BY <1>0, <3>1 DEF QueryInv
    <3>3. /\ fails'[q][pos[q]] = attempt[q] + 1
          /\ \A u \in Positions : u # pos[q] => fails'[q][u] = fails[q][u]
      BY <1>0, <3>1, <3>2
    <3>4. /\ pos[q] \in Positions /\ pos[q] \in Nat /\ size[loaded[q]] \in 0 .. MaxUpstreams
          /\ attempt[q] \in Nat /\ MaxRetries \in Nat /\ \A u \in Positions : u \in Nat
      <4>1. Positions = 1 .. MaxUpstreams /\ MaxRetries \in Nat
        BY <1>0, EngineUpstreamAssumption
      <4>2. pos[q] \in Positions /\ attempt[q] \in 0 .. MaxRetries
            /\ size[loaded[q]] \in 0 .. MaxUpstreams
        BY <1>0, <3>2
      <4>3. QED
        BY <4>1, <4>2
    <3>5. CASE ~(attempt[q] + 1 >= MaxRetries)
      <4>1. /\ attempt'[q] = attempt[q] + 1 /\ pos'[q] = pos[q]
            /\ qpc'[q] = qpc[q] /\ outcome'[q] = outcome[q]
        BY <1>0, <1>3, <2>2, <3>5 DEF Engine!ExchangeErr, Engine!Exhausted
      <4>2. /\ \A u \in Positions : u < pos[q] => fails'[q][u] = MaxRetries
            /\ \A u \in Positions : u > pos[q] => fails'[q][u] = 0
        BY <3>2, <3>3, <3>4
      <4>3. QED
        BY <3>1, <3>2, <3>3, <3>4, <3>5, <4>1, <4>2 DEF QueryInv
    <3>6. CASE attempt[q] + 1 >= MaxRetries /\ pos[q] < size[loaded[q]]
      <4>1. /\ attempt'[q] = 0 /\ pos'[q] = pos[q] + 1
            /\ qpc'[q] = qpc[q] /\ outcome'[q] = outcome[q]
        BY <1>0, <1>3, <2>2, <3>6 DEF Engine!ExchangeErr, Engine!Exhausted, Engine!HasNext,
           Engine!NextPos
      <4>2. fails'[q][pos[q]] = MaxRetries
        BY <3>2, <3>3, <3>4, <3>6
      <4>3. \A u \in Positions : u < pos[q] + 1 => fails'[q][u] = MaxRetries
        BY <3>2, <3>3, <3>4, <4>2
      <4>4. \A u \in Positions : u >= pos[q] + 1 => fails'[q][u] = 0
        BY <3>2, <3>3, <3>4
      <4>5. pos[q] + 1 \in Positions /\ pos[q] + 1 <= size[loaded[q]] /\ 0 < MaxRetries
        <5>1. Positions = 1 .. MaxUpstreams /\ MaxUpstreams \in Nat /\ MaxRetries \in Nat \ {0}
          BY <1>0, EngineUpstreamAssumption
        <5>2. QED
          BY <3>4, <3>6, <5>1
      <4>6. fails'[q][pos[q] + 1] = 0
        BY <3>4, <4>4, <4>5
      <4>7. \A u \in Positions : u > pos[q] + 1 => fails'[q][u] = 0
        BY <3>4, <4>4
      <4>8. QED
        BY <3>1, <3>2, <4>1, <4>3, <4>5, <4>6, <4>7 DEF QueryInv
    <3>7. CASE attempt[q] + 1 >= MaxRetries /\ ~(pos[q] < size[loaded[q]])
      <4>1. qpc'[q] = "idle" /\ outcome'[q] = "error"
        BY <1>0, <1>3, <2>2, <3>7 DEF Engine!ExchangeErr, Engine!Exhausted, Engine!HasNext
      <4>2. pos[q] = size[loaded[q]]
        BY <3>2, <3>4, <3>7
      <4>3. fails'[q][pos[q]] = MaxRetries
        BY <3>2, <3>3, <3>4, <3>7
      <4>4. \A u \in Positions : u <= size[loaded[q]] => fails'[q][u] = MaxRetries
        BY <3>2, <3>3, <3>4, <4>2, <4>3
      <4>5. QED
        BY <3>1, <3>2, <4>1, <4>4 DEF QueryInv
    <3>8. QED
      BY <3>5, <3>6, <3>7
  <2>3. QED
    BY <2>1, <2>2
<1>4. ASSUME NEW x \in Queries, Engine!ExchangePanic(x) PROVE QueryInv(q)'
  BY <1>0, EngineUpstreamAssumption, <1>4, QueryUntouched DEF Engine!ExchangePanic
<1>5. ASSUME NEW a \in Appliers, Engine!ApplyBegin(a) PROVE QueryInv(q)'
  <2>1. PICK n \in 0 .. MaxUpstreams : size' = [size EXCEPT ![built + 1] = n]
    BY <1>0, EngineUpstreamAssumption, <1>5 DEF Engine!ApplyBegin
  <2>2. built' = built + 1 /\ UNCHANGED <<qpc, loaded, pos, attempt, fails, outcome, phase>>
    BY <1>0, EngineUpstreamAssumption, <1>5 DEF Engine!ApplyBegin
  <2>3. 1 .. built \subseteq 1 .. built' /\ \A m \in 1 .. built : size'[m] = size[m]
    BY <1>0, EngineUpstreamAssumption, <2>1, <2>2
  <2>4. QED
    BY <1>0, EngineUpstreamAssumption, <2>2, <2>3, QueryUntouched
<1>6. ASSUME NEW a \in Appliers, Engine!ApplyStep(a) PROVE QueryInv(q)'
  <2>1. UNCHANGED <<qpc, loaded, pos, attempt, fails, outcome, phase, built, size>>
    BY <1>0, EngineUpstreamAssumption, <1>6 DEF Engine!ApplyStep, Engine!BuildUpstream, Engine!BuildErr, Engine!Swap,
       Engine!CloseUpstream, Engine!ApplyReturn
  <2>2. QED
    BY <1>0, EngineUpstreamAssumption, <2>1, QueryUntouched
<1>7. CASE Engine!Drain
  BY <1>0, EngineUpstreamAssumption, <1>7, QueryUntouched DEF Engine!Drain
<1>8. CASE Engine!Shutdown
  BY <1>0, EngineUpstreamAssumption, <1>8, QueryUntouched DEF Engine!Shutdown, Engine!HandlersDone
<1>9. CASE Engine!Exit
  <2>1. qpc[q] = "idle"
    BY <1>0, EngineUpstreamAssumption, <1>9 DEF Engine!Exit, QueryInv
  <2>2. QED
    BY <1>0, EngineUpstreamAssumption, <1>9, <2>1, QueryUntouched DEF Engine!Exit
<1>10. CASE UNCHANGED engineVars
  BY <1>0, EngineUpstreamAssumption, <1>10, QueryUntouched DEF engineVars
<1>11. QED
  BY <1>1, <1>2, <1>3, <1>4, <1>5, <1>6, <1>7, <1>8, <1>9, <1>10
     DEF Engine!Next, Engine!QueryStep

(* A query that works on the manager in use finds it whole; and after a panic
   nothing moves. *)
LEMMA PanicStep == EngineInv /\ [Engine!Next]_engineVars => Engine!PanicOnlyAfterSwap'
<1> SUFFICES ASSUME EngineInv, [Engine!Next]_engineVars PROVE Engine!PanicOnlyAfterSwap'
  OBVIOUS
<1> USE DEF Engine!PanicOnlyAfterSwap, Engine!Alive, Engine!queryVars, Engine!applyVars,
    Engine!mgrVars
<1>1. ASSUME NEW q \in Queries, Engine!ExchangePanic(q) PROVE Engine!PanicOnlyAfterSwap'
  <2>1. /\ qpc[q] = "trying" /\ pos[q] \notin open[loaded[q]]
        /\ panicked' = loaded[q] /\ current' = current
    BY <1>1 DEF Engine!ExchangePanic, Engine!Usable
  <2>2. phase \in {"serving", "draining"} /\ pos[q] <= size[loaded[q]]
    BY <2>1 DEF EngineInv, QueryInv
  <2>3. open[current] = 1 .. size[current]
    BY <2>2 DEF EngineInv, SocketInv, Engine!CurrentManagerIsWhole
  <2>4. pos[q] \in 1 .. MaxUpstreams
    BY DEF EngineInv, Engine!TypeOK, Engine!Positions
  <2>5. size[current] \in 0 .. MaxUpstreams
    <3>1. Engine!TypeOK
      BY DEF EngineInv
    <3>2. QED
      BY <3>1, EngineTypes
  <2>6. loaded[q] # current
    BY <2>1, <2>2, <2>3, <2>4, <2>5
  <2>7. QED
    BY <2>1, <2>6
<1>2. CASE UNCHANGED panicked /\ (Engine!Alive \/ UNCHANGED current)
  BY <1>2 DEF EngineInv
<1>3. ASSUME NEW q \in Queries, Engine!LoadUpstream(q) \/ Engine!ExchangeOK(q) \/ Engine!ExchangeErr(q)
      PROVE  Engine!PanicOnlyAfterSwap'
  BY <1>2, <1>3 DEF Engine!LoadUpstream, Engine!ExchangeOK, Engine!ExchangeErr
<1>4. ASSUME NEW a \in Appliers, Engine!ApplyBegin(a) \/ Engine!ApplyStep(a)
      PROVE  Engine!PanicOnlyAfterSwap'
  BY <1>2, <1>4 DEF Engine!ApplyBegin, Engine!ApplyStep, Engine!BuildUpstream,
     Engine!BuildErr, Engine!Swap, Engine!CloseUpstream, Engine!ApplyReturn
<1>5. CASE Engine!Drain \/ Engine!Shutdown \/ Engine!Exit \/ UNCHANGED engineVars
  BY <1>2, <1>5 DEF Engine!Drain, Engine!Shutdown, Engine!Exit, engineVars
<1>6. QED
  BY <1>1, <1>3, <1>4, <1>5 DEF Engine!Next, Engine!QueryStep

LEMMA EngineStep == EngineInv /\ [Engine!Next]_engineVars => EngineInv'
  BY EngineTypeStep, OwnerStep, SocketStep, QueryStepInv, PanicStep DEF EngineInv

(* What the invariant says of the engine once the owners are gone. *)
LEMMA EngineSafe == EngineInv => Engine!ManagersAccountedFor /\ Engine!OutcomeIsJustified
<1> SUFFICES ASSUME EngineInv
             PROVE  Engine!ManagersAccountedFor /\ Engine!OutcomeIsJustified
  OBVIOUS
<1>1. Engine!ManagersAccountedFor
  BY DEF EngineInv, OwnerInv, SocketInv, Busy, Engine!ManagersAccountedFor,
     Engine!ReplacedManagersAreClosed, Engine!Managers, Managers
<1>2. ASSUME NEW q \in Queries
      PROVE  /\ qpc[q] = "trying" => \A u \in 1 .. pos[q] - 1 : fails[q][u] = MaxRetries
             /\ outcome[q] = "error" =>
                  \A u \in 1 .. size[loaded[q]] : fails[q][u] = MaxRetries
  <2>1. QueryInv(q) /\ pos[q] \in 1 .. MaxUpstreams /\ Positions = 1 .. MaxUpstreams
    BY DEF EngineInv, Engine!TypeOK, Engine!Positions, Positions
  <2>2. outcome[q] = "error" => size[loaded[q]] \in 0 .. MaxUpstreams
    <3>1. Engine!TypeOK
      BY DEF EngineInv
    <3>2. QED
      BY <2>1, <3>1, EngineTypes DEF QueryInv
  <2>3. QED
    BY <2>1, <2>2, EngineUpstreamAssumption DEF QueryInv
<1>3. Engine!OutcomeIsJustified
  BY <1>2 DEF EngineInv, Engine!OutcomeIsJustified, Engine!FailsOverInOrder
<1>4. QED
  BY <1>1, <1>3

-----------------------------------------------------------------------------
(* Every step of a handler, a process or the network preserves the types. *)
LEMMA PlaneTypeStep == TypeOK /\ PushInv /\ [Next]_vars => TypeOK'
<1> SUFFICES ASSUME TypeOK, PushInv, [Next]_vars PROVE TypeOK'
  OBVIOUS
<1>0. value = [r \in Actors |-> value[r]] /\ Requests \subseteq Actors /\ Boot \in Actors
  BY DEF PushInv, Actors
<1> USE PlaneSyncAssumption, <1>0
    DEF TypeOK, dbVars, callVars, reqVars, dpVars, Lists
<1>1. ASSUME NEW r \in Requests, PersistSwitch(r) PROVE TypeOK'
  <2>1. PICK e \in BOOLEAN : dbEnabled' = e /\ value' = [value EXCEPT ![r] = e]
    BY <1>1 DEF PersistSwitch
  <2>2. kind' = [kind EXCEPT ![r] = "switch"]
    BY <1>1 DEF PersistSwitch
  <2>3. \A x \in Actors : value'[x] \in IF kind'[x] = "switch" THEN BOOLEAN ELSE Lists
    BY <2>1, <2>2
  <2>4. QED
    BY <1>1, <2>1, <2>2, <2>3 DEF PersistSwitch
<1>2. ASSUME NEW r \in Requests, ChangeResolvers(r) PROVE TypeOK'
  <2>1. kind' = [kind EXCEPT ![r] = "list"] /\ value' = [value EXCEPT ![r] = dbList]
    BY <1>2 DEF ChangeResolvers
  <2>2. \A x \in Actors : value'[x] \in IF kind'[x] = "switch" THEN BOOLEAN ELSE Lists
    BY <2>1
  <2>3. writes + 1 \in Lists
    BY <1>2 DEF ChangeResolvers
  <2>4. QED
    BY <1>2, <2>1, <2>2, <2>3 DEF ChangeResolvers, NewList, AfterWrite
<1>3. ASSUME NEW r \in Actors, ReadAddresses(r) PROVE TypeOK'
  <2>1. kind' = [kind EXCEPT ![r] = "list"] /\ value' = [value EXCEPT ![r] = dbList]
    BY <1>3 DEF ReadAddresses
  <2>2. \A x \in Actors : value'[x] \in IF kind'[x] = "switch" THEN BOOLEAN ELSE Lists
    BY <2>1
  <2>3. QED
    BY <1>3, <2>1, <2>2 DEF ReadAddresses
<1>4. ASSUME NEW r \in Actors, Send(r) PROVE TypeOK'
  <2>1. sent' = sent + 1 /\ sent + 1 \in Nat /\ 0 .. sent \subseteq 0 .. (sent + 1)
        /\ 1 .. sent \subseteq 1 .. (sent + 1) /\ sent + 1 \in 1 .. (sent + 1)
        /\ sent + 1 \in 0 .. (sent + 1)
    BY <1>4 DEF Send
  <2>2. waitsFor' \in [Actors -> 0 .. sent']
    BY <1>4, <2>1 DEF Send
  <2>3. ASSUME NEW c \in calls'
        PROVE  c.n \in 1 .. sent' /\ c.value \in IF c.kind = "switch" THEN BOOLEAN ELSE Lists
    <3>1. CASE c \in calls
      BY <2>1, <3>1
    <3>2. CASE c = [n |-> sent + 1, kind |-> kind[r], value |-> value[r]]
      <4>1. c.n = sent + 1 /\ c.kind = kind[r] /\ c.value = value[r]
        BY <3>2
      <4>2. QED
        BY <2>1, <4>1
    <3>3. QED
      BY <1>4, <3>1, <3>2 DEF Send
  <2>4. QED
    BY <1>4, <2>1, <2>2, <2>3 DEF Send
<1>5. ASSUME NEW r \in Actors, ReturnOK(r) \/ ReturnErr(r) PROVE TypeOK'
  BY <1>5 DEF ReturnOK, ReturnErr, AfterCall
<1>a. ASSUME NEW r \in Actors, NoPush(r) PROVE TypeOK'
  BY <1>a DEF NoPush
<1>b. CASE SeedDefaults \/ SeedErr
  <2>0. 0 \in Lists /\ Seeded \in Lists
    BY DEF Seeded
  <2>1. /\ dbList' \in Lists /\ noRows' \in BOOLEAN /\ calm' \in BOOLEAN
        /\ pc' = [pc EXCEPT ![Boot] = "read"]
    <3>1. CASE SeedDefaults
      BY <2>0, <3>1 DEF SeedDefaults
    <3>2. CASE SeedErr
      BY <3>2 DEF SeedErr
    <3>3. QED
      BY <1>b, <3>1, <3>2
  <2>2. UNCHANGED <<dbEnabled, writes, cp, kind, value, wrote, result, callVars, dpVars, crashes>>
    BY <1>b DEF SeedDefaults, SeedErr
  <2>3. QED
    BY <2>1, <2>2
<1>6. ASSUME NEW c \in calls, Apply(c) PROVE TypeOK'
  <2>1. pc' \in [Actors -> {"idle", "seed", "read", "send", "wait", "replied"}]
    BY <1>6 DEF Apply, Replied
  <2>2. accept' \in BOOLEAN /\ running' \in Lists
    BY <1>6 DEF Apply
  <2>3. QED
    BY <1>6, <2>1, <2>2 DEF Apply
<1>7. ASSUME NEW c \in calls, Lose(c) PROVE TypeOK'
  BY <1>7 DEF Lose
<1>8. CASE DataplaneCrash \/ DataplaneBoot \/ ServersUp
  <2>1. crashes' \in 0 .. MaxCrashes /\ running' \in Lists
    BY <1>8 DEF DataplaneCrash, DataplaneBoot, ServersUp
  <2>2. accept' \in BOOLEAN /\ calm' \in BOOLEAN /\ dp' \in {"down", "booting", "serving"}
    BY <1>8 DEF DataplaneCrash, DataplaneBoot, ServersUp
  <2>3. UNCHANGED <<dbVars, cp, reqVars, callVars>>
    BY <1>8 DEF DataplaneCrash, DataplaneBoot, ServersUp
  <2>4. QED
    BY <2>1, <2>2, <2>3
<1>9. CASE ControlplaneCrash
  <2>1. crashes' \in 0 .. MaxCrashes
    BY <1>9 DEF ControlplaneCrash
  <2>2. /\ pc' \in [Actors -> {"idle", "seed", "read", "send", "wait", "replied"}]
        /\ cp' = "down" /\ calm' \in BOOLEAN
    BY <1>9 DEF ControlplaneCrash
  <2>3. /\ wrote' \in [Actors -> Lists] /\ result' \in [Actors -> {"none", "ok", "error"}]
        /\ UNCHANGED <<dbVars, kind, value, callVars, dpVars>>
    BY <1>9 DEF ControlplaneCrash
  <2>4. QED
    BY <2>1, <2>2, <2>3
<1>10. CASE ControlplaneBoot
  <2>1. /\ kind' = [kind EXCEPT ![Boot] = "switch"]
        /\ value' = [value EXCEPT ![Boot] = dbEnabled]
    BY <1>10 DEF ControlplaneBoot, BootPushes
  <2>2. \A x \in Actors : value'[x] \in IF kind'[x] = "switch" THEN BOOLEAN ELSE Lists
    BY <2>1
  <2>3. QED
    BY <1>10, <2>1, <2>2 DEF ControlplaneBoot
<1>11. CASE UNCHANGED vars
  BY <1>11 DEF vars
<1>12. QED
  BY <1>1, <1>2, <1>3, <1>4, <1>5, <1>6, <1>7, <1>8, <1>9, <1>10, <1>11, <1>a, <1>b
     DEF Next, RequestStep, ToggleDnsEngine, ImportConfig

(* A resolver handler that reads the list again after its write reads one that
   has its change. *)
LEMMA PushStep == TypeOK /\ PushInv /\ [Next]_vars => PushInv'
<1> SUFFICES ASSUME TypeOK, PushInv, [Next]_vars PROVE PushInv'
  OBVIOUS
<1>0. /\ value = [r \in Actors |-> value[r]] /\ Requests \subseteq Actors /\ Boot \in Actors
      /\ Boot \notin Requests
      /\ pc \in [Actors -> {"idle", "seed", "read", "send", "wait", "replied"}]
      /\ kind \in [Actors -> {"switch", "list"}] /\ wrote \in [Actors -> Lists]
      /\ result \in [Actors -> {"none", "ok", "error"}]
      /\ dbList \in Nat /\ writes \in Nat
  BY PlaneSyncAssumption DEF TypeOK, PushInv, Actors, Lists
<1>n. \A r \in Requests : wrote[r] \in Nat
  BY PlaneSyncAssumption DEF TypeOK, Actors, Lists
<1> USE <1>0, <1>n DEF PushInv, Pushing, dbVars, callVars, reqVars, dpVars
<1>1. ASSUME NEW r \in Requests, PersistSwitch(r) PROVE PushInv'
  <2>1. PICK e \in BOOLEAN : dbEnabled' = e /\ value' = [value EXCEPT ![r] = e]
    BY <1>1 DEF PersistSwitch
  <2>2. /\ cp = "up" /\ kind' = [kind EXCEPT ![r] = "switch"]
        /\ result' = [result EXCEPT ![r] = "none"] /\ pc' = [pc EXCEPT ![r] = "send"]
        /\ writes' = writes + 1 /\ UNCHANGED <<dbList, cp, wrote>>
    BY <1>1 DEF PersistSwitch
  <2>3. value' = [x \in Actors |-> value'[x]]
    BY <2>1
  <2>4. (cp' = "booting" <=> pc'[Boot] # "idle") /\ dbList' <= writes'
    BY <2>2
  <2>5. ASSUME NEW x \in Requests
        PROVE  /\ pc'[x] # "idle" => cp' = "up"
               /\ pc'[x] = "read" => kind'[x] = "list" /\ result'[x] = "none"
               /\ wrote'[x] <= dbList' /\ (cp' # "up" => wrote'[x] = 0)
               /\ kind'[x] = "list" /\ (Pushing(x)' \/ result'[x] = "ok") => value'[x] >= wrote'[x]
    <3>1. CASE x = r
      BY <2>2, <3>1
    <3>2. CASE x # r
      <4>1. /\ pc'[x] = pc[x] /\ kind'[x] = kind[x] /\ result'[x] = result[x]
            /\ value'[x] = value[x] /\ wrote'[x] = wrote[x]
        BY <2>1, <2>2, <3>2
      <4>2. QED
        BY <2>2, <4>1
    <3>3. QED
      BY <3>1, <3>2
  <2>6. QED
    BY <2>3, <2>4, <2>5
<1>2. ASSUME NEW r \in Requests, ChangeResolvers(r) PROVE PushInv'
  <2>1. /\ cp = "up" /\ kind' = [kind EXCEPT ![r] = "list"]
        /\ value' = [value EXCEPT ![r] = dbList] /\ wrote' = [wrote EXCEPT ![r] = writes + 1]
        /\ result' = [result EXCEPT ![r] = "none"] /\ pc' = [pc EXCEPT ![r] = "read"]
        /\ dbList' = writes + 1 /\ writes' = writes + 1 /\ UNCHANGED cp
    BY <1>2 DEF ChangeResolvers, NewList, AfterWrite
  <2>2. value' = [x \in Actors |-> value'[x]]
    BY <2>1
  <2>3. (cp' = "booting" <=> pc'[Boot] # "idle") /\ dbList' <= writes'
    BY <2>1
  <2>4. ASSUME NEW x \in Requests
        PROVE  /\ pc'[x] # "idle" => cp' = "up"
               /\ pc'[x] = "read" => kind'[x] = "list" /\ result'[x] = "none"
               /\ wrote'[x] <= dbList' /\ (cp' # "up" => wrote'[x] = 0)
               /\ kind'[x] = "list" /\ (Pushing(x)' \/ result'[x] = "ok") => value'[x] >= wrote'[x]
    <3>1. CASE x = r
      BY <2>1, <3>1
    <3>2. CASE x # r
      <4>1. /\ pc'[x] = pc[x] /\ kind'[x] = kind[x] /\ result'[x] = result[x]
            /\ value'[x] = value[x] /\ wrote'[x] = wrote[x]
        BY <2>1, <3>2
      <4>2. wrote'[x] <= dbList'
        <5>1. /\ wrote[x] <= dbList /\ dbList <= writes /\ wrote[x] \in Nat
              /\ wrote'[x] = wrote[x] /\ dbList' = writes + 1
          BY <2>1, <4>1
        <5>2. QED
          BY <5>1
      <4>3. kind'[x] = "list" /\ (Pushing(x)' \/ result'[x] = "ok") => value'[x] >= wrote'[x]
        BY <4>1
      <4>4. QED
        BY <2>1, <4>1, <4>2, <4>3
    <3>3. QED
      BY <3>1, <3>2
  <2>5. QED
    BY <2>2, <2>3, <2>4
<1>3. ASSUME NEW r \in Actors, ReadAddresses(r) PROVE PushInv'
  <2>1. /\ kind' = [kind EXCEPT ![r] = "list"] /\ value' = [value EXCEPT ![r] = dbList]
        /\ pc[r] = "read" /\ pc' = [pc EXCEPT ![r] = "send"]
        /\ UNCHANGED <<dbList, writes, cp, wrote, result>>
    BY <1>3 DEF ReadAddresses
  <2>2. value' = [x \in Actors |-> value'[x]]
    BY <2>1
  <2>3. (cp' = "booting" <=> pc'[Boot] # "idle") /\ dbList' <= writes'
    BY <2>1
  <2>4. ASSUME NEW x \in Requests
        PROVE  /\ pc'[x] # "idle" => cp' = "up"
               /\ pc'[x] = "read" => kind'[x] = "list" /\ result'[x] = "none"
               /\ wrote'[x] <= dbList' /\ (cp' # "up" => wrote'[x] = 0)
               /\ kind'[x] = "list" /\ (Pushing(x)' \/ result'[x] = "ok") => value'[x] >= wrote'[x]
    <3>1. CASE x = r
      BY <2>1, <3>1
    <3>2. CASE x # r
      BY <2>1, <3>2
    <3>3. QED
      BY <3>1, <3>2
  <2>5. QED
    BY <2>2, <2>3, <2>4
<1>4. ASSUME NEW r \in Actors, Send(r) PROVE PushInv'
  BY <1>4 DEF Send
<1>5. ASSUME NEW r \in Actors, NEW res \in {"ok", "error"}, AfterCall(r, res),
             pc[r] \in {"wait", "replied"}, UNCHANGED <<dbList, writes, kind, value, wrote>>
      PROVE  PushInv'
  <2>1. /\ result' = [result EXCEPT ![r] = res]
        /\ pc' = [pc EXCEPT ![r] = IF r = Boot /\ kind[r] = "switch" THEN "seed" ELSE "idle"]
        /\ cp' = IF r = Boot /\ kind[r] = "list" THEN "up" ELSE cp
    BY <1>5 DEF AfterCall
  <2>2. cp' = "booting" <=> pc'[Boot] # "idle"
    BY <1>5, <2>1
  <2>3. ASSUME NEW x \in Requests
        PROVE  /\ pc'[x] # "idle" => cp' = "up"
               /\ pc'[x] = "read" => kind'[x] = "list" /\ result'[x] = "none"
               /\ cp' # "up" => wrote'[x] = 0
               /\ kind'[x] = "list" /\ (Pushing(x)' \/ result'[x] = "ok") => value'[x] >= wrote'[x]
    <3>1. CASE x = r
      BY <1>5, <2>1, <3>1
    <3>2. CASE x # r
      BY <1>5, <2>1, <3>2
    <3>3. QED
      BY <3>1, <3>2
  <2>4. QED
    BY <1>5, <2>2, <2>3
<1>6. ASSUME NEW r \in Actors, ReturnOK(r) \/ ReturnErr(r) PROVE PushInv'
  BY <1>5, <1>6 DEF ReturnOK, ReturnErr, GivesUp
<1>a. ASSUME NEW r \in Actors, NoPush(r) PROVE PushInv'
  <2>1. /\ pc[r] = "read" /\ pc' = [pc EXCEPT ![r] = "idle"]
        /\ result' = [result EXCEPT ![r] = "error"] /\ cp' = IF r = Boot THEN "up" ELSE cp
        /\ UNCHANGED <<dbList, writes, kind, value, wrote>>
    BY <1>a DEF NoPush
  <2>2. cp' = "booting" <=> pc'[Boot] # "idle"
    BY <2>1
  <2>3. ASSUME NEW x \in Requests
        PROVE  /\ pc'[x] # "idle" => cp' = "up"
               /\ pc'[x] = "read" => kind'[x] = "list" /\ result'[x] = "none"
               /\ cp' # "up" => wrote'[x] = 0
               /\ kind'[x] = "list" /\ (Pushing(x)' \/ result'[x] = "ok") => value'[x] >= wrote'[x]
    <3>1. CASE x = r
      BY <2>1, <3>1
    <3>2. CASE x # r
      BY <2>1, <3>2
    <3>3. QED
      BY <3>1, <3>2
  <2>4. QED
    BY <2>1, <2>2, <2>3
<1>b. CASE SeedDefaults \/ SeedErr
  <2>1. /\ pc[Boot] = "seed" /\ pc' = [pc EXCEPT ![Boot] = "read"]
        /\ dbList' \in {0, dbList} /\ UNCHANGED <<writes, cp, kind, value, wrote, result>>
    BY <1>b DEF SeedDefaults, SeedErr, Seeded
  <2>2. cp = "booting" /\ pc'[Boot] # "idle" /\ dbList' <= writes
    BY <2>1
  <2>3. ASSUME NEW x \in Requests
        PROVE  pc'[x] = pc[x] /\ wrote[x] <= dbList'
    BY <2>1, <2>2
  <2>4. QED
    BY <2>1, <2>2, <2>3
<1>7. ASSUME NEW c \in calls, Apply(c) PROVE PushInv'
  <2>1. /\ pc' = Replied(c) /\ UNCHANGED <<dbList, writes, cp, kind, value, wrote, result>>
    BY <1>7 DEF Apply
  <2>2. \A x \in Actors : pc'[x] = pc[x] \/ (pc[x] = "wait" /\ pc'[x] = "replied")
    BY <2>1 DEF Replied
  <2>3. QED
    BY <2>1, <2>2
<1>8. ASSUME NEW c \in calls, Lose(c) PROVE PushInv'
  BY <1>8 DEF Lose
<1>9. CASE DataplaneCrash \/ DataplaneBoot \/ ServersUp
  BY <1>9 DEF DataplaneCrash, DataplaneBoot, ServersUp
<1>10. CASE ControlplaneCrash
  BY <1>10 DEF ControlplaneCrash
<1>11. CASE ControlplaneBoot
  <2>1. /\ cp = "down" /\ cp' = "booting" /\ kind' = [kind EXCEPT ![Boot] = "switch"]
        /\ value' = [value EXCEPT ![Boot] = dbEnabled] /\ pc' = [pc EXCEPT ![Boot] = "send"]
        /\ UNCHANGED <<dbList, writes, wrote, result>>
    BY <1>11 DEF ControlplaneBoot, BootPushes
  <2>2. value' = [x \in Actors |-> value'[x]] /\ pc'[Boot] = "send"
    BY <2>1
  <2>3. ASSUME NEW x \in Requests
        PROVE  /\ pc'[x] = pc[x] /\ pc[x] = "idle" /\ kind'[x] = kind[x] /\ value'[x] = value[x]
    BY <2>1
  <2>4. QED
    BY <2>1, <2>2, <2>3
<1>12. CASE UNCHANGED vars
  BY <1>12 DEF vars
<1>13. QED
  BY <1>1, <1>2, <1>3, <1>4, <1>6, <1>7, <1>8, <1>9, <1>10, <1>11, <1>12, <1>a, <1>b
     DEF Next, RequestStep, ToggleDnsEngine, ImportConfig

(* One request at a time, each of whose calls is answered, leaves the dataplane
   with what is stored; so does an undisturbed start of the control plane. *)
LEMMA SyncStep == PlaneInv /\ [Next]_vars => SyncInv'
<1> SUFFICES ASSUME PlaneInv, [Next]_vars, calm' PROVE SyncInv'
  BY DEF SyncInv
<1>0. /\ value = [r \in Actors |-> value[r]] /\ Requests \subseteq Actors /\ Boot \in Actors
      /\ Boot \notin Requests
      /\ pc \in [Actors -> {"idle", "seed", "read", "send", "wait", "replied"}]
      /\ kind \in [Actors -> {"switch", "list"}] /\ waitsFor = [r \in Actors |-> waitsFor[r]]
      /\ cp = "booting" <=> pc[Boot] # "idle"
      /\ \A r \in Requests : (pc[r] # "idle" => cp = "up") /\ (pc[r] = "read" => kind[r] = "list")
      /\ SyncInv
  BY PlaneSyncAssumption DEF PlaneInv, TypeOK, PushInv, Actors
<1> USE <1>0 DEF SyncInv, Pushing, AllIdle, dbVars, callVars, reqVars, dpVars
<1>1. ASSUME NEW r \in Requests, PersistSwitch(r) PROVE SyncInv'
  <2>1. PICK e \in BOOLEAN : dbEnabled' = e /\ value' = [value EXCEPT ![r] = e]
    BY <1>1 DEF PersistSwitch
  <2>2. /\ cp = "up" /\ calm /\ AllIdle /\ kind' = [kind EXCEPT ![r] = "switch"]
        /\ pc' = [pc EXCEPT ![r] = "send"] /\ UNCHANGED <<dbList, dp, accept, running, calls>>
    BY <1>1 DEF PersistSwitch
  <2>3. running = dbList /\ dp = "serving" /\ calls = {}
    BY <2>2
  <2>4. /\ pc'[r] = "send" /\ kind'[r] = "switch" /\ value'[r] = dbEnabled'
        /\ \A x \in Actors \ {r} : pc'[x] = "idle"
    BY <2>1, <2>2
  <2>5. QED
    BY <2>2, <2>3, <2>4
<1>2. ASSUME NEW r \in Requests, ChangeResolvers(r) PROVE SyncInv'
  <2>1. /\ cp = "up" /\ calm /\ AllIdle /\ pc' = [pc EXCEPT ![r] = "read"]
        /\ UNCHANGED <<dbEnabled, dp, accept, calls>>
    BY <1>2 DEF ChangeResolvers, AfterWrite
  <2>2. accept = dbEnabled /\ dp = "serving" /\ calls = {}
    BY <2>1
  <2>3. pc'[r] = "read" /\ \A x \in Actors \ {r} : pc'[x] = "idle"
    BY <2>1
  <2>4. QED
    BY <2>1, <2>2, <2>3
<1>3. ASSUME NEW r \in Actors, ReadAddresses(r) PROVE SyncInv'
  <2>1. /\ kind' = [kind EXCEPT ![r] = "list"] /\ value' = [value EXCEPT ![r] = dbList]
        /\ pc[r] = "read" /\ pc' = [pc EXCEPT ![r] = "send"] /\ calm
        /\ UNCHANGED <<dbEnabled, dbList, dp, accept, running, calls>>
    BY <1>3 DEF ReadAddresses
  <2>2. /\ pc'[r] = "send" /\ kind'[r] = "list" /\ value'[r] = dbList
        /\ \A x \in Actors \ {r} : pc[x] = "idle" /\ pc'[x] = "idle"
    BY <2>1
  <2>3. calls = {} /\ accept = dbEnabled /\ dp = "serving"
    BY <2>1, <2>2
  <2>4. QED
    BY <2>1, <2>2, <2>3
<1>4. ASSUME NEW r \in Actors, Send(r) PROVE SyncInv'
  <2>1. /\ pc[r] = "send" /\ pc' = [pc EXCEPT ![r] = "wait"] /\ calm
        /\ calls' = calls \cup {[n |-> sent + 1, kind |-> kind[r], value |-> value[r]]}
        /\ waitsFor' = [waitsFor EXCEPT ![r] = sent + 1]
        /\ UNCHANGED <<dbEnabled, dbList, dp, accept, running, kind, value>>
    BY <1>4 DEF Send
  <2>2. pc'[r] = "wait" /\ \A x \in Actors \ {r} : pc[x] = "idle" /\ pc'[x] = "idle"
    BY <2>1
  <2>3. calls = {}
    BY <2>1, <2>2
  <2>4. calls' = {Call(r)'}
    BY <2>1, <2>3 DEF Call
  <2>5. QED
    BY <2>1, <2>2, <2>4
<1>5. ASSUME NEW r \in Actors, ReturnOK(r) PROVE SyncInv'
  <2>1. /\ pc[r] = "replied" /\ calm
        /\ pc' = [pc EXCEPT ![r] = IF r = Boot /\ kind[r] = "switch" THEN "seed" ELSE "idle"]
        /\ cp' = IF r = Boot /\ kind[r] = "list" THEN "up" ELSE cp
        /\ UNCHANGED <<dbEnabled, dbList, dp, accept, running, calls>>
    BY <1>5 DEF ReturnOK, AfterCall
  <2>2. \A x \in Actors \ {r} : pc[x] = "idle" /\ pc'[x] = "idle"
    BY <2>1
  <2>3. calls = {} /\ dp = "serving"
    BY <2>1, <2>2
  <2>4. CASE kind[r] = "list"
    BY <2>1, <2>2, <2>3, <2>4
  <2>5. CASE kind[r] = "switch" /\ r = Boot
    BY <2>1, <2>2, <2>3, <2>5
  <2>6. CASE kind[r] = "switch" /\ r # Boot
    BY <2>1, <2>2, <2>3, <2>6
  <2>7. QED
    BY <2>4, <2>5, <2>6
<1>6. ASSUME NEW c \in calls, Apply(c) PROVE SyncInv'
  <2>1. /\ calm /\ calls' = calls \ {c} /\ pc' = Replied(c)
        /\ IF c.kind = "switch" THEN accept' = c.value /\ UNCHANGED running
           ELSE running' = c.value /\ UNCHANGED accept
        /\ UNCHANGED <<dbEnabled, dbList, cp, kind, value, dp>>
    BY <1>6 DEF Apply
  <2>2. PICK r \in Actors : pc[r] = "wait" /\ calls = {Call(r)}
    BY <2>1
  <2>3. /\ c.n = waitsFor[r] /\ c.kind = kind[r] /\ c.value = value[r] /\ calls' = {}
    BY <2>1, <2>2 DEF Call
  <2>4. pc'[r] = "replied" /\ \A x \in Actors \ {r} : pc[x] = "idle" /\ pc'[x] = "idle"
    BY <2>1, <2>2, <2>3 DEF Replied
  <2>5. CASE kind[r] = "switch"
    BY <2>1, <2>2, <2>3, <2>4, <2>5
  <2>6. CASE kind[r] = "list"
    BY <2>1, <2>2, <2>3, <2>4, <2>6
  <2>7. QED
    BY <2>5, <2>6
<1>7. CASE DataplaneBoot
  BY <1>7 DEF DataplaneBoot
<1>8. CASE ControlplaneBoot
  <2>1. /\ cp = "down" /\ cp' = "booting" /\ kind' = [kind EXCEPT ![Boot] = "switch"]
        /\ value' = [value EXCEPT ![Boot] = dbEnabled] /\ pc' = [pc EXCEPT ![Boot] = "send"]
        /\ dp = "serving" /\ calls = {} /\ UNCHANGED <<dbEnabled, dbList, dp, calls>>
    BY <1>8 DEF ControlplaneBoot, BootPushes
  <2>2. /\ pc'[Boot] = "send" /\ kind'[Boot] = "switch" /\ value'[Boot] = dbEnabled
        /\ \A x \in Actors \ {Boot} : pc'[x] = "idle"
    BY <2>1 DEF Actors
  <2>3. QED
    BY <2>1, <2>2
<1>9. CASE UNCHANGED vars
  BY <1>9 DEF vars, Call
<1>10. ASSUME NEW r \in Actors, ReturnErr(r) PROVE FALSE
  BY <1>10 DEF ReturnErr
<1>11. ASSUME NEW c \in calls, Lose(c) PROVE FALSE
  BY <1>11 DEF Lose
<1>a. ASSUME NEW r \in Actors, NoPush(r) PROVE FALSE
  BY <1>a DEF NoPush
<1>b. CASE SeedDefaults
  <2>1. /\ pc[Boot] = "seed" /\ pc' = [pc EXCEPT ![Boot] = "read"] /\ calm
        /\ UNCHANGED <<dbEnabled, cp, dp, accept, running, calls>>
    BY <1>b DEF SeedDefaults
  <2>2. pc'[Boot] = "read" /\ \A x \in Actors \ {Boot} : pc[x] = "idle" /\ pc'[x] = "idle"
    BY <2>1
  <2>3. calls = {} /\ accept = dbEnabled /\ dp = "serving"
    BY <2>1, <2>2
  <2>4. QED
    BY <2>1, <2>2, <2>3
<1>12. ~(DataplaneCrash \/ ServersUp \/ ControlplaneCrash \/ SeedErr)
  BY DEF DataplaneCrash, ServersUp, ControlplaneCrash, SeedErr
<1>13. QED
  BY <1>1, <1>2, <1>3, <1>4, <1>5, <1>6, <1>7, <1>8, <1>9, <1>10, <1>11, <1>12, <1>a, <1>b
     DEF Next, RequestStep, ToggleDnsEngine, ImportConfig

LEMMA PlaneStep == PlaneInv /\ [Next]_vars => PlaneInv'
  BY PlaneTypeStep, PushStep, SyncStep DEF PlaneInv

LEMMA PlaneSafe == PlaneInv => PushesFollowStore
  BY DEF PlaneInv, PushInv, SyncInv, PushesFollowStore, InSyncWhenCalm, OwnChangeIsPushed

-----------------------------------------------------------------------------
(* A verdict on a token follows from the token and the time. *)
LEMMA TokenStep == clock \in Nat /\ TokenInv /\ [Token!Next]_tokenVars => TokenInv'
<1> SUFFICES ASSUME clock \in Nat, TokenInv, [Token!Next]_tokenVars PROVE TokenInv'
  OBVIOUS
<1> USE DEF TokenInv
<1>1. CASE Token!Pass
  BY <1>1 DEF Token!Pass
<1>2. CASE Token!InitFromEnv
  <2>1. /\ judged'.key = key /\ judged'.file = keyFile /\ judged'.at = clock
        /\ mode' = Token!Mode(Token!Token(key, keyFile), clock)
        /\ UNCHANGED <<key, keyFile>>
    BY <1>2 DEF Token!InitFromEnv
  <2>2. QED
    BY <2>1
<1>3. CASE Token!Renew
  BY <1>3 DEF Token!Renew
<1>4. CASE UNCHANGED tokenVars
  BY <1>4 DEF tokenVars
<1>5. QED
  BY <1>1, <1>2, <1>3, <1>4 DEF Token!Next

LEMMA TokenSafe == TokenInv => Token!LicenceIsRight
<1> SUFFICES ASSUME TokenInv, judged # Token!NotJudged PROVE Token!LicenceIsRight
  BY DEF Token!LicenceIsRight
<1>1. PICK k \in Token!Tokens : judged.key = k
  BY DEF TokenInv
<1>2. PICK f \in Token!Tokens \cup {Token!Unreadable} : judged.file = f
  BY DEF TokenInv
<1>3. PICK at \in Nat : judged.at = at
  BY DEF TokenInv
<1>4. mode = Token!Mode(Token!Token(k, f), at)
  BY <1>1, <1>2, <1>3 DEF TokenInv
<1>5. ASSUME NEW t \in Token!Tokens \cup {Token!Unreadable}
      PROVE  /\ t.kind = "good" /\ at < t.expiry + Grace => Token!Mode(t, at) # "community"
             /\ t.kind # "good" \/ at > t.expiry + Grace => Token!Mode(t, at) = "community"
  <2>1. CASE t.kind = "good"
    <3>1. t.expiry \in Nat
      <4>1. CASE t \in [kind : {"good"}, expiry : Expiries]
        BY <4>1, AdministrationAssumption
      <4>2. CASE t = [kind |-> "none", expiry |-> 0] \/ t = [kind |-> "bad", expiry |-> 0]
                 \/ t = Token!Unreadable
        BY <2>1, <4>2 DEF Token!Unreadable
      <4>3. QED
        BY <4>1, <4>2 DEF Token!Tokens
    <3>2. QED
      BY <2>1, <3>1, AdministrationAssumption DEF Token!Mode, Token!Evaluate
  <2>2. CASE t.kind # "good"
    BY <2>2 DEF Token!Mode
  <2>3. QED
    BY <2>1, <2>2
<1>6. QED
  BY <1>1, <1>2, <1>3, <1>4, <1>5 DEF Token!LicenceIsRight, Token!Token

-----------------------------------------------------------------------------
(* The hours of the texts that parse, and what each loop makes of a text. *)
Loadable == {"", "bad", "off", "-1", "0", "1", "6"}

LEMMA HoursOf ==
  /\ StartUp!Hours("-1") = -1 /\ StartUp!Hours("0") = 0
  /\ StartUp!Hours("1") = 1 /\ StartUp!Hours("6") = 6
  BY DEF StartUp!Hours

LEMMA PeriodOf ==
  ASSUME NEW v \in Loadable
  PROVE  /\ StartUp!UpdatePeriod(v) \in {-1, 1, 6}
         /\ StartUp!UpdatePeriod(v) = -1 => v = "-1"
         /\ StartUp!HealthPeriod(v) \in {0, 1, 6}
         /\ StartUp!HealthPeriod(v) = 0 => v \in {"off", "0", "-1"}
         /\ StartUp!WatchdogPeriod(v) \in {0, 1, 6}
         /\ StartUp!DefaultedPeriod(v, 1) \in {1, 6}
         /\ StartUp!DefaultedPeriod(v, 6) \in {1, 6}
         /\ v = "1" => /\ StartUp!UpdatePeriod(v) = 1 /\ StartUp!HealthPeriod(v) = 1
                       /\ StartUp!WatchdogPeriod(v) = 1
                       /\ StartUp!DefaultedPeriod(v, 1) = 1
                       /\ StartUp!DefaultedPeriod(v, 6) = 1
<1> USE HoursOf DEF StartUp!Parses, StartUp!Off, StartUp!UpdatePeriod, StartUp!HealthPeriod,
    StartUp!WatchdogPeriod, StartUp!DefaultedPeriod
<1>1. CASE v = ""
  <2>1. StartUp!HealthPeriod(v) = 1
    BY <1>1, Zenon
  <2> HIDE DEF StartUp!HealthPeriod
  <2>2. ~StartUp!Parses(v) /\ v # "1"
    BY <1>1
  <2>3. /\ StartUp!UpdatePeriod(v) = 6 /\ StartUp!WatchdogPeriod(v) = 0
        /\ StartUp!DefaultedPeriod(v, 1) = 1 /\ StartUp!DefaultedPeriod(v, 6) = 6
    BY <2>2
  <2> HIDE DEF StartUp!UpdatePeriod, StartUp!WatchdogPeriod, StartUp!DefaultedPeriod
  <2>4. /\ StartUp!UpdatePeriod(v) \in {-1, 1, 6}
        /\ StartUp!UpdatePeriod(v) = -1 => v = "-1"
    BY <2>3
  <2>5. /\ StartUp!HealthPeriod(v) \in {0, 1, 6}
        /\ StartUp!HealthPeriod(v) = 0 => v \in {"off", "0", "-1"}
    BY <2>1
  <2>6. /\ StartUp!WatchdogPeriod(v) \in {0, 1, 6}
        /\ StartUp!DefaultedPeriod(v, 1) \in {1, 6} /\ StartUp!DefaultedPeriod(v, 6) \in {1, 6}
    BY <2>3
  <2>7. QED
    BY <2>2, <2>4, <2>5, <2>6
<1>2. CASE v = "bad"
  BY <1>2
<1>3. CASE v = "off"
  BY <1>3
<1>4. CASE v = "-1"
  BY <1>4
<1>5. CASE v = "0"
  BY <1>5
<1>6. CASE v = "1"
  BY <1>6
<1>7. CASE v = "6"
  BY <1>7
<1>8. QED
  BY <1>1, <1>2, <1>3, <1>4, <1>5, <1>6, <1>7 DEF Loadable

(* The defaults. *)
LEMMA Defaults ==
  /\ StartUp!Default("update") = "6" /\ StartUp!Default("health") = "1"
  /\ StartUp!Default("watchdog") = "1" /\ StartUp!Default("heartbeat") = ""
  /\ StartUp!Default("nrd") = "6"
  BY DEF StartUp!Default

(* The text a loop is given is the one that was asked for, or the default where
   there is no usable file and no variable. *)
LEMMA ResolvedText ==
  ASSUME StartInv, NEW k \in StartUp!Keys
  PROVE  /\ StartUp!Resolved(k) \in Loadable
         /\ \/ StartUp!Asked(k) = StartUp!Resolved(k)
            \/ /\ StartUp!Asked(k) = "" /\ StartUp!Resolved(k) = StartUp!Default(k)
               /\ file.state # "read"
<1>1. env[k] \in StartUp!Values
  BY DEF StartInv, StartUp!Texts
<1>2. \/ file.state = "read" /\ file.keys[k] \in StartUp!Values
      \/ file.state \in {"missing", "broken"} /\ file.keys[k] = ""
  BY DEF StartInv, StartUp!Files
<1>3. StartUp!Default(k) \in Loadable
  BY Defaults DEF StartUp!Keys, Loadable
<1>4. QED
  BY <1>1, <1>2, <1>3
     DEF StartUp!Resolved, StartUp!Asked, StartUp!LoadConfig, StartUp!Values, Loadable

(* What Start computes is sound, and a process starts once. *)
LEMMA StartStep == StartInv /\ [StartUp!Next]_startVars => StartInv'
<1> SUFFICES ASSUME StartInv, [StartUp!Next]_startVars PROVE StartInv'
  OBVIOUS
<1>1. CASE StartUp!Start
  <2>1. /\ period' = StartUp!Periods /\ on' = {k \in StartUp!Switches : StartUp!IsOn(k)}
        /\ process' = IF \E k \in StartUp!Keys : StartUp!Periods[k] < 0 THEN "panicked" ELSE "up"
        /\ UNCHANGED <<file, env, fileSwitch, envSwitch>>
    BY <1>1 DEF StartUp!Start
  <2>2. \A k \in StartUp!Keys : StartUp!Asked(k)' = StartUp!Asked(k)
    BY <2>1 DEF StartUp!Asked
  <2>3. /\ StartUp!Periods["update"] = StartUp!UpdatePeriod(StartUp!Resolved("update"))
        /\ StartUp!Periods["health"] = StartUp!HealthPeriod(StartUp!Resolved("health"))
        /\ StartUp!Periods["watchdog"] = StartUp!WatchdogPeriod(StartUp!Resolved("watchdog"))
        /\ StartUp!Periods["heartbeat"] = StartUp!DefaultedPeriod(StartUp!Resolved("heartbeat"), 1)
        /\ StartUp!Periods["nrd"] = StartUp!DefaultedPeriod(StartUp!Resolved("nrd"), 6)
    BY DEF StartUp!Periods
  <2>4. /\ StartUp!Periods["update"] \in {-1, 1, 6}
        /\ StartUp!Periods["update"] = -1 => StartUp!Resolved("update") = "-1"
        /\ StartUp!Resolved("update") = "1" => StartUp!Periods["update"] = 1
    BY <2>3, ResolvedText, PeriodOf DEF StartUp!Keys
  <2>5. /\ StartUp!Periods["health"] \in {0, 1, 6}
        /\ StartUp!Periods["health"] = 0 => StartUp!Resolved("health") \in {"off", "0", "-1"}
        /\ StartUp!Resolved("health") = "1" => StartUp!Periods["health"] = 1
    BY <2>3, ResolvedText, PeriodOf DEF StartUp!Keys
  <2>6. /\ StartUp!Periods["watchdog"] \in {0, 1, 6}
        /\ StartUp!Resolved("watchdog") = "1" => StartUp!Periods["watchdog"] = 1
    BY <2>3, ResolvedText, PeriodOf DEF StartUp!Keys
  <2>7. /\ StartUp!Periods["heartbeat"] \in {1, 6}
        /\ StartUp!Resolved("heartbeat") = "1" => StartUp!Periods["heartbeat"] = 1
    BY <2>3, ResolvedText, PeriodOf DEF StartUp!Keys
  <2>8. /\ StartUp!Periods["nrd"] \in {1, 6}
        /\ StartUp!Resolved("nrd") = "1" => StartUp!Periods["nrd"] = 1
    BY <2>3, ResolvedText, PeriodOf DEF StartUp!Keys
  <2>9. \A k \in StartUp!Keys : StartUp!Asked(k) = "1" => StartUp!Resolved(k) = "1"
    BY ResolvedText
  <2>10. process' = "panicked" => StartUp!Asked("update")' = "-1"
    <3>1. process' = "panicked" => StartUp!Periods["update"] = -1
      BY <2>1, <2>4, <2>5, <2>6, <2>7, <2>8 DEF StartUp!Keys
    <3>2. StartUp!Resolved("update") = "-1" => StartUp!Asked("update") = "-1"
      BY ResolvedText, Defaults DEF StartUp!Keys
    <3>3. QED
      BY <2>2, <2>4, <3>1, <3>2 DEF StartUp!Keys
  <2>11. \A k \in StartUp!Keys : StartUp!Asked(k)' = "1" /\ ~StartUp!InCustody(k)' => period'[k] = 1
    BY <2>1, <2>2, <2>4, <2>5, <2>6, <2>7, <2>8, <2>9 DEF StartUp!Keys
  <2>12. process' = "up" => \A k \in {"update", "heartbeat", "nrd"} :
                               ~StartUp!InCustody(k)' => period'[k] > 0
    <3>1. process' = "up" => ~(StartUp!Periods["update"] < 0)
      BY <2>1 DEF StartUp!Keys
    <3>2. QED
      BY <2>1, <2>4, <2>7, <2>8, <3>1
  <2>13. period'["health"] = 0 =>
           \/ StartUp!Asked("health")' \in {"off", "0", "-1"}
           \/ StartUp!Asked("health")' = "" /\ file'.state = "read"
    <3>1. StartUp!Resolved("health") \in {"off", "0", "-1"} =>
            StartUp!Asked("health") = StartUp!Resolved("health")
      BY ResolvedText, Defaults DEF StartUp!Keys
    <3>2. QED
      BY <2>1, <2>2, <2>5, <3>1 DEF StartUp!Keys
  <2>14. period'["watchdog"] = 0 => StartUp!Asked("watchdog")' # "" \/ file'.state = "read"
    <3>1. StartUp!Asked("watchdog") = "" /\ file.state # "read" =>
            StartUp!Resolved("watchdog") = "1"
      <4>1. file.keys["watchdog"] = "" \/ file.state = "read"
        BY DEF StartInv, StartUp!Files, StartUp!Keys
      <4>2. QED
        BY <4>1, Defaults DEF StartUp!Asked, StartUp!Resolved, StartUp!LoadConfig
    <3>2. StartUp!Asked("watchdog")' = StartUp!Asked("watchdog") /\ file' = file
      BY <2>1, <2>2 DEF StartUp!Keys
    <3>3. StartUp!Resolved("watchdog") = "1" => period'["watchdog"] # 0
      BY <2>1, <2>6
    <3>4. QED
      BY <3>1, <3>2, <3>3
  <2>15. /\ envSwitch' = "true" => on' = StartUp!Switches
         /\ envSwitch' \in {"", "bad"} =>
              on' = IF file'.state = "read" /\ fileSwitch' THEN StartUp!Switches ELSE {}
         /\ on' # {} => envSwitch' \in {"true", "yes"} \/ (file'.state = "read" /\ fileSwitch')
    <3>1. \A k \in StartUp!Switches :
            /\ "true" \in StartUp!TurnOn[k] /\ StartUp!TurnOn[k] \subseteq {"true", "yes"}
            /\ StartUp!TurnOff[k] \subseteq {"false", "no"}
      BY DEF StartUp!TurnOn, StartUp!TurnOff, StartUp!Switches
    <3>2. envSwitch = "true" => on' = StartUp!Switches
      BY <2>1, <3>1 DEF StartUp!IsOn
    <3>3. ASSUME envSwitch \in {"", "bad"}
          PROVE  on' = IF file.state = "read" /\ fileSwitch THEN StartUp!Switches ELSE {}
      <4>1. \A k \in StartUp!Switches :
              envSwitch \notin StartUp!TurnOn[k] /\ envSwitch \notin StartUp!TurnOff[k]
        BY <3>1, <3>3
      <4>2. \A k \in StartUp!Switches : StartUp!IsOn(k) <=> file.state = "read" /\ fileSwitch
        BY <4>1 DEF StartUp!IsOn
      <4>3. QED
        BY <2>1, <4>2
    <3>4. on' # {} => envSwitch \in {"true", "yes"} \/ (file.state = "read" /\ fileSwitch)
      <4>1. \A k \in StartUp!Switches :
              StartUp!IsOn(k) => envSwitch \in {"true", "yes"} \/ (file.state = "read" /\ fileSwitch)
        BY <3>1 DEF StartUp!IsOn
      <4>2. QED
        BY <2>1, <4>1
    <3>5. QED
      BY <2>1, <3>2, <3>3, <3>4
  <2>16. StartUp!SettingsAreSound'
    BY <2>10, <2>11, <2>12, <2>13, <2>14, <2>15 DEF StartUp!SettingsAreSound, StartUp!Off
  <2>17. QED
    BY <2>1, <2>16 DEF StartInv
<1>2. CASE UNCHANGED startVars
  BY <1>2 DEF startVars, StartInv, StartUp!SettingsAreSound, StartUp!Asked, StartUp!InCustody
<1>3. QED
  BY <1>1, <1>2 DEF StartUp!Next


-----------------------------------------------------------------------------
(* A sample that was taken is no missing one; the report follows the last two. *)
LEMMA DiskStep == clock \in Nat /\ DiskInv /\ [Disk!Next]_diskVars => DiskInv'
<1> SUFFICES ASSUME clock \in Nat, DiskInv, [Disk!Next]_diskVars PROVE DiskInv'
  OBVIOUS
<1>1. CASE Disk!Pass
  BY <1>1 DEF Disk!Pass, DiskInv
<1>2. ASSUME NEW n \in 0 .. Capacity, Disk!Use(n) PROVE DiskInv'
  BY <1>2 DEF Disk!Use, DiskInv
<1>3. CASE Disk!Sample
  <2> DEFINE cur == [used |-> used, at |-> clock]
  <2>1. /\ report' = Disk!Evaluate(prev, cur) /\ prev' = cur
        /\ samples' = Append(samples, cur) /\ UNCHANGED <<clock, used>>
    BY <1>3 DEF Disk!Sample, Disk!NextPrev
  <2>2. cur \in DiskSamples
    BY DEF DiskInv, DiskSamples
  <2>3. samples \in Seq(DiskSamples)
    BY DEF DiskInv
  <2> HIDE DEF cur
  <2>4. /\ samples' \in Seq(DiskSamples) /\ samples' # <<>>
        /\ Len(samples') = Len(samples) + 1 /\ samples'[Len(samples')] = cur
        /\ samples # <<>> => Len(samples) > 0 /\ samples'[Len(samples)] = samples[Len(samples)]
        /\ samples = <<>> => Len(samples) = 0
    BY <2>1, <2>2, <2>3
  <2>5. prev = IF Len(samples') > 1 THEN samples'[Len(samples') - 1] ELSE Disk!NoSample
    <3>1. CASE samples = <<>>
      <4>1. prev = Disk!NoSample
        BY <3>1 DEF DiskInv
      <4>2. Len(samples') = 1
        BY <2>4, <3>1
      <4>3. QED
        BY <4>1, <4>2
    <3>2. CASE samples # <<>>
      BY <2>3, <2>4, <3>2 DEF DiskInv
    <3>3. QED
      BY <3>1, <3>2
  <2>6. Disk!NoSample' = Disk!NoSample
    BY DEF Disk!NoSample
  <2>7. report' = Disk!Evaluate(IF Len(samples') > 1 THEN samples'[Len(samples') - 1]
                                 ELSE Disk!NoSample, samples'[Len(samples')])
    BY <2>1, <2>4, <2>5
  <2>8. used' \in 0 .. Capacity
    BY <2>1 DEF DiskInv
  <2>9. QED
    BY <2>1, <2>4, <2>6, <2>7, <2>8 DEF DiskInv
<1>4. CASE UNCHANGED diskVars
  BY <1>4 DEF diskVars, DiskInv
<1>5. QED
  BY <1>1, <1>2, <1>3, <1>4 DEF Disk!Next

(* The percentages of the verdict, compared without the subtractions. *)
LEMMA DiskSafe == DiskInv => Disk!DiskReportIsRight
<1> SUFFICES ASSUME DiskInv, samples # <<>> PROVE Disk!DiskReportIsRight
  BY DEF DiskInv, Disk!DiskReportIsRight
<1> DEFINE n == Len(samples)
           c == samples[n]
           p == IF n > 1 THEN samples[n - 1] ELSE Disk!NoSample
<1>1. n \in Nat /\ n > 0 /\ samples \in Seq(DiskSamples)
  BY DEF DiskInv
<1>2. c.used \in 0 .. Capacity /\ c.at \in Nat
  <2>1. c \in DiskSamples
    BY <1>1
  <2>2. QED
    BY <2>1 DEF DiskSamples
<1>3. n > 1 => /\ samples[n - 1].used \in 0 .. Capacity /\ samples[n - 1].at \in Nat
               /\ samples[n - 1] # Disk!NoSample
  <2>1. n > 1 => samples[n - 1] \in DiskSamples
    BY <1>1
  <2>2. \A s \in DiskSamples : s # Disk!NoSample
    BY AdministrationAssumption DEF DiskSamples, Disk!NoSample
  <2>3. QED
    BY <2>1, <2>2 DEF DiskSamples
<1>4. report = Disk!Evaluate(p, c)
  BY DEF DiskInv
<1> HIDE DEF c, p, n
<1>5. /\ report.at = c.at
      /\ report.reason = IF Disk!LowSpace(c) THEN "low-space"
                         ELSE IF Disk!GrowsFast(p, c) THEN "rapid-growth" ELSE ""
  BY <1>4 DEF Disk!Evaluate
<1>6. Disk!LowSpace(c) <=> 100 * c.used > (100 - MinFreePercent) * Capacity
  <2>1. PICK u \in Nat : u = c.used /\ u <= Capacity
    BY <1>2, AdministrationAssumption
  <2>2. (100 - MinFreePercent) * Capacity = 100 * Capacity - MinFreePercent * Capacity
    BY AdministrationAssumption
  <2>3. MinFreePercent * Capacity \in Nat
    BY AdministrationAssumption
  <2>4. (Capacity - u) * 100 = 100 * Capacity - 100 * u
    BY <2>1, AdministrationAssumption
  <2>5. QED
    BY <2>1, <2>2, <2>3, <2>4, AdministrationAssumption DEF Disk!LowSpace
<1>7. report.reason = "rapid-growth" => n > 1 /\ c.used > samples[n - 1].used
                                              /\ c.at > samples[n - 1].at
  BY <1>5 DEF Disk!GrowsFast, p
<1>8. ASSUME report.reason = "", n > 1, c.at > samples[n - 1].at
      PROVE  100 * c.used <= 100 * samples[n - 1].used
               + GrowthPercentPerHour * Capacity * (c.at - samples[n - 1].at)
  <2>1. PICK u \in Nat, v \in Nat, a \in Nat, b \in Nat :
          c.used = u /\ samples[n - 1].used = v /\ c.at = a /\ samples[n - 1].at = b
    <3>1. c.used \in Nat /\ c.at \in Nat
      BY <1>2, AdministrationAssumption
    <3>2. samples[n - 1].used \in Nat /\ samples[n - 1].at \in Nat
      <4>1. samples[n - 1].used \in 0 .. Capacity /\ samples[n - 1].at \in Nat
        BY <1>3, <1>8, Zenon
      <4>2. QED
        BY <4>1, AdministrationAssumption
    <3>3. QED
      BY <3>1, <3>2
  <2>2. ~(u > v /\ (u - v) * 100 > GrowthPercentPerHour * Capacity * (a - b))
    BY <1>3, <1>5, <1>8, <2>1 DEF Disk!GrowsFast, p
  <2>3. GrowthPercentPerHour * Capacity * (a - b) \in Nat
    <3>1. GrowthPercentPerHour * Capacity \in Nat
      BY AdministrationAssumption
    <3>2. a - b \in Nat
      <4>1. a > b
        BY <1>8, <2>1
      <4>2. QED
        BY <4>1
    <3>3. QED
      BY <3>1, <3>2
  <2>4. QED
    BY <2>1, <2>2, <2>3
<1>9. n # 0
  BY <1>1
<1>10. report.reason = "low-space" <=> 100 * c.used > (100 - MinFreePercent) * Capacity
  <2>1. report.reason = "low-space" <=> Disk!LowSpace(c)
    BY <1>5
  <2>2. QED
    BY <1>6, <2>1, Zenon
<1>11. QED
  BY <1>5, <1>7, <1>8, <1>9, <1>10, Zenon DEF Disk!DiskReportIsRight, c, n


-----------------------------------------------------------------------------
(* A write since the sweep began takes its source out of both clauses. *)
LEMMA HealthStep == clock \in Nat /\ HealthInv /\ [Health!Next]_healthVars => HealthInv'
<1> SUFFICES ASSUME clock \in Nat, HealthInv, [Health!Next]_healthVars
             PROVE  HealthInv'
  OBVIOUS
<1> USE DEF Health!tableVars, Health!sweepVars, Health!NoneFound
<1>1. CASE UNCHANGED healthVars
  BY <1>1 DEF healthVars, HealthInv, Verdict, Health!Recent, Health!Evaluate, Health!Collapsed
<1>2. CASE Health!Pass
  BY <1>1, <1>2 DEF Health!Pass, healthVars
<1>3. ASSUME NEW s \in Monitored, snaps'[s] \in Seq(Snapshots),
             snaps' = [snaps EXCEPT ![s] = snaps'[s]],
             enabled' \subseteq Monitored,
             \A o \in Monitored \ {s} : o \in enabled' <=> o \in enabled,
             Health!Written(s),
             UNCHANGED <<sweeping, left, found, sweptAt, statuses, checkedAt>>
      PROVE  HealthInv'
  <2>1. \A o \in Monitored \ {s} : Verdict(o, sweptAt)' = Verdict(o, sweptAt)
                                   /\ Verdict(o, checkedAt)' = Verdict(o, checkedAt)
    BY <1>3 DEF Verdict, Health!Recent, Health!Evaluate, Health!Collapsed, HealthInv
  <2>2. snaps' \in [Monitored -> Seq(Snapshots)]
    BY <1>3 DEF HealthInv
  <2>3. moved' = moved \cup {s} /\ unsure' = unsure \cup {s}
    BY <1>3 DEF Health!Written
  <2>4. sweeping' => \A o \in Monitored \ moved' :
          IF o \in left' THEN o \in enabled' ELSE found'[o] = Verdict(o, sweptAt)'
    BY <1>3, <2>1, <2>3 DEF HealthInv
  <2>5. \A o \in Monitored \ unsure' : statuses'[o] = Verdict(o, checkedAt)'
    BY <1>3, <2>1, <2>3 DEF HealthInv
  <2>6. QED
    BY <1>3, <2>2, <2>4, <2>5 DEF HealthInv
<1>4. ASSUME NEW s \in Monitored, NEW n \in Sizes, Health!Download(s, n) PROVE HealthInv'
  <2>1. [size |-> n, at |-> clock] \in Snapshots
    BY AdministrationAssumption DEF Snapshots
  <2>2. snaps[s] \in Seq(Snapshots)
    BY DEF HealthInv
  <2>3. <<[size |-> n, at |-> clock]>> \o snaps[s] \in Seq(Snapshots)
    BY <2>1, <2>2
  <2>4. snaps' = [snaps EXCEPT ![s] = <<[size |-> n, at |-> clock]>> \o snaps[s]]
        /\ enabled' = enabled /\ Health!Written(s)
        /\ UNCHANGED <<sweeping, left, found, sweptAt, statuses, checkedAt>>
    BY <1>4 DEF Health!Download
  <2>5. snaps'[s] = <<[size |-> n, at |-> clock]>> \o snaps[s]
    BY <2>4 DEF HealthInv
  <2>6. QED
    BY <1>3, <2>3, <2>4, <2>5 DEF HealthInv
<1>5. ASSUME NEW s \in Monitored, Health!Toggle(s) PROVE HealthInv'
  <2>1. /\ snaps' = [snaps EXCEPT ![s] = <<>>]
        /\ enabled' = (IF s \in enabled THEN enabled \ {s} ELSE enabled \cup {s})
        /\ Health!Written(s)
        /\ UNCHANGED <<sweeping, left, found, sweptAt, statuses, checkedAt>>
    BY <1>5 DEF Health!Toggle
  <2>2. snaps'[s] = <<>>
    BY <2>1 DEF HealthInv
  <2>3. enabled' \subseteq Monitored /\ \A o \in Monitored \ {s} : o \in enabled' <=> o \in enabled
    BY <2>1 DEF HealthInv
  <2>4. snaps'[s] \in Seq(Snapshots)
    BY <2>2
  <2>5. QED
    BY <1>3, <2>1, <2>2, <2>3, <2>4
<1>6. CASE Health!ListSources
  <2>1. /\ ~sweeping /\ sweeping' /\ left' = enabled /\ sweptAt' = clock /\ moved' = {}
        /\ UNCHANGED <<enabled, snaps, found, statuses, checkedAt, unsure>>
    BY <1>6 DEF Health!ListSources
  <2>2. \A s \in Monitored : Verdict(s, checkedAt)' = Verdict(s, checkedAt)
    BY <2>1 DEF Verdict, Health!Recent, Health!Evaluate, Health!Collapsed
  <2>3. \A s \in Monitored : s \notin enabled => Verdict(s, sweptAt)' = "none"
    BY <2>1 DEF Verdict
  <2>4. \A s \in Monitored : found[s] = "none"
    BY <2>1 DEF HealthInv
  <2>5. QED
    BY <2>1, <2>2, <2>3, <2>4 DEF HealthInv
<1>7. ASSUME NEW s \in Monitored, Health!CheckSource(s) PROVE HealthInv'
  <2>1. /\ s \in left /\ left' = left \ {s}
        /\ UNCHANGED <<enabled, snaps, sweeping, sweptAt, statuses, checkedAt, unsure>>
        /\ \/ /\ found' = [found EXCEPT ![s] = Health!Evaluate(Health!Recent(s), sweptAt)]
              /\ moved' = moved
           \/ /\ \E v : found' = [found EXCEPT ![s] = v]
              /\ moved' = moved \cup {s}
    BY <1>7 DEF Health!CheckSource
  <2>2. sweeping
    BY <2>1 DEF HealthInv
  <2>3. \A o \in Monitored : Verdict(o, checkedAt)' = Verdict(o, checkedAt)
                             /\ Verdict(o, sweptAt)' = Verdict(o, sweptAt)
    BY <2>1 DEF Verdict, Health!Recent, Health!Evaluate, Health!Collapsed
  <2>4. \A o \in Monitored \ {s} : found'[o] = found[o]
    BY <2>1 DEF HealthInv
  <2>5. found' = [o \in Monitored |-> found'[o]]
    BY <2>1 DEF HealthInv
  <2>6. s \notin moved' => s \notin moved /\ s \in enabled /\ found'[s] = Verdict(s, sweptAt)
    BY <2>1, <2>2 DEF HealthInv, Verdict
  <2>7. \A o \in Monitored \ moved' :
          IF o \in left' THEN o \in enabled' ELSE found'[o] = Verdict(o, sweptAt)'
    <3> SUFFICES ASSUME NEW o \in Monitored \ moved'
                 PROVE  IF o \in left' THEN o \in enabled' ELSE found'[o] = Verdict(o, sweptAt)'
      OBVIOUS
    <3>1. CASE o = s
      BY <2>1, <2>3, <2>6, <3>1
    <3>2. CASE o # s
      BY <2>1, <2>2, <2>3, <2>4, <3>2 DEF HealthInv
    <3>3. QED
      BY <3>1, <3>2
  <2>8. \A o \in left' : found'[o] = "none"
    BY <2>1, <2>4 DEF HealthInv
  <2>9. \A o \in Monitored \ unsure' : statuses'[o] = Verdict(o, checkedAt)'
    BY <2>1, <2>3 DEF HealthInv
  <2>10. /\ snaps' \in [Monitored -> Seq(Snapshots)] /\ enabled' \subseteq Monitored
         /\ sweptAt' \in Nat /\ checkedAt' \in Nat /\ left' \subseteq Monitored
    BY <2>1 DEF HealthInv
  <2>11. QED
    BY <2>1, <2>2, <2>5, <2>7, <2>8, <2>9, <2>10 DEF HealthInv
<1>8. CASE Health!Publish
  <2>1. /\ sweeping /\ left = {} /\ ~sweeping' /\ statuses' = found /\ checkedAt' = sweptAt
        /\ found' = [s \in Monitored |-> "none"] /\ unsure' = moved
        /\ UNCHANGED <<enabled, snaps, left, sweptAt, moved>>
    BY <1>8 DEF Health!Publish
  <2>2. \A s \in Monitored : Verdict(s, checkedAt)' = Verdict(s, sweptAt)
    BY <2>1 DEF Verdict, Health!Recent, Health!Evaluate, Health!Collapsed
  <2>3. \A s \in Monitored \ unsure' : statuses'[s] = Verdict(s, checkedAt)'
    BY <2>1, <2>2 DEF HealthInv
  <2>4. QED
    BY <2>1, <2>3 DEF HealthInv
<1>9. QED
  BY <1>1, <1>2, <1>4, <1>5, <1>6, <1>7, <1>8 DEF Health!Next

(* The newest two snapshots decide, and they are what GetRecentSnapshots returns. *)
LEMMA VerdictOf ==
  ASSUME HealthInv, NEW s \in enabled, NEW t \in Nat
  PROVE  Verdict(s, t) # "none" /\ (Verdict(s, t) = "ok" <=> Health!Usable(s, t))
<1> DEFINE recent == Health!Recent(s)
<1>1. s \in Monitored /\ snaps[s] \in Seq(Snapshots) /\ Len(snaps[s]) \in Nat
  BY DEF HealthInv
<1>2. Verdict(s, t) = Health!Evaluate(recent, t)
  BY DEF Verdict
<1>3. recent = SubSeq(snaps[s], 1, IF Len(snaps[s]) < 2 THEN Len(snaps[s]) ELSE 2)
  BY DEF Health!Recent
<1>4. CASE snaps[s] = <<>>
  <2>1. recent = <<>>
    BY <1>1, <1>3, <1>4
  <2>2. QED
    BY <1>2, <1>4, <2>1 DEF Health!Evaluate, Health!Usable
<1>5. CASE snaps[s] # <<>>
  <2>1. Len(snaps[s]) > 0 /\ snaps[s][1] \in Snapshots
        /\ (Len(snaps[s]) > 1 => snaps[s][2] \in Snapshots)
    BY <1>1, <1>5
  <2>2. /\ recent # <<>> /\ recent[1] = snaps[s][1]
        /\ Len(recent) > 1 <=> Len(snaps[s]) > 1
        /\ Len(snaps[s]) > 1 => recent[2] = snaps[s][2]
    <3>1. CASE Len(snaps[s]) = 1
      <4>1. recent = SubSeq(snaps[s], 1, 1)
        BY <1>3, <3>1
      <4>2. Len(SubSeq(snaps[s], 1, 1)) = 1 /\ SubSeq(snaps[s], 1, 1)[1] = snaps[s][1]
        BY <1>1, <3>1
      <4>3. QED
        BY <3>1, <4>1, <4>2
    <3>2. CASE Len(snaps[s]) > 1
      <4>1. recent = SubSeq(snaps[s], 1, 2)
        BY <1>1, <1>3, <3>2
      <4>2. /\ Len(SubSeq(snaps[s], 1, 2)) = 2 /\ SubSeq(snaps[s], 1, 2)[1] = snaps[s][1]
            /\ SubSeq(snaps[s], 1, 2)[2] = snaps[s][2]
        BY <1>1, <3>2
      <4>3. QED
        BY <3>2, <4>1, <4>2
    <3>3. Len(snaps[s]) = 1 \/ Len(snaps[s]) > 1
      <4>1. Len(snaps[s]) \in Nat /\ Len(snaps[s]) > 0
        BY <1>1, <2>1, Zenon
      <4>2. \A l \in Nat : l > 0 => l = 1 \/ l > 1
        OBVIOUS
      <4>3. QED
        BY <4>1, <4>2, Zenon
    <3>4. QED
      BY <3>1, <3>2, <3>3, Zenon
  <2> HIDE DEF recent
  <2>3. PICK z \in Nat, a \in Nat : snaps[s][1].size = z /\ snaps[s][1].at = a
    BY <2>1 DEF Snapshots
  <2>4. PICK y \in Nat : Len(snaps[s]) > 1 => snaps[s][2].size = y
    BY <2>1 DEF Snapshots
  <2>5. Health!Collapsed(recent) <=> Len(snaps[s]) > 1 /\ 2 * z < y
    BY <2>2, <2>3, <2>4 DEF Health!Collapsed
  <2>6. Health!Evaluate(recent, t) # "none"
    BY DEF Health!Evaluate
  <2>7. Health!Evaluate(recent, t) = "ok"
          <=> z # 0 /\ ~Health!Collapsed(recent) /\ ~(StaleLimit > 0 /\ t - a > StaleLimit)
    BY <2>2, <2>3 DEF Health!Evaluate
  <2>8. Health!Usable(s, t) <=> /\ z > 0 /\ (Len(snaps[s]) > 1 => 2 * z >= y)
                                /\ StaleLimit = 0 \/ t <= a + StaleLimit
    BY <1>5, <2>3, <2>4 DEF Health!Usable
  <2>9. QED
    BY <1>2, <2>5, <2>6, <2>7, <2>8, AdministrationAssumption
<1>6. QED
  BY <1>4, <1>5

LEMMA HealthSafe == HealthInv => Health!HealthIsRight
<1> SUFFICES ASSUME HealthInv, NEW s \in Monitored \ unsure
             PROVE  /\ statuses[s] = "none" <=> s \notin enabled
                    /\ s \in enabled => (statuses[s] = "ok" <=> Health!Usable(s, checkedAt))
  BY DEF Health!HealthIsRight
<1>1. statuses[s] = Verdict(s, checkedAt) /\ checkedAt \in Nat
  BY DEF HealthInv
<1>2. CASE s \in enabled
  BY <1>1, <1>2, VerdictOf
<1>3. CASE s \notin enabled
  BY <1>1, <1>3 DEF Verdict
<1>4. QED
  BY <1>2, <1>3


-----------------------------------------------------------------------------
(* The absent row has one column. *)
LEMMA RowsApart ==
  /\ \A a, b : [action |-> a, on |-> b] # Transfer!NoRow
  /\ \A u, b : [url |-> u, on |-> b] # Transfer!NoRow
<1>1. \A a, b : DOMAIN [action |-> a, on |-> b] = {"action", "on"}
  OBVIOUS
<1>2. \A u, b : DOMAIN [url |-> u, on |-> b] = {"url", "on"}
  OBVIOUS
<1>3. DOMAIN Transfer!NoRow = {"on"}
  BY DEF Transfer!NoRow
<1>4. {"action", "on"} # {"on"} /\ {"url", "on"} # {"on"}
  OBVIOUS
<1>5. QED
  BY <1>1, <1>2, <1>3, <1>4, Zenon

(* A document of a version can be told from none. *)
LEMMA DocumentIs ==
  ASSUME NEW ps, NEW ss, NEW b
  PROVE  /\ Transfer!Document(ps, ss, b).version = "1"
         /\ Transfer!Document(ps, ss, b).policies = ps
         /\ Transfer!Document(ps, ss, b).sources = ss
         /\ Transfer!Document(ps, ss, b).on = b
         /\ Transfer!Document(ps, ss, b) # Transfer!NoDoc
  BY DEF Transfer!Document, Transfer!NoDoc

(* What an export reads. *)
LEMMA EntriesAre ==
  ASSUME TransferInv
  PROVE  /\ Transfer!PolicyEntries \subseteq PolicyEntry
         /\ Transfer!SourceEntries \subseteq SourceEntry
<1>1. \A i \in PolicyIds : policies[i] # Transfer!NoRow => policies[i] \in Transfer!PolicyRows
  BY DEF TransferInv
<1>2. \A i \in SourceIds : sources[i] # Transfer!NoRow => sources[i] \in Transfer!SourceRows
  BY DEF TransferInv
<1>3. DOMAIN policies = PolicyIds /\ DOMAIN sources = SourceIds
  BY DEF TransferInv
<1>4. ASSUME NEW e \in Transfer!PolicyEntries PROVE e \in PolicyEntry
  <2>1. PICK i \in PolicyIds : /\ policies[i] # Transfer!NoRow
                               /\ e = [id |-> i, action |-> policies[i].action, on |-> policies[i].on]
    BY <1>3, <1>4 DEF Transfer!PolicyEntries, Transfer!Stored
  <2>2. policies[i].action \in Transfer!Actions /\ policies[i].on \in BOOLEAN
    BY <1>1, <2>1 DEF Transfer!PolicyRows
  <2>3. QED
    BY <2>1, <2>2, Zenon DEF PolicyEntry
<1>5. ASSUME NEW e \in Transfer!SourceEntries PROVE e \in SourceEntry
  <2>1. PICK i \in SourceIds : /\ sources[i] # Transfer!NoRow
                               /\ e = [id |-> i, url |-> sources[i].url, on |-> sources[i].on]
    BY <1>3, <1>5 DEF Transfer!SourceEntries, Transfer!Stored
  <2>2. sources[i].url \in {"http", ""} /\ sources[i].on \in BOOLEAN
    BY <1>2, <2>1 DEF Transfer!SourceRows
  <2>3. QED
    BY <2>1, <2>2, Zenon DEF SourceEntry
<1>6. QED
  BY <1>4, <1>5

(* A document that is posted and valid has entries of the kinds that are stored. *)
LEMMA ValidDocument ==
  ASSUME TransferInv, doc # Transfer!NoDoc, NEW d \in Transfer!Posted,
         Transfer!ValidateConfig(d)
  PROVE  /\ d # Transfer!NoDoc /\ d.on \in BOOLEAN
         /\ d.policies \subseteq PolicyEntry /\ Transfer!UniqueIds(d.policies)
         /\ d.sources \subseteq SourceEntry /\ Transfer!UniqueIds(d.sources)
<1>1. PICK ps \in SUBSET PolicyEntry, ss \in SUBSET SourceEntry, b \in BOOLEAN :
        doc = Transfer!Document(ps, ss, b)
  BY DEF TransferInv
<1>2. doc = [version |-> "1", policies |-> ps, sources |-> ss, on |-> b]
  BY <1>1 DEF Transfer!Document
<1>3. /\ d.version = "1" /\ Transfer!UniqueIds(d.policies) /\ Transfer!UniqueIds(d.sources)
      /\ \A e \in d.policies : e.action \in Transfer!Actions
      /\ \A e \in d.sources : e.url = "http"
  BY DEF Transfer!ValidateConfig
<1>4. d # Transfer!NoDoc
  <2>1. Transfer!NoDoc.version = ""
    BY DEF Transfer!NoDoc
  <2>2. QED
    BY <1>3, <2>1
<1>5. \/ d = doc \/ d = Transfer!WithVersion("2") \/ d = Transfer!WithVersion("")
      \/ d = Transfer!WithSources({})
      \/ \E i \in PolicyIds, a \in Transfer!Actions \cup {"other"} : d = Transfer!WithPolicy(i, a)
      \/ \E s \in SourceIds, u \in {"http", "ftp"} :
           d = Transfer!WithSources(Transfer!OneSource(s, u))
  <2>1. \/ d = doc \/ d = Transfer!WithVersion("2") \/ d = Transfer!WithVersion("")
        \/ d = Transfer!WithSources({})
        \/ d \in Transfer!OtherPolicies \/ d \in Transfer!OtherSources
    BY DEF Transfer!Posted
  <2>2. CASE d \in Transfer!OtherPolicies
    <3>1. PICK i \in PolicyIds, a \in Transfer!Actions \cup {"other"} : d = Transfer!WithPolicy(i, a)
      BY <2>2 DEF Transfer!OtherPolicies
    <3>2. QED
      BY <3>1, Zenon
  <2>3. CASE d \in Transfer!OtherSources
    <3>1. PICK s \in SourceIds, u \in {"http", "ftp"} :
            d = Transfer!WithSources(Transfer!OneSource(s, u))
      BY <2>3 DEF Transfer!OtherSources
    <3>2. QED
      BY <3>1, Zenon
  <2>4. QED
    BY <2>1, <2>2, <2>3, Zenon
<1>6. ASSUME NEW x, d = doc \/ d = Transfer!WithVersion(x)
      PROVE  d.policies = ps /\ d.sources = ss /\ d.on = b
  BY <1>2, <1>6 DEF Transfer!WithVersion
<1>7. ASSUME NEW i, NEW a, d = Transfer!WithPolicy(i, a)
      PROVE  /\ d.policies = ps \cup {[id |-> i, action |-> a, on |-> FALSE]}
             /\ d.sources = ss /\ d.on = b
  BY <1>2, <1>7 DEF Transfer!WithPolicy
<1>8. ASSUME NEW x, d = Transfer!WithSources(x)
      PROVE  d.policies = ps /\ d.sources = x /\ d.on = b
  BY <1>2, <1>8 DEF Transfer!WithSources
<1>9. /\ d.on = b
      /\ d.policies = ps \/ \E i \in PolicyIds, a \in Transfer!Actions \cup {"other"} :
                             d.policies = ps \cup {[id |-> i, action |-> a, on |-> FALSE]}
      /\ d.sources = ss \/ d.sources = {} \/ \E i \in SourceIds, u \in {"http", "ftp"} :
                             d.sources = {[id |-> i, url |-> u, on |-> TRUE]}
  BY <1>5, <1>6, <1>7, <1>8, Zenon DEF Transfer!OneSource
<1>10. ASSUME NEW e \in d.policies PROVE e \in PolicyEntry
  <2>1. e \in ps \/ \E i \in PolicyIds, a \in Transfer!Actions \cup {"other"} :
                      e = [id |-> i, action |-> a, on |-> FALSE]
    BY <1>9, <1>10
  <2>2. ASSUME NEW i \in PolicyIds, NEW a, e = [id |-> i, action |-> a, on |-> FALSE]
        PROVE  e \in PolicyEntry
    <3>1. a \in Transfer!Actions
      BY <1>3, <1>10, <2>2
    <3>2. QED
      BY <2>2, <3>1 DEF PolicyEntry
  <2>3. QED
    BY <2>1, <2>2
<1>11. ASSUME NEW e \in d.sources PROVE e \in SourceEntry
  <2>1. e \in ss \/ \E i \in SourceIds, u \in {"http", "ftp"} :
                      e = [id |-> i, url |-> u, on |-> TRUE]
    BY <1>9, <1>11
  <2>2. ASSUME NEW i \in SourceIds, NEW u, e = [id |-> i, url |-> u, on |-> TRUE]
        PROVE  e \in SourceEntry
    <3>1. u = "http"
      BY <1>3, <1>11, <2>2
    <3>2. QED
      BY <2>2, <3>1 DEF SourceEntry
  <2>3. QED
    BY <2>1, <2>2
<1>12. QED
  BY <1>3, <1>4, <1>9, <1>10, <1>11

(* An import leaves its entries in the tables, an edit forgets it, and an export
   nothing disturbs reads what is there. *)
LEMMA TransferStep == TransferInv /\ [Transfer!Next]_transferVars => TransferInv'
<1> SUFFICES ASSUME TransferInv, [Transfer!Next]_transferVars PROVE TransferInv'
  OBVIOUS
<1>1. ASSUME Transfer!Edited,
             policies' \in [PolicyIds -> Transfer!PolicyRows \cup {Transfer!NoRow}],
             sources' \in [SourceIds -> Transfer!SourceRows \cup {Transfer!NoRow}],
             settings' \in BOOLEAN
      PROVE  TransferInv'
  BY <1>1 DEF Transfer!Edited, TransferInv
<1>2. ASSUME NEW i \in PolicyIds, Transfer!EditPolicy(i) PROVE TransferInv'
  BY <1>1, <1>2 DEF Transfer!EditPolicy, TransferInv
<1>3. ASSUME NEW s \in SourceIds, Transfer!EditSource(s) PROVE TransferInv'
  BY <1>1, <1>3 DEF Transfer!EditSource, TransferInv
<1>4. CASE Transfer!EditSettings
  BY <1>1, <1>4 DEF Transfer!EditSettings, TransferInv
<1>5. ASSUME UNCHANGED <<policies, sources, settings>>
      PROVE  /\ Transfer!PolicyEntries' = Transfer!PolicyEntries
             /\ Transfer!SourceEntries' = Transfer!SourceEntries
  BY <1>5 DEF Transfer!PolicyEntries, Transfer!SourceEntries, Transfer!Stored
<1>6. CASE Transfer!ExportPolicies
  BY <1>5, <1>6, EntriesAre DEF Transfer!ExportPolicies, Transfer!tables, TransferInv
<1>7. CASE Transfer!ExportSources
  BY <1>5, <1>7, EntriesAre DEF Transfer!ExportSources, Transfer!tables, TransferInv
<1>8. CASE Transfer!ExportSettings
  <2>1. doc' = Transfer!Document(part1, part2, settings)
        /\ part1 \in SUBSET PolicyEntry /\ part2 \in SUBSET SourceEntry /\ settings \in BOOLEAN
    BY <1>8 DEF Transfer!ExportSettings, TransferInv
  <2>2. QED
    BY <1>5, <1>8, <2>1 DEF Transfer!ExportSettings, Transfer!tables, TransferInv
<1>9. CASE Transfer!ExportErr
  BY <1>9 DEF Transfer!ExportErr, Transfer!tables, TransferInv
<1>10. ASSUME doc # Transfer!NoDoc, NEW d \in Transfer!Posted, Transfer!ImportConfig(d)
       PROVE  TransferInv'
  <2>1. Transfer!ValidateConfig(d) /\ Transfer!ApplyConfig(d) /\ ~intact' /\ applied' = d
        /\ UNCHANGED <<edits, exporting, part1, part2, doc>>
    BY <1>10 DEF Transfer!ImportConfig
  <2>2. /\ d # Transfer!NoDoc /\ d.on \in BOOLEAN
        /\ d.policies \subseteq PolicyEntry /\ Transfer!UniqueIds(d.policies)
        /\ d.sources \subseteq SourceEntry /\ Transfer!UniqueIds(d.sources)
    BY <1>10, <2>1, ValidDocument
  <2>3. \A i \in PolicyIds :
          policies'[i] = IF \E e \in d.policies : e.id = i
                         THEN [action |-> (CHOOSE e \in d.policies : e.id = i).action, on |-> TRUE]
                         ELSE policies[i]
    BY <2>1 DEF Transfer!ApplyConfig, Transfer!Row, Transfer!CreatedOn
  <2>4. \A s \in SourceIds :
          sources'[s] = IF \E e \in d.sources : e.id = s
                        THEN [url |-> (CHOOSE e \in d.sources : e.id = s).url,
                              on |-> (CHOOSE e \in d.sources : e.id = s).on]
                        ELSE sources[s]
    BY <2>1 DEF Transfer!ApplyConfig, Transfer!Row
  <2>5. DOMAIN policies' = PolicyIds /\ DOMAIN sources' = SourceIds /\ settings' = d.on
        /\ policies' = [i \in PolicyIds |-> policies'[i]]
        /\ sources' = [s \in SourceIds |-> sources'[s]]
    BY <2>1 DEF Transfer!ApplyConfig
  <2>6. ASSUME NEW e \in d.policies
        PROVE  /\ e.id \in PolicyIds /\ e = [id |-> e.id, action |-> e.action, on |-> e.on]
               /\ e.action \in Transfer!Actions
               /\ policies'[e.id] = [action |-> e.action, on |-> TRUE]
    <3>1. e \in PolicyEntry
      BY <2>2
    <3>2. /\ e.id \in PolicyIds /\ e = [id |-> e.id, action |-> e.action, on |-> e.on]
          /\ e.action \in Transfer!Actions
      BY <3>1 DEF PolicyEntry
    <3>3. (CHOOSE f \in d.policies : f.id = e.id) = e
      BY <2>2 DEF Transfer!UniqueIds
    <3>4. QED
      BY <2>3, <3>2, <3>3
  <2>7. ASSUME NEW e \in d.sources
        PROVE  /\ e.id \in SourceIds /\ e = [id |-> e.id, url |-> e.url, on |-> e.on]
               /\ e.url \in {"http", ""} /\ e.on \in BOOLEAN
               /\ sources'[e.id] = [url |-> e.url, on |-> e.on]
    <3>1. e \in SourceEntry
      BY <2>2
    <3>2. /\ e.id \in SourceIds /\ e = [id |-> e.id, url |-> e.url, on |-> e.on]
          /\ e.url \in {"http", ""} /\ e.on \in BOOLEAN
      BY <3>1 DEF SourceEntry
    <3>3. (CHOOSE f \in d.sources : f.id = e.id) = e
      BY <2>2 DEF Transfer!UniqueIds
    <3>4. QED
      BY <2>4, <3>2, <3>3
  <2>8. policies' \in [PolicyIds -> Transfer!PolicyRows \cup {Transfer!NoRow}]
    <3>1. ASSUME NEW i \in PolicyIds
          PROVE  policies'[i] \in Transfer!PolicyRows \cup {Transfer!NoRow}
      <4>1. CASE \E e \in d.policies : e.id = i
        <5>1. PICK e \in d.policies : e.id = i
          BY <4>1
        <5>2. policies'[i] = [action |-> e.action, on |-> TRUE] /\ e.action \in Transfer!Actions
          BY <2>6, <5>1
        <5>3. QED
          BY <5>2 DEF Transfer!PolicyRows
      <4>2. CASE ~\E e \in d.policies : e.id = i
        BY <2>3, <4>2 DEF TransferInv
      <4>3. QED
        BY <4>1, <4>2
    <3>2. QED
      BY <2>5, <3>1
  <2>9. sources' \in [SourceIds -> Transfer!SourceRows \cup {Transfer!NoRow}]
    <3>1. ASSUME NEW s \in SourceIds
          PROVE  sources'[s] \in Transfer!SourceRows \cup {Transfer!NoRow}
      <4>1. CASE \E e \in d.sources : e.id = s
        <5>1. PICK e \in d.sources : e.id = s
          BY <4>1
        <5>2. sources'[s] = [url |-> e.url, on |-> e.on]
              /\ e.url \in {"http", ""} /\ e.on \in BOOLEAN
          BY <2>7, <5>1
        <5>3. [url |-> e.url, on |-> e.on] \in Transfer!SourceRows
          BY <5>2, Zenon DEF Transfer!SourceRows
        <5>4. QED
          BY <5>2, <5>3, Zenon
      <4>2. CASE ~\E e \in d.sources : e.id = s
        BY <2>4, <4>2 DEF TransferInv
      <4>3. QED
        BY <4>1, <4>2
    <3>2. QED
      BY <2>5, <3>1
  <2>10. QED
    BY <2>1, <2>2, <2>5, <2>6, <2>7, <2>8, <2>9 DEF TransferInv
<1>11. CASE UNCHANGED transferVars
  BY <1>5, <1>11 DEF transferVars, TransferInv
<1>12. QED
  BY <1>2, <1>3, <1>4, <1>6, <1>7, <1>8, <1>9, <1>10, <1>11 DEF Transfer!Next

LEMMA TransferSafe == TransferInv => Transfer!RoundTripHolds
<1> SUFFICES ASSUME TransferInv, exporting = "idle", intact, applied # Transfer!NoDoc
             PROVE  /\ \A e \in applied.policies : \E f \in doc.policies :
                         f.id = e.id /\ f.action = e.action /\ (e.on => f.on)
                    /\ applied.sources \subseteq doc.sources
                    /\ doc.on = applied.on
                    /\ Transfer!UniqueIds(doc.policies) /\ Transfer!UniqueIds(doc.sources)
  BY DEF Transfer!RoundTripHolds
<1>1. doc.policies = Transfer!PolicyEntries /\ doc.sources = Transfer!SourceEntries
      /\ doc.on = settings
  BY DocumentIs DEF TransferInv
<1>2. DOMAIN policies = PolicyIds /\ DOMAIN sources = SourceIds
  BY DEF TransferInv
<1>3. ASSUME NEW e \in applied.policies
      PROVE  \E f \in Transfer!PolicyEntries : f.id = e.id /\ f.action = e.action /\ (e.on => f.on)
  <2>1. e.id \in PolicyIds /\ policies[e.id] = [action |-> e.action, on |-> TRUE]
    BY DEF TransferInv
  <2>2. e.id \in Transfer!Stored(policies)
    BY <1>2, <2>1, RowsApart DEF Transfer!Stored
  <2> DEFINE f == [id |-> e.id, action |-> policies[e.id].action, on |-> policies[e.id].on]
  <2>3. f.id = e.id /\ f.action = e.action /\ f.on = TRUE
    BY <2>1
  <2>4. f \in Transfer!PolicyEntries
    BY <2>2 DEF Transfer!PolicyEntries
  <2> HIDE DEF f
  <2>5. QED
    BY <2>3, <2>4
<1>4. ASSUME NEW e \in applied.sources PROVE e \in Transfer!SourceEntries
  <2>1. /\ e.id \in SourceIds /\ e = [id |-> e.id, url |-> e.url, on |-> e.on]
        /\ sources[e.id] = [url |-> e.url, on |-> e.on]
    BY DEF TransferInv
  <2>2. e.id \in Transfer!Stored(sources)
    BY <1>2, <2>1, RowsApart DEF Transfer!Stored
  <2>3. e = [id |-> e.id, url |-> sources[e.id].url, on |-> sources[e.id].on]
    BY <2>1
  <2>4. QED
    BY <2>2, <2>3 DEF Transfer!SourceEntries
<1>5. Transfer!UniqueIds(Transfer!PolicyEntries) /\ Transfer!UniqueIds(Transfer!SourceEntries)
  BY DEF Transfer!UniqueIds, Transfer!PolicyEntries, Transfer!SourceEntries
<1>6. settings = applied.on
  BY DEF TransferInv
<1>7. QED
  BY <1>1, <1>3, <1>4, <1>5, <1>6


-----------------------------------------------------------------------------
(* Each part starts in its invariant. *)
LEMMA SetupInit == Setup!Init => SetupInv
  BY DEF Setup!Init, SetupInv

LEMMA PlaneInit == Init => PlaneInv
<1> SUFFICES ASSUME Init PROVE PlaneInv
  OBVIOUS
<1>1. TypeOK
  <2>1. 0 \in Lists /\ 0 \in 0 .. MaxCrashes
    BY PlaneSyncAssumption DEF Lists
  <2>2. \A r \in Actors : value[r] = TRUE /\ kind[r] = "switch"
    BY DEF Init
  <2>3. \A r \in Actors : value[r] \in IF kind[r] = "switch" THEN BOOLEAN ELSE Lists
    BY <2>2
  <2>4. wrote \in [Actors -> Lists] /\ waitsFor \in [Actors -> 0 .. sent] /\ sent \in Nat
    BY <2>1 DEF Init
  <2>5. /\ pc \in [Actors -> {"idle", "seed", "read", "send", "wait", "replied"}]
        /\ kind \in [Actors -> {"switch", "list"}]
        /\ result \in [Actors -> {"none", "ok", "error"}]
    BY DEF Init
  <2>6. QED
    BY <2>1, <2>3, <2>4, <2>5 DEF Init, TypeOK
<1>2. PushInv
  <2>1. \A r \in Actors : pc[r] = "idle" /\ kind[r] = "switch" /\ wrote[r] = 0
    BY DEF Init
  <2>2. value = [r \in Actors |-> value[r]] /\ cp = "up" /\ dbList = 0 /\ writes = 0
    BY DEF Init
  <2>3. Boot \in Actors /\ Requests \subseteq Actors
    BY DEF Actors
  <2>4. \A r \in Requests :
          /\ pc[r] = "idle" /\ kind[r] = "switch" /\ wrote[r] <= dbList
    BY <2>1, <2>2, <2>3
  <2>5. dbList <= writes /\ pc[Boot] = "idle"
    BY <2>1, <2>2, <2>3
  <2>6. QED
    BY <2>2, <2>4, <2>5 DEF PushInv
<1>3. SyncInv
  BY PlaneSyncAssumption DEF Init, SyncInv, Pushing, Actors, AllIdle
<1>4. QED
  BY <1>1, <1>2, <1>3 DEF PlaneInv

LEMMA EngineInit == Engine!Init => EngineInv
<1> SUFFICES ASSUME Engine!Init PROVE EngineInv
  OBVIOUS
<1> USE EngineUpstreamAssumption DEF Engine!Managers, Engine!Positions, Engine!None, Engine!NoFails
<1>1. Engine!TypeOK
  BY DEF Engine!Init, Engine!TypeOK
<1>2. OwnerInv
  <2>1. \A a \in Appliers : ~Busy(a)
    BY DEF Engine!Init, Busy
  <2>2. \A m \in Engine!Managers :
          /\ open[m] = (IF m = 1 THEN 1 .. MaxUpstreams ELSE {})
          /\ size[m] = (IF m = 1 THEN MaxUpstreams ELSE 0)
    BY DEF Engine!Init
  <2>3. current = 1 /\ built = 1 /\ abandoned = {}
    BY DEF Engine!Init
  <2>4. \A m \in Engine!Managers : open[m] \subseteq 1 .. size[m] /\ (open[m] = {} \/ m = current)
    BY <2>2, <2>3
  <2>5. QED
    BY <2>1, <2>3, <2>4 DEF OwnerInv, Managers
<1>3. SocketInv
  BY DEF Engine!Init, SocketInv, Engine!CurrentManagerIsWhole
<1>4. \A q \in Queries : QueryInv(q)
  BY DEF Engine!Init, QueryInv
<1>5. Engine!PanicOnlyAfterSwap
  BY DEF Engine!Init, Engine!PanicOnlyAfterSwap
<1>6. QED
  BY <1>1, <1>2, <1>3, <1>4, <1>5 DEF EngineInv

LEMMA TransferInit == Transfer!Init => TransferInv
<1> SUFFICES ASSUME Transfer!Init PROVE TransferInv
  OBVIOUS
<1>1. sources \in [SourceIds -> Transfer!SourceRows \cup {Transfer!NoRow}]
  <2>1. [url |-> "", on |-> FALSE] \in Transfer!SourceRows
    BY Zenon DEF Transfer!SourceRows
  <2>2. PICK seeded \in {Transfer!NoRow, [url |-> "", on |-> FALSE]} :
          sources = [s \in SourceIds |-> IF s = Bundle THEN seeded ELSE Transfer!NoRow]
    BY DEF Transfer!Init
  <2>3. seeded \in Transfer!SourceRows \cup {Transfer!NoRow}
    BY <2>1, <2>2
  <2>4. QED
    BY <2>2, <2>3
<1>2. QED
  BY <1>1 DEF Transfer!Init, TransferInv

LEMMA HealthInit == Health!Init => HealthInv
<1> SUFFICES ASSUME Health!Init PROVE HealthInv
  OBVIOUS
<1>1. snaps \in [Monitored -> Seq(Snapshots)]
  BY DEF Health!Init
<1>2. QED
  BY <1>1 DEF Health!Init, HealthInv, Health!NoneFound

LEMMA DiskInit == Disk!Init => DiskInv
<1> SUFFICES ASSUME Disk!Init PROVE DiskInv
  OBVIOUS
<1>1. samples = <<>> /\ used \in 0 .. Capacity /\ prev = Disk!NoSample /\ report.reason = ""
  BY DEF Disk!Init
<1>2. samples \in Seq(DiskSamples)
  <2>1. <<>> \in Seq(DiskSamples)
    OBVIOUS
  <2>2. QED
    BY <1>1, <2>1, Zenon
<1>3. QED
  BY <1>1, <1>2 DEF DiskInv

LEMMA StartInit == StartUp!Init => StartInv
  BY DEF StartUp!Init, StartInv, StartUp!SettingsAreSound

LEMMA TokenInit == Token!Init => TokenInv
  BY DEF Token!Init, TokenInv

(* A step of the whole is a step of one part at most, and the clock counts. *)
LEMMA PartsStep ==
  ASSUME clock \in Nat, [AdminNext]_adminVars
  PROVE  /\ [Next]_vars /\ [Engine!Next]_engineVars /\ [Transfer!Next]_transferVars
         /\ [Setup!Next]_setupVars /\ [Health!Next]_healthVars /\ [Disk!Next]_diskVars
         /\ [StartUp!Next]_startVars /\ [Token!Next]_tokenVars
         /\ clock' \in Nat
<1>1. CASE PlanesNext
  BY <1>1 DEF PlanesNext
<1>2. CASE EngineNext
  BY <1>2 DEF EngineNext
<1>3. CASE TransferNext
  BY <1>3 DEF TransferNext
<1>4. CASE SetupNext
  BY <1>4 DEF SetupNext
<1>5. CASE HealthNext
  <2>1. Health!Next => clock' \in Nat
    <3>1. Health!Pass => clock' \in Nat
      BY DEF Health!Pass
    <3>2. Health!ListSources \/ Health!Publish => clock' = clock
      BY DEF Health!ListSources, Health!Publish
    <3>3. \A s \in Monitored : Health!CheckSource(s) => clock' = clock
      BY DEF Health!CheckSource
    <3>4. \A s \in Monitored : Health!Toggle(s) \/ (\E n \in Sizes : Health!Download(s, n))
                              => clock' = clock
      BY DEF Health!Toggle, Health!Download
    <3>5. QED
      BY <3>1, <3>2, <3>3, <3>4 DEF Health!Next
  <2>2. QED
    BY <1>5, <2>1 DEF HealthNext
<1>6. CASE DiskNext
  <2>1. Disk!Next => clock' \in Nat
    BY DEF Disk!Next, Disk!Pass, Disk!Use, Disk!Sample
  <2>2. QED
    BY <1>6, <2>1 DEF DiskNext
<1>7. CASE SettingsNext
  BY <1>7 DEF SettingsNext
<1>8. CASE LicenceNext
  <2>1. Token!Next => clock' \in Nat
    BY DEF Token!Next, Token!Pass, Token!InitFromEnv, Token!Renew
  <2>2. QED
    BY <1>8, <2>1 DEF LicenceNext
<1>9. CASE UNCHANGED adminVars
  BY <1>9 DEF adminVars
<1>10. QED
  BY <1>1, <1>2, <1>3, <1>4, <1>5, <1>6, <1>7, <1>8, <1>9 DEF AdminNext

LEMMA AdminStep == AdminInv /\ [AdminNext]_adminVars => AdminInv'
<1> SUFFICES ASSUME AdminInv, [AdminNext]_adminVars PROVE AdminInv'
  OBVIOUS
<1>1. clock \in Nat
  BY DEF AdminInv
<1>2. /\ [Next]_vars /\ [Engine!Next]_engineVars /\ [Transfer!Next]_transferVars
      /\ [Setup!Next]_setupVars /\ [Health!Next]_healthVars /\ [Disk!Next]_diskVars
      /\ [StartUp!Next]_startVars /\ [Token!Next]_tokenVars /\ clock' \in Nat
  BY <1>1, PartsStep
<1>3. PlaneInv' /\ EngineInv' /\ TransferInv' /\ SetupInv'
  BY <1>2, PlaneStep, EngineStep, TransferStep, SetupStep DEF AdminInv
<1>4. HealthInv' /\ DiskInv' /\ StartInv' /\ TokenInv'
  BY <1>1, <1>2, HealthStep, DiskStep, StartStep, TokenStep DEF AdminInv
<1>5. QED
  BY <1>2, <1>3, <1>4 DEF AdminInv

LEMMA AdminStart == AdminInit => AdminInv
<1> SUFFICES ASSUME AdminInit PROVE AdminInv
  OBVIOUS
<1>1. PlaneInv /\ EngineInv /\ TransferInv /\ SetupInv
  BY PlaneInit, EngineInit, TransferInit, SetupInit DEF AdminInit
<1>2. HealthInv /\ DiskInv /\ StartInv /\ TokenInv
  BY HealthInit, DiskInit, StartInit, TokenInit DEF AdminInit
<1>3. clock \in Nat
  BY DEF AdminInit, Health!Init
<1>4. QED
  BY <1>1, <1>2, <1>3 DEF AdminInv

(* The invariant of the whole. *)
LEMMA AdminInvariant == AdminSpec => []AdminInv
<1>1. QED
  BY AdminStart, AdminStep, PTL DEF AdminSpec

-----------------------------------------------------------------------------
(* However requests, restarts and crashes of the two planes interleave, a
   handler that reported success pushed a list with its own change in it, and
   the dataplane is on the stored configuration whenever nothing failed and
   nothing overlapped (handlers/dns.go, state_sync.go). *)
THEOREM PlanesFollowStore == AdminSpec => []PushesFollowStore
<1>1. AdminInv => PushesFollowStore
  BY PlaneSafe DEF AdminInv
<1>2. QED
  BY <1>1, AdminInvariant, PTL

(* However applies of upstream lists overlap, fail or meet a shutdown, a socket
   is open on behalf of the current manager, of an apply that has not ended or of
   one whose construction failed (engine.go, ApplyUpstreams). *)
THEOREM NoManagerIsLeaked == AdminSpec => []ManagersAccountedFor
<1>1. AdminInv => ManagersAccountedFor
  BY EngineSafe DEF AdminInv, ManagersAccountedFor
<1>2. QED
  BY <1>1, AdminInvariant, PTL

(* A query is answered with an error only after each upstream of the manager it
   loaded has failed as often as it may be tried, and a panic comes of a manager
   that was replaced meanwhile (engine.go, forwardToUpstream). *)
THEOREM ErrorsAreJustified == AdminSpec => []OutcomeIsJustified
<1>1. AdminInv => OutcomeIsJustified
  BY EngineSafe DEF AdminInv, OutcomeIsJustified
<1>2. QED
  BY <1>1, AdminInvariant, PTL

(* An export that no write disturbed shows all that was imported before it
   (handlers/config.go). *)
THEOREM ImportsAreExported == AdminSpec => []RoundTripHolds
<1>1. AdminInv => RoundTripHolds
  BY TransferSafe DEF AdminInv, RoundTripHolds
<1>2. QED
  BY <1>1, AdminInvariant, PTL

(* Any number of first setups that race, fail and restart make one
   administrator, and only that one is given a token (handlers/auth.go). *)
THEOREM OneAdministrator == AdminSpec => []SetupHasOneWinner
<1>1. AdminInv => SetupHasOneWinner
  BY SetupSafe DEF AdminInv, SetupHasOneWinner
<1>2. QED
  BY <1>1, AdminInvariant, PTL

(* What the blocklist and the disk monitor publish was so at the time it
   carries, whatever was written while they looked (blocklist/health.go,
   diskhealth.go). *)
THEOREM MonitorsAreRight == AdminSpec => []HealthReportsAreRight
<1>1. AdminInv => HealthReportsAreRight
  BY HealthSafe, DiskSafe DEF AdminInv, HealthReportsAreRight
<1>2. QED
  BY <1>1, AdminInvariant, PTL

(* A process starts with what was asked for, or does not start because a negative
   refresh period was, and its licence mode is the one of its token at the time
   of the check (config.go, license.go). *)
THEOREM StartsAsAsked == AdminSpec => []StartUpIsSound
<1>1. AdminInv => StartUpIsSound
  <2>1. StartInv => StartUp!SettingsAreSound
    BY DEF StartInv
  <2>2. QED
    BY <2>1, TokenSafe DEF AdminInv, StartUpIsSound
<1>2. QED
  BY <1>1, AdminInvariant, PTL
=============================================================================
