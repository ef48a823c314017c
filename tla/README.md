# Verification of the DNS filter

TLA+ models of PhantomDNS (`phantomcore`), the TLC configurations that check
them on small instances, and TLAPS proofs of their safety. Every
definition that models code is listed with its source lines in `PROJECT.json`
under `map`; every property carries a comment that says which behaviour of the
code it is about.

## 1. The system

PhantomDNS runs as two processes that share one SQLite database.

* The **dataplane** (`src/cmd/dataplane`) answers DNS. A query goes through
  `Server` (rate limit, UDP and TCP listeners), `Engine.ProcessDNSQuery` (a
  dozen filters), `UpstreamManager` (failover over a list of upstreams) and one
  upstream's connection pool. Around it run the query-log writer, the event
  exporter, the policy poll, the blocklist and NRD refreshes, the watchdog, the
  device alerter, the heartbeat and the HA manager.
* The **control plane** (`src/cmd/controlplane`) is the HTTP API. Its handlers
  write the database, then push what the dataplane must know over gRPC (enable
  switch, resolver list), and refresh blocklists in background goroutines of
  their own.

| component (source) | state | operations | who else touches it |
|---|---|---|---|
| upstream pool (`dnsengine/connections.go`) | UDP socket and mutex, TCP slot array with cursor and in-use flags, `closed` | `Exchange`, `getTCPConn`, `releaseTCPConn`, `Close` | every query goroutine; a live resolver swap |
| upstream manager (`upstream_manager.go`, `encrypted_upstream.go`, `case_randomize.go`, part of `engine.go`) | atomic pointer to the list of upstreams | build, swap, close, failover with retries | query goroutines, gRPC handlers, shutdown |
| query pipeline (`engine.go`, `server.go`) | one query's progress; reads blocklist, policies, NRD set, trackers, cache | the filters in order, forwarding, answering, logging | refreshes and reloads change what it reads, between its reads |
| query log writer (`querylog_writer.go`, `statistics_repo.go`) | bounded channel, two workers, a shared statistics row | `Submit`, `run`, `Close` | query goroutines, server shutdown |
| event exporter (`export.go`) | bounded channel, one worker, sinks | `Export`, `run`, `Close` | query goroutines, shutdown |
| policy engine (`internal/policy`) | immutable snapshot: rules, wildcards, Bloom filter, schedules, client scopes | `BuildSnapshot`, `Evaluate`, `IsExplicitlyAllowed` | replaced by reloads |
| policy store (`handlers/policies.go`, `repositories/policy.go`, `dataplane/main.go`) | the policy table, two in-process snapshots | create, patch, delete, reload, poll | two processes |
| blocklist store (`blocklist/engine.go`, `repositories/blocklist.go`, `handlers/blocklists.go`, `bundle/seed.go`) | sources with ETags, snapshots, entries | periodic and background refresh, conditional fetch, seed, create, update, delete | two processes |
| categories and collections (`handlers/categories.go`, `collections.go`, `blocklist/aggregate.go`) | switch rows, aggregated entries | enable, disable | concurrent requests |
| plane synchronisation (`handlers/dns.go`, `grpc/controlplane`, `grpc/dataplane`) | stored switch and resolvers, the engine's copies | toggle, change of resolvers, start-up push | two processes, lossy calls |
| trackers (`cache.go`, `ratelimit.go`, `fastflux.go`, `nod.go`, `alert/alert.go`, `metrics/query_metrics.go`) | bounded maps keyed by name or client, time windows | observe, count, evict | every query goroutine |
| NRD feed (`internal/nrd`) | set of names, ETag | conditional refresh, swap | the pipeline reads it |
| watchdog (`internal/watchdog`) | failure counter | probe, check, recover | the engine's accept flag |
| HA pair (`internal/ha`) | peer view, counters, active or standby | probe, tick | the other node, the network |
| fleet (`internal/heartbeat`, `internal/fleet`) | ticker, last-seen table | report, receive, list | the network |
| configuration transfer (`handlers/config.go`) | none of its own: three tables | export, validate, import | every handler that writes those tables; the blocklist refreshes |
| authentication (`handlers/auth.go`, `middlewares/auth.go`, `repositories/auth.go`) | one credential row | first setup, login, check of the bearer token | concurrent setups, restarts |
| settings (`internal/config`, `dataplane/main.go`) | the resolved configuration | load, override, start of the loops | the operator's file and environment |
| licence (`internal/license`) | the mode judged at start | load, verify, evaluate | the operator, the clock |
| blocklist health (`blocklist/health.go`) | the published statuses | sweep | refreshes and administrators write what it reads |
| disk health (`internal/diskhealth`) | last status, previous sample | sample | whatever fills the disk |
| device inventory (`internal/inventory`) | devices by address, with first and last sight | refresh, merge, look up | the network; alerts read it |
| threat detector (`internal/threat`) | the watch list | analyse a name | the pipeline reads its verdict |

The hard behaviours are: locks that are dropped during a dial or not held at
all between a read and a write; rows that are read, kept for as long as a
download takes, and saved whole; two processes on one database without a lock;
messages that are lost or carried out after their caller gave up; bounded
queues and maps at their limits; clocks read before locks; and shutdown racing
with work in progress. `PROJECT.json` lists each of them, at its line, under
`hazards`, with the properties that would catch it.

## 2. Modules

Each module models one component. Its `VARIABLES` are the component's state
(and, where a property needs it, a history variable that is marked as one); an
action is what the code does between two points where another goroutine or
process can run: a lock operation, a channel operation, one database
transaction, one network call.

| module | models | notes on the correspondence |
|---|---|---|
| `UpstreamPool` | one plain upstream's sockets | `pc` follows a goroutine through `Exchange`; the pool mutex is held within an action except in `Close`, which holds it while it waits for the UDP mutex. Late replies stay in `rcvBuf` |
| `UpstreamPoolProofs` | | the theorems about it |
| `EngineUpstream` | the manager pointer, failover, live swap, shutdown | managers are numbered; a query keeps the number it loaded |
| `QueryLogWriter` | channel, workers, statistics row, shutdown order of `Server.Run` | the read and the write of the counters are two actions |
| `AsyncSink` | abstract: accept or refuse, finish each accepted item once, shut after the last | the specification `QueryLogWriter` and `EventExporter` implement |
| `QueryPipeline` | `ProcessDNSQuery` and `forwardUpstream` | one action per stage; blocklist, policies, NRD set, ledger and cache may change between stages |
| `PolicyEngine` | snapshot building and evaluation, as operators | checked against a reference definition that knows no index or Bloom filter; a Bloom false positive is a nondeterministic extra level. Candidates are positions in the loaded list, which the loop of `pickHighestPriorityScoped` walks in order |
| `PolicyStore` | the table, the handlers, reload and poll | a patch is a read and a whole-row write |
| `BlocklistStore` | sources, snapshots, entries, refreshes, seed, handlers | a refresh carries the row copy it read across the download |
| `CategoryToggle` | category and collection switches | three transactions, each may fail; some feeds fail, and a feed that is empty or answered 304 counts as fetched and gives nothing |
| `PlaneSync` | the two processes, their start, crashes, pushes | a timed-out call stays in the network and may be carried out later; reads may fail, and an empty resolver list is seeded when the control plane starts |
| `AnswerCache`, `RateLimiter`, `FastFlux`, `NodLedger`, `DeviceAlerter`, `QueryMetrics` | the trackers | integer time; the clock read is a step of its own where the code reads it outside the lock |
| `NrdFeed` | conditional refresh of the NRD set | |
| `EventExporter` | queue, worker, sinks, `Close` | a sink can fail, or be stuck for a while |
| `Watchdog` | probe loop and recovery | a zero threshold becomes the default, as in `New` |
| `HAPair` | two managers | crash, restart, partition; a history keeps the last probes of each node since its start |
| `FleetStatus` | the reporting loop, network, store | the repository's `Reporter` sends no token and no site ID and is refused; what the store accepts comes from external agents that post whenever they like |
| `ConfigTransfer` | export and import of the configuration | an export is three reads with other handlers' writes between them; an import is one transaction. A policy that is created gets `enabled = true` whatever the document says: gorm writes the column's default for a zero value. What an import pushes is in `PlaneSync`, what it leaves as it was in `PolicyStore` and `BlocklistStore` |
| `AdminSetup` | first setup, login, bearer check | the check, the slow hash, the second check and the insert are steps of their own; the control plane may die at each |
| `Settings` | defaults, file, environment; the periods of the loops and the switches | a value is a text that may be absent, malformed, zero or negative; each loop's reading of it is an operator |
| `Licence` | which token counts and how it is judged | whether a signature verifies is an input |
| `BlocklistHealth` | the sweep and its published statuses | one step per source, so that writes fall between |
| `DiskHealth` | samples, low space and growth | percentages compared by cross-multiplication |
| `DeviceInventory` | refresh from ARP and leases, merge | the two reads are two steps |
| `ThreatDetector` | order of the heuristics, lookalikes and their edit distance | the distance is the code's table of rolling rows; the reference is a definition by single edits |
| `EngineUpstreamParameters` | | the constants of `EngineUpstream` and what is assumed of them |
| `QueryLogWriterProofs`, `BlocklistStoreProofs`, `QueryPipelineProofs` | | the theorems about the module each is named after |
| `PolicyProofs` | | `PolicyStore`, `PolicyEngine` |
| `AdministrationProofs` | | `AdminSetup`, `PlaneSync`, `EngineUpstream`, `ConfigTransfer`, the two monitors, `Settings`, `Licence` |
| `OperationsProofs` | | `HAPair`, `Watchdog`, `FleetStatus`, `CategoryToggle`, `EventExporter` |
| `TrackersProofs` | | `NodLedger`, `FastFlux`, `DeviceInventory`, `DeviceAlerter`, `RateLimiter`, `AnswerCache`, `QueryMetrics`, `ThreatDetector` |

Composition: `UpstreamPool` is below `EngineUpstream`, which takes one exchange
as one answer, error or panic; `QueryPipeline` takes the outcome of forwarding,
the policy decision and the trackers' verdicts as inputs whose meaning the
other modules fix. `MCTrackers`, `MCOperations` and `MCAdministration` bring six
to eight components each into one run.

## 3. Runs

`tlc -workers 2 -config X.cfg M` in this directory, with the run's module `M`: the
one of its name, but `BlocklistStore` for the two runs of the blocklist store and
`Settings` for `MCSettingsCustody`, which need no module of their own, and
`MCUpstreamPool` for `MCUpstreamPoolLeak`. The passing runs:

| run | bounds | properties and what they show |
|---|---|---|
| `MCUpstreamPool` | 2 goroutines, 2 slots, 3 exchanges, one `Close` | `ConnUseIsExclusive`, `SocketsAccountedFor`: slots and connections are exclusive although the pool is unlocked during a dial, a connection in use stays open until `Close`, and every open socket is in a slot. `AnswersMatchUntilTimeout`: answers match until the first read timeout. `CallsReturn`: exchanges and `Close` end |
| `MCQueryLogWriter` | 3 rows, 2 workers, buffer of 2 | `LogIsAccountedFor`: no send on the closed channel, `Close` drains, and interleaved increments never over-count. `WriterFinishes`: accepted rows are worked off and `Close` returns. `ImplementsAsyncSink` |
| `MCAdministration` | planes: 2 requests and the start-up push, 2 writes, 2 crashes. Engine: 1 query, 2 appliers, 2 upstreams, 2 attempts each, 3 managers. Transfer: 1 policy, 1 source and the bundle, 3 edits, 16 posted documents. Setup: 2 administrators, 2 lists, 2 restarts. Health: 2 sources, lists of 0, 1 or 3 names, stale after 1 of 2 ticks, 2 snapshots at a time. Disk: 4 units, 3 samples in 3 hours. Settings: every file and environment in which one key differs. Licence: 2 expiries, grace of 2, time to 5 | `PushesFollowStore`: the engine follows the store while requests come one at a time and succeed, and a success always pushed its own change. `ManagersAccountedFor`: the current manager is whole and replaced ones are closed. `OutcomeIsJustified`: an error only after every attempt on every upstream in order, a panic only on a replaced manager. `RoundTripHolds`: what was imported is in the next export that nothing disturbed, the switch of a disabled policy left open. `SetupHasOneWinner`: one administrator at most comes out of racing, failing and repeated setups. `HealthReportsAreRight`: what the two monitors publish was so at the time it carries. `StartUpIsSound`: what a process starts with is what was asked for, and only a negative refresh period stops it; the cases in which a comment and the code part are left open |
| `MCBlocklistStore` | 1 source and the bundle, dataplane loop, 1 background task, 2 feed versions, 3 admin requests, imports and setups among them | `NoOrphanEntries`; `AdminWishHolds`: an edit that nothing overlapped is in force; `TagHasEntriesWhenQuiet`: an ETag stands for stored entries |
| `MCQueryPipeline` | 1 query, 4 kinds of question, 2 configurations | `BlockedStaysOut`: a name that is blocked throughout a query is answered 0.0.0.0, whatever changes meanwhile, and a fresh answer is filtered. `LogMatchesResponse`, `QueryIsServed` |
| `MCPolicyEngine` | 3 names, 2 clients, 7 policies of which at most 3 loaded, a week of 2 days of 4 minutes | `EvaluationIsRight`: decision, explicit allow and client scope against a reference without index or Bloom filter, and every schedule window is on for its length, across midnight and at every fixed offset |
| `MCPolicyStore` | 2 handlers, 2 IDs, 2 requests | `SnapshotsFollowTable`, `DataplaneCatchesUp` |
| `MCTrackers` | limits of 1 or 2, windows of 1 to 3 ticks, time to 4; 1 address, 2 devices and names, 4 moves; labels of up to 4 of 3 letters, 2 of them confusable | one property per tracker, against the history of its calls: `CacheIsLRU`, `LimitIsKept`, `FluxVerdictIsRight`, `LedgerTellsNew`, `AlertsMatchHits`, `WindowIsExactUnlessRaced`; `DevicesAreKnown`: the inventory shows of an address what was observed on it, and a MAC it has now; `LookalikesAreFlagged`: exactly the names within two edits of a brand, against a definition by edits |
| `MCOperations` | thresholds 3 and 2; heartbeats every 6, POSTs of 1 at most, stale after 9 (the defaults 60, 10 and 90 s in units of 10 s); 2 overlapping toggles of 4; 3 events, 2 sinks, queue of 2; 4 feed versions | `HysteresisHolds`: a node changes state on a full threshold of equal probes, neither earlier nor later; `PairSettles` (HA); `RecoveryPerThreshold` (watchdog); `ReporterKeepsPace`: no collector stalls the reporting loop; `FleetViewFollows`: a stopped site ends up down, and refusals never end the loop (fleet); `SuccessIsApplied` (switches); `SinksOfferedAll`, `ExporterDelivers` (exporter); `FeedTakesEffect` (NRD) |

Several of these are conjunctions of named parts, each stated and explained in
its module. The older modules have a `TypeOK` that records the type of their
variables, which the inductive invariants of section 4 contain.

The three runs that expect a violation show what a comment promises and the code
does not do: `MCUpstreamPoolLeak` (`releaseTCPConn` gives no slot back after
success), `MCBlocklistStoreDisable` (a refresh in flight restores the entries
of a disabled source) and `MCSettingsCustody` (the heartbeat does not ask for
`LOCAL_ONLY`, which lists it among what must be silent).

### Why the bounds are enough

The races in this code need two actors, so every run has two where the code
allows two, and a third action that changes the ground under them (`Close`, a
swap, a crash, an admin request). Queues and maps have a limit of 1 or 2 and one
item more than fits, so that the limit, the drop and the eviction happen. A
slot array of two with three exchanges wraps the cursor and fills every slot;
two upstreams with two attempts have a first, a middle and a last step of the
failover. Two feed versions tell a stale snapshot from the current one. Two
schedule days of four minutes hold a window that crosses midnight, one that
ends at its start and a whole day. Time windows are two or three ticks long and
time runs past twice that. HA and watchdog thresholds are those of the code or
its test configuration. An export of three reads needs a write in each of its
two gaps and one after it, hence three edits. A label of four letters has room
for two separate swaps, and for a swap and another edit. Counters that the code lets grow (`MaxExchanges`,
`MaxRequests`, `MaxVersion`, `MaxToggles`, `MaxTime`, ...) are capped in the
guards by a constant named for it, and where a cap would stop the system in an
unfinished state the run says `CHECK_DEADLOCK FALSE`: the work is simply over.

The parts of `MCTrackers`, of `MCOperations` and of `MCAdministration` share no
state, or a clock at most, so a behaviour of the run follows one part, chosen in the initial state, and the
others stand still. Their interleaving would multiply states and add nothing.
No symmetry is declared: most runs check liveness, where it would be unsound.

### Fairness

Only the runs with a liveness property assume any. Weak fairness for a goroutine
that has a step to take, for a ticker loop, and for a call the code bounds by a
deadline. Strong fairness only where a step is
enabled again and again rather than continuously, and something in the code or
its runtime ensures its turn:

* `UdpSend`, `CloseSockets` (`UpstreamPool`): Go's mutex hands over to a waiter
  that starved for a millisecond.
* `PollList` (`PolicyStore`): the poll's read of the table may fail, but not for ever.
* `Pass` (`FleetStatus`): time passes, however often a box restarts.
* `Send` (`EventExporter`): a stuck sink takes data again and again. A sink stuck
  for good is the assumption the code makes: see the last section.
* `Fetch200` (`NrdFeed`): the feed's server answers again and again.

Nothing is assumed of admins, clients, crashes, partitions or feeds.

## 4. Proofs

`tlapm M.tla` in this directory, for the eight modules below. Each theorem holds
for every value of the constants that meets the assumptions: any number of
goroutines, handlers, sources, policies, devices, events or sinks, and every
size, threshold, window and bound. Where TLC checks the same formula on a small
instance, it is named as the run names it.

| module | theorem | states |
|---|---|---|
| `UpstreamPoolProofs` | `PoolTypeCorrect` | `Spec => []TypeOK` |
| | `PoolSlotExclusive`, `PoolConnStaysOpenInUse` | the two halves of the next |
| | `PoolConnUseIsExclusive` | `Spec => []ConnUseIsExclusive` |
| | `PoolSocketsAccountedFor` | `Spec => []SocketsAccountedFor` |
| | `PoolAnswersMatchUntilTimeout` | `Spec => []AnswersMatchUntilTimeout` |
| `QueryLogWriterProofs` | `LogTypeCorrect` | `Spec => []TypeOK` |
| | `WriterLogIsAccountedFor` | `Spec => []LogIsAccountedFor` |
| | `WriterImplementsAsyncSink` | `Spec => ImplementsAsyncSink`: the writer refines `AsyncSink` |
| `QueryPipelineProofs` | `PipelineTypeCorrect` | `Spec => []TypeOK` |
| | `NothingBlockedGetsOut` | `Spec => []BlockedStaysOut` |
| | `LogTellsResponse` | `Spec => []LogMatchesResponse` |
| `PolicyProofs` | `PolicyTypeCorrect` | `Spec => []TypeOK` |
| | `EnginesFollowTable` | `Spec => []SnapshotsFollowTable` |
| | `EngineTypeCorrect` | `EngineSpec => []EngineTypeOK` |
| | `EvaluationCorrect` | `EngineSpec => []EvaluationIsRight` |
| `BlocklistStoreProofs` | `BlocklistTypeCorrect` | `Spec => []TypeOK` |
| | `EntriesHaveSource` | `Spec => []NoOrphanEntries` |
| | `WishIsKept` | `Spec => []AdminWishHolds` |
| | `TagIsBacked` | `Spec => []TagHasEntriesWhenQuiet` |
| `AdministrationProofs` | `PlanesFollowStore` | `PushesFollowStore` |
| | `NoManagerIsLeaked` | `ManagersAccountedFor` |
| | `ErrorsAreJustified` | `OutcomeIsJustified` |
| | `ImportsAreExported` | `RoundTripHolds` |
| | `OneAdministrator` | `SetupHasOneWinner` |
| | `MonitorsAreRight` | `HealthReportsAreRight` |
| | `StartsAsAsked` | `StartUpIsSound` |
| `OperationsProofs` | `PairHysteresis` | `HysteresisHolds`, an invariant and an action property |
| | `WatchdogBacksOff` | `RecoveryPerThreshold` |
| | `ReporterIsNeverStalled` | `ReporterKeepsPace` |
| | `ToggleIsApplied` | `SuccessIsApplied` |
| | `EverySinkIsOffered` | `SinksOfferedAll` |
| | `ExporterImplementsAsyncSink` | the exporter refines `AsyncSink` (the safety half of `ExporterDelivers`) |
| `TrackersProofs` | `LedgerIsRight` | `Spec => LedgerTellsNew`, an action property |
| | `FluxIsRight` | `Spec => FluxVerdictIsRight`, an action property |
| | `DevicesKnown` | `Spec => []DevicesAreKnown` |
| | `AlertsAreRight` | `Spec => []AlertsMatchHits` |
| | `LimitHolds` | `Spec => []LimitIsKept` |
| | `CacheIsRight` | `Spec => CacheIsLRU`, an action property |
| | `WindowIsExact` | `Spec => []WindowIsExactUnlessRaced` |
| | `LookalikesFlagged` | `Spec => []LookalikesAreFlagged` |

### From which assumptions

Each is an `ASSUME` of the module that declares the constants, and TLC evaluates
it on the run of that module. Most say that a number is a natural, and that a
marker (`NoOne`, `Nothing`, `Boot`, `Bundled`, `"none"`) is none of the values
it marks the absence of. The ones that exclude something:

* `PoolAssumption`: at least one slot. `EngineUpstreamAssumption`: at least one
  attempt (`engine.go:438` asks for two), and bounds that leave room for
  one upstream and one manager.
* `WriterAssumption`: at least one worker and a buffer, since the constructor
  replaces what is not positive by a default (`querylog_writer.go:58`); the rows of a
  behaviour are finitely many.
* `HAAssumption`: two nodes that differ, and positive thresholds, others being
  replaced by defaults (`ha/config.go:63`).
* `AdministrationAssumption`: a positive grace period and growth limit; the code
  replaces the first (`license.go:162-169`) and takes a second that is zero as
  switched off (`diskhealth.go:171`).
* `OperationsAssumption`: at least one sink, since without one there is no
  exporter, a positive heartbeat interval (`heartbeat.go:107` replaces others), and
  a box is an agent's or the reporter's, not both. A watchdog threshold may be any
  integer: `New` replaces it.
* `TrackersAssumption`: positive windows and limits; the fast-flux tracker
  replaces others by defaults (`fastflux.go:57-70`), and the ledger is
  built only for a positive window (`engine.go:214`) and defaults its limit
  (`nod.go:36`). The alerter does nothing without a positive threshold
  (`alert.go:154`) and defaults its window (`alert.go:122`); the limiter allows
  everything without a positive rate (`ratelimit.go:56`), and its idle limit
  of 10 s exceeds its window of 1 s (`ratelimit.go:13-15`), which is what keeps
  an eviction from handing out a second window; the cache defaults its size and
  retention (`cache.go:72-77`), and TTLs are unsigned. The ring of the metrics
  has ten slices (`query_metrics.go:39-40`, 58); the proof needs two.
* `ThreatAssumption`: at most two edits, the number the constructor sets
  (`detector.go:61`); a letter is taken for one letter, as every entry
  of the table of confusables is (`detector.go:305-320`); the labels of the list
  are made of letters.
* `PolicyAssumption`: a name has a label, and the policies an operator may write
  are of the type that `types.go` and the compiled schedule give them. It
  leaves IDs free: `EvaluationIsRight` itself says where it needs them to be unique.

### Along which argument

Hardly any of the invariants is inductive. What each proof adds:

* **Pool.** `SlotExclusive` needs to know that a goroutine that has a slot has a
  real one, and that a closing pool is closed (`OwnerInv`). That a connection in
  use is open, and that each socket has a slot, depend on the window in which a
  goroutine dials with the pool unlocked: its slot is still empty, its new
  connection is in no slot, and the number of its call, which names the
  connection, is no other's (`NumbersInv`, `ConnInv`). That answers match needs
  what is on the wire: between two calls nothing, within a call its question or
  its answer and no more, as long as no read timed out (`UdpInv`).
* **Log writer.** `LogInv`: an entry is in exactly one place, the stages of the
  shutdown come in order, and no worker has read a counter above what was
  counted. The refinement rests on the first: `Receive` leaves the backlog as it
  was, and the end of the loop's body takes one entry out of it. The exporter's
  (`UniqueInv`) is the same, with the queue as the end of the accepted events.
* **Pipeline.** `PipeInv`: for each query, what its history of reads tells of the
  stage it has reached. A name that was listed all along, and never explicitly
  allowed nor its lookup in error, is at the blocklist or the override check until
  it is sunk; one denied and unlisted all along gets no further than the policy
  check.
* **Policy store.** While requests come one at a time, one runs at most, and what
  it has listed is the table (`CalmInv`).
* **Policy engine.** The invariant is `EngineTypeOK`; the work is in the operators.
  After `i` turns, the loop of `pickHighestPriorityScoped` holds a candidate in
  scope that no candidate up to `i` supersedes, or none is in scope: induction on
  `i`, as the absence of a least counterexample, since the library's induction
  theorems are out of reach. The Bloom filter excludes no exact name, so that the
  first level with a hit is the rank of the policy it yields; with unique IDs
  the ranges kept under an ID are those of one policy. The length of a window
  is counted by a bijection between its instants and the pairs of a scheduled day
  and a minute of the window.
* **Blocklist store.** `BlockInv`: every copy of a row that somebody may write
  back is of a row that existed, and while no refresh of a source overlaps a
  request on it, the copy a refresh holds is the row but for its ETag.
* **Administration.** `PlaneInv`: while nothing fails or overlaps, one actor at
  most is busy and pushes the one half that differs from the store. `EngineInv`:
  each manager has one owner (the pointer, the apply that builds or closes it)
  and a query's failures so far are those its position and its retry counter
  tell. `TransferInv`, `HealthInv`, `DiskInv`, `SetupInv`, `StartInv`, `TokenInv`:
  what the reads taken so far have to do with the present tables.
* **Operations.** `PairInv`: up to its threshold a counter is the length of the
  latest run of equal probes, so that the probe that brings it there completes the
  run; the state of a node follows from its belief, and its belief has not reached
  the threshold at which it changes. `FleetInv`: the silence of a reporter is as
  long as its POST has waited, which the timeout bounds, and while no tick is due
  no longer than its ticker has counted since it last fired. `ToggleInv`: a request
  that nothing overlapped is alone at its switch and finds the entries as it left
  them. `ExportInv`: the accepted events are what a sink was offered, the one it
  waits for, and the queue.
* **Trackers.** `NodInv`: a domain that was never dropped has its true first sight
  in the ledger. `FluxInv`: the records of a domain are the last sights of the
  addresses its history shows in the window that ended when it was last asked
  for, so that pruning loses nothing a later window, which starts no earlier,
  could want. `AlertInv`: a hit since a client's last alert that the list no
  longer has is out of the window for good, whatever the order in which the
  handlers lock, because no time they read is ahead of the clock. `LimitInv`:
  while no call is late, the windows of a client are a second apart at least
  and number its admissions from 1 to `PerSec`, so two windows at most meet any
  second; a client without an entry had its last window a second ago or more.
  `CacheInv`: the list is in the order of use, without repetition, and each item
  is the last reply for its name until the lowest of its TTLs. `MetricInv`:
  while nothing raced, one handler at most rotates, to a slice nobody writes;
  a slice in use started as long ago as its place in the ring tells, and every
  record of the last window less a slice is in one. `LanInv`:
  before the leases are read, the ARP table that was read is the present one
  but for what moved since. `ThreatInv`: the verdict is the one
  the loop over the brands comes to; what that is worth is a matter of the edit
  distance. `TableFilled` shows that the two rolling rows are the rows of one
  table. The positions (i, j) of the two labels that `e` edits lead to are those
  where the table has `e` at most: an edit costs one and equal letters nothing,
  and the position nearest to the start with a number that no edits account for
  would have such a neighbour. Two such edits cut both labels in two pieces, each
  of them edited once (`NearIsStep`, `StepIsNear`), which is the definition of
  `WithinTwo`.

Every step lemma goes through the actions of its component one by one. In the
modules that compose several components a step of one leaves the invariants of
the others alone, and a lemma says so (`PartsStep`, `PartSteps`).

### Only model-checked

* All liveness: fairness and `ENABLED` are out of the prover's reach
  (`CallsReturn`, `WriterFinishes`, `QueryIsServed`, `DataplaneCatchesUp`,
  `PairSettles`, `FleetViewFollows`, `FeedTakesEffect`, and that `Close` of the
  exporter returns).

RECURSIVE operators are out of reach altogether, so the modules with theorems
have none; the recursions proved about (`BestSoFar`, `Row` and `Distance`) are
recursive functions. Induction is by least counterexample, with the library's
theorem that the order of the naturals is well founded.

## 5. Where the code and its comments part

Besides the three runs above, the modules define the following formulas. Each
says what a comment or a document promises, and TLC finds it violated by the
model of the code. They are in no passing run; adding one to its component's
cfg as an `INVARIANT` (or a `PROPERTY`, when it is an action formula) shows the
trace.

| formula | in | what the code does |
|---|---|---|
| `ClosedPoolHasNoSockets` | `UpstreamPool` | "Close shuts down the pool and closes all sockets" (`connections.go:123`); a dial that overlaps `Close` stores its connection afterwards (179-183) |
| `AnswersMatch` | `UpstreamPool` | message IDs are not compared (53): a reply that arrives after its deadline answers the next query |
| `SwapOnlyFailsQueries` | `EngineUpstream` | "may observe a closed pool and fail" (`engine.go:295`); `UDPClient.Exchange` on the nil connection panics (`connections.go:47`) |
| `CaseRandomizationKept` | `EngineUpstream` | `SetUpstreamResolvers` builds the manager without `WithDNS0x20` (`engine.go:301`) |
| `StatsExact` | `QueryLogWriter` | `IncrementCounter` is a read and a write without a transaction (`statistics_repo.go:46`), and there are two workers |
| `SwitchFollowsStore` | `PlaneSync` | two toggles persist in one order and push in the other (`dns.go:184`) |
| `StartAppliesStoredList` | `PlaneSync` | "applied on the next dataplane start" (`dns.go:257`); the dataplane reads resolvers from its configuration only (`engine.go:190`) |
| `DeletedStaysDeleted` | `BlocklistStore` | a refresh saves the row it read before the source was deleted (`repositories/blocklist.go:94`) |
| `TagAlwaysHasEntries` | `BlocklistStore` | a refresh and an edit that overlap leave an ETag without entries; every later fetch is answered 304 |
| `OneVersionBlocked` | `BlocklistStore` | the periodic refresh keeps the entries of older snapshots (`blocklist/engine.go:76`) |
| `SeedsOnlyNewInstall` | `BlocklistStore` | deleting the last source deletes its snapshots, so the next start seeds the bundle (`repositories/blocklist.go:70`) |
| `NoInternalAnswer` | `QueryPipeline` | answers are cached before the rebind filter (`engine.go:465`) and served stale without it |
| `OverrideBypassesOnlyBlocklist` | `QueryPipeline` | "This bypasses only the blocklist" (`engine.go:648`); the branch also skips the policy decision |
| `OverrideSkipsGeo` | `QueryPipeline` | the branch does run fast-flux and GeoIP (`engine.go:650`) |
| `ScopeRespected` | `PolicyEngine` | client ranges are keyed by policy ID (`snapshot.go:93`), which file and stored policies may share |
| `MutationsTakeEffect` | `PolicyStore` | two overlapping reloads may load in the other order (`policies.go:154`) |
| `PatchLeavesOthersUnchanged` | `PolicyStore` | a patch saves every column of the row it read (`repositories/policy.go:86`) |
| `FlagUsesLowestTTL` | `FastFlux` | "a minimum observed TTL"; the tracker keeps the latest TTL of an address |
| `FirstHitPrecedesAlert` | `DeviceAlerter` | handlers read the clock in one order and lock in the other |
| `BlocksIffOn` | `CategoryToggle` | failed and overlapping toggles leave entries of a switch that is off, or none of one that is on |
| `OncePerEpisode` | `Watchdog` | "at most once per sustained unhealthy episode" (`watchdog.go:35`); the counter restarts at zero after a recovery (172) |
| `AtMostOneActive` | `HAPair` | "Exactly one node is active" (`src/README.md:137`); in a partition, and right after the primary's restart, both are |
| `EmptyTurnsHealthOff` | `Settings` | "an empty value turn[s] the periodic monitor off" (`dataplane/main.go:244`); it is one hour (249) |
| `EnvTurnsOff` | `Settings` | "TYPOSQUAT_BLOCK (true/false)" (`configs/config.yaml:61`); `false` leaves what the file turned on (`config.go:409`) |
| `StartsWithAnyPeriod` | `Settings` | a negative refresh period is not caught (`dataplane/main.go:81`), and `NewTicker` panics |
| `CurrentIsCurrent` | `Licence` | "returns the current status" (`license.go:304`); it is that of the last start |
| `GraceIncludesItsEnd` | `Licence` | "expiry < now <= expiry+grace" (`license.go:165`); `Before` leaves the last instant out (180) |
| `ExportIsImportable` | `ConfigTransfer` | the embedded list's source is exported without an address, and refused by `validateConfig` |
| `RoundTripIsExact` | `ConfigTransfer` | "round-trips byte-for-byte" (`handlers/config.go:94`); a disabled policy is enabled by its import |
| `ExportIsOneState` | `ConfigTransfer` | "as a single versioned JSON document" (`handlers/config.go:80`); it may show no state the tables were ever in |
| `ImportReloads` | `PolicyStore` | "and reloads the engine" (`handlers/config.go:156`); the control plane's policy engine stays as it was |
| `ImportedIsFetched` | `BlocklistStore` | an import that enables a source again keeps the ETag of dropped entries; every fetch is answered 304 |
| `ImportedOffBlocksNothing` | `BlocklistStore` | an import that disables a source leaves its entries in force |
| `SetupIsComplete` | `AdminSetup` | a crash after the credential was stored leaves the chosen blocklists out, and setup cannot be repeated |
| `IdentityIsOneDevice` | `DeviceInventory` | an address shows the MAC of its new device and the name of its old one |
| `MACIsFromARP` | `DeviceInventory` | "ARP supplies MAC addresses; DHCP supplies hostnames (and MAC as a fallback)" (`inventory.go:194`); the lease wins |
| `BrandIsNeverFlagged` | `ThreatDetector` | "is never flagged" (`detector.go:396`); a brand within two edits of another one is |
| `OtherTLDIsSkipped` | `ThreatDetector` | "skip it" (`detector.go:428`); a brand with a digit is flagged under another suffix |

An exported policy carries no expressions, no schedule and no client scope
(`handlers/config.go:29-39`), so on another box it applies at all times and to
everybody; the model has no column for what the document leaves out.

Three more, read while modelling and visible in the models: the `Reporter` sends
no token and no site ID, so the fleet store refuses it, although its comment
says "so fleet views populate on boot" (`heartbeat.go:161`); the fleet's stale
limit is explained as "3x a 30s heartbeat interval" (`fleet/store.go:79`) while
the reporter's default interval is 60 s, at which one lost heartbeat is enough to
show a running site down, so nothing of that kind is claimed here; and the exporter's `Close` waits
without a limit for a TCP syslog peer that takes nothing, with the query log's
`Close` queued behind it.

## 6. What is not modelled

* The entropy, patterns and score of a name, the percentile estimate and the
  latency buckets: floating-point arithmetic or regular expressions on one
  input. `ThreatDetector` and the pipeline take the outcome as an input.
* GeoIP, TLS certificates, policy files, the catalogue and the list parsers:
  read once, or pure conversion of one input. Of the configuration, addresses,
  lists and the TLS section.
* Reports, analytics, anomalies, Prometheus, dashboard, routes: read-only views.
* TLS and HTTPS transports: one exchange is one answer or error.
* The webhook's POST of the alerter; flash wear in the disk status.
* Daylight saving: `schedule.go:127` converts to the policy's zone, which is a
  fixed offset in `PolicyEngine`; the length of a window on the day of a change is
  not covered.
* The agents of a fleet, which are not in the repository: their posts are external.
* A configuration that lists no upstream resolver: list 0 of `PlaneSync` is taken
  to have one. What a seeding that fails halfway stores keeps the number of the empty
  list before it.
* Generated gRPC code.

## 7. Plan

Done, in this order, the most used path first: the upstream pool and its
proofs; log writer; engine and upstream swap; plane synchronisation; blocklist
store; pipeline; policy engine and store; the trackers; the operational parts;
then configuration transfer (with its effect on policies, sources and the
planes), setup, the health monitors, settings, licence, inventory and the
detector.

Proved since: every safety property the runs check, and both refinements of
`AsyncSink`.

Left: to prove the formulas that describe what the handlers of the configuration
import leave alone in the policy and blocklist stores.
