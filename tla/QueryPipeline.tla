---------------------------- MODULE QueryPipeline ----------------------------
(* The query path of the dataplane: dnsengine.Engine.ProcessDNSQuery and
   forwardUpstream (internal/dnsengine/engine.go). Every query is one goroutine.
   Between its steps the tables it consults may change under it: the blocklist
   entries, the NRD feed and the policy snapshot are each read at a different
   moment, and the NOD ledger and the serve-stale answer cache are shared with
   the other queries.

   Data is abstracted to what the decisions tell apart. An upstream answer is
   the set of kinds of record it carries: "internal" (an A/AAAA record with a
   private, loopback, link-local or unspecified address), "foreign" (one whose
   network the GeoIP filter lists) and "public" (any other record). What the
   policy engine says of a name is a pair: the action Evaluate returns, and
   whether IsExplicitlyAllowed holds; PolicyEngine shows which pairs occur. *)
EXTENDS Naturals, FiniteSets

CONSTANTS
  Queries,      \* goroutines serving a query
  Names,        \* domain names asked for
  Asks,         \* the questions clients send, see AskType
  Configs       \* the dataplane configurations considered, see ConfigType

Records  == {"public", "internal", "foreign"}
Answers  == SUBSET Records
NoAnswer == {"none"}           \* no entry in the cache

(* Detector.Analyze: "clean", "mild" (suspicious), "high" (suspicious, at or
   above the block threshold) or "squat" (suspicious, in typosquat block mode). *)
AskType == [name : Names, addr : BOOLEAN, abusedTLD : BOOLEAN, safeTarget : BOOLEAN,
            threat : {"clean", "mild", "high", "squat"}]

ConfigType == [nrdBlock : BOOLEAN, threat : {"off", "dryRun", "block"}, tlds : BOOLEAN,
               safeSearch : BOOLEAN, nod : {"off", "flag", "block"}, rebind : BOOLEAN,
               geo : {"off", "flag", "block"}, fastFlux : BOOLEAN, stale : BOOLEAN]

ASSUME PipelineAssumption == Asks \subseteq AskType /\ Configs \subseteq ConfigType

Verdict(d, e) == [decision |-> d, explicit |-> e]
Verdicts == {Verdict("none", FALSE), Verdict("allow", TRUE)}
              \cup {Verdict(d, e) : d \in {"deny", "redirect"}, e \in BOOLEAN}

VARIABLES
  cfg,          \* the configuration the process runs with
  listed,       \* names with an entry in blocklist_entries
  nrd,          \* names on the newly-registered-domain feed
  verdict,      \* what the loaded policy snapshot says of each name
  ledger,       \* nodLedger: "unseen", "new" (inside the window) or "old"
  cache,        \* answerCache: the answer kept for a name, or NoAnswer
  pc, ask,      \* per query: next step, question
  override,     \* the allow-override branch was taken
  nrdListed, hasPolicy, suspicious,      \* locals of ProcessDNSQuery
  outcome,      \* the forwardOutcome
  response,     \* what was written to the client
  logged,       \* the action and reason handed to logQuery
  hist          \* history: facts that held at some moment of the query

envVars   == <<cfg, listed, nrd, verdict>>
localVars == <<ask, override, nrdListed, hasPolicy, suspicious>>
vars      == <<envVars, ledger, cache, pc, localVars, outcome, response, logged, hist>>

Labels == {"idle", "blocklist", "override", "nrd", "policy", "allow", "forward", "log", "done"}
Running(q) == pc[q] \notin {"idle", "done"}

NoOutcome  == [fastFlux |-> FALSE, geoMatched |-> FALSE, geoBlocked |-> FALSE]
NoResponse == [kind |-> "none", records |-> {}, stale |-> FALSE]
NotLogged  == [action |-> "none", reason |-> "none"]

Response(k)   == [NoResponse EXCEPT !.kind = k]
Answer(rs, s) == [kind |-> "answer", records |-> rs, stale |-> s]

(* The facts about a name that decide whether it may be answered. *)
Facts(n, l, v) ==
  {IF n \in l THEN "listed" ELSE "unlisted"}
    \cup (IF v[n].explicit THEN {"explicit"} ELSE {})
    \cup (IF v[n].decision = "deny" THEN {} ELSE {"notDenied"})

Init ==
  /\ cfg \in Configs
  /\ listed = {} /\ nrd = {}
  /\ verdict = [n \in Names |-> Verdict("none", FALSE)]
  /\ ledger = [n \in Names |-> "unseen"]
  /\ cache = [n \in Names |-> NoAnswer]
  /\ pc = [q \in Queries |-> "idle"]
  /\ ask \in [Queries -> Asks]
  /\ override = [q \in Queries |-> FALSE]
  /\ nrdListed = [q \in Queries |-> FALSE]
  /\ hasPolicy = [q \in Queries |-> FALSE]
  /\ suspicious = [q \in Queries |-> FALSE]
  /\ outcome = [q \in Queries |-> NoOutcome]
  /\ response = [q \in Queries |-> NoResponse]
  /\ logged = [q \in Queries |-> NotLogged]
  /\ hist = [q \in Queries |-> {}]

-----------------------------------------------------------------------------
(* How a query ends or goes on. *)
At(q, label)   == pc[q] = label
Goto(q, label) == pc' = [pc EXCEPT ![q] = label]
Respond(q, r)  == response' = [response EXCEPT ![q] = r]
LogQuery(q, action, reason) ==
  logged' = [logged EXCEPT ![q] = [action |-> action, reason |-> reason]]

(* logQuery(..., "block", why) and respondBlocked: the 0.0.0.0 / :: answer. *)
Block(q, why) ==
  /\ LogQuery(q, "block", why)
  /\ Respond(q, Response("sinkhole"))
  /\ Goto(q, "done")

(* A query arrives: it is refused when queries are switched off or the client is
   over its rate limit, without a log record; otherwise the checks begin. *)
Receive(q, a, refused) ==
  /\ ~Running(q)
  /\ ask' = [ask EXCEPT ![q] = a]
  /\ IF refused
       THEN Goto(q, "done") /\ Respond(q, Response("refused"))
       ELSE Goto(q, "blocklist") /\ Respond(q, NoResponse)
  /\ override' = [override EXCEPT ![q] = FALSE]
  /\ nrdListed' = [nrdListed EXCEPT ![q] = FALSE]
  /\ hasPolicy' = [hasPolicy EXCEPT ![q] = FALSE]
  /\ suspicious' = [suspicious EXCEPT ![q] = a.threat # "clean"]
  /\ outcome' = [outcome EXCEPT ![q] = NoOutcome]
  /\ logged' = [logged EXCEPT ![q] = NotLogged]
  /\ hist' = [hist EXCEPT ![q] = Facts(a.name, listed, verdict)]
  /\ UNCHANGED <<envVars, ledger, cache>>

-----------------------------------------------------------------------------
(* Step 1: blocklist.IsBlocked. An error is logged and the query goes on. *)
IsBlocked(q) == ask[q].name \in listed

CheckBlocklist(q) ==
  /\ At(q, "blocklist")
  /\ Goto(q, IF IsBlocked(q) THEN "override" ELSE "nrd")
  /\ UNCHANGED <<envVars, ledger, cache, localVars, outcome, response, logged, hist>>

BlocklistErr(q) ==
  /\ At(q, "blocklist")
  /\ Goto(q, "nrd")
  /\ hist' = [hist EXCEPT ![q] = @ \cup {"lookupErr"}]
  /\ UNCHANGED <<envVars, ledger, cache, localVars, outcome, response, logged>>

(* A listed name is forwarded when IsExplicitlyAllowed, and sunk otherwise. *)
IsExplicitlyAllowed(q) == verdict[ask[q].name].explicit

CheckOverride(q) ==
  /\ At(q, "override")
  /\ \/ /\ IsExplicitlyAllowed(q)
        /\ override' = [override EXCEPT ![q] = TRUE]
        /\ LogQuery(q, "allow", "allow-override")
        /\ Goto(q, "forward")
        /\ UNCHANGED response
     \/ /\ ~IsExplicitlyAllowed(q)
        /\ Block(q, "blocklist")
        /\ UNCHANGED override
  /\ UNCHANGED <<envVars, ledger, cache, ask, nrdListed, hasPolicy, suspicious, outcome, hist>>

(* Step 1.5: the NRD feed. *)
CheckNRD(q) ==
  /\ At(q, "nrd")
  /\ nrdListed' = [nrdListed EXCEPT ![q] = ask[q].name \in nrd]
  /\ IF nrdListed'[q] /\ cfg.nrdBlock
       THEN Block(q, "nrd")
       ELSE Goto(q, "policy") /\ UNCHANGED <<response, logged>>
  /\ UNCHANGED <<envVars, ledger, cache, ask, override, hasPolicy, suspicious, outcome, hist>>

-----------------------------------------------------------------------------
(* Step 2: policyEngine.Evaluate. A redirect whose address does not parse is
   answered SERVFAIL by respondRedirect, and still logged as a redirect. *)
Denies_LogOnly(d) == FALSE
Denies(d) == d = "deny"

EvaluatePolicy(q) ==
  LET d == verdict[ask[q].name].decision IN
  /\ At(q, "policy")
  /\ \/ /\ Denies(d)
        /\ Block(q, "policy")
        /\ UNCHANGED hasPolicy
     \/ /\ d = "redirect"
        /\ LogQuery(q, "redirect", "policy")
        /\ \E k \in {"redirect", "servfail"} : Respond(q, Response(k))
        /\ Goto(q, "done")
        /\ UNCHANGED hasPolicy
     \/ /\ ~Denies(d) /\ d # "redirect"
        /\ hasPolicy' = [hasPolicy EXCEPT ![q] = (d # "none")]
        /\ Goto(q, "allow")
        /\ UNCHANGED <<response, logged>>
  /\ UNCHANGED <<envVars, ledger, cache, ask, override, nrdListed, suspicious, outcome, hist>>

(* The allow path: threat enforcement, then the abused-TLD block (only when no
   policy matched), then SafeSearch, each only when the ones before let pass. *)
ThreatHit(q) == cfg.threat = "block" /\ ask[q].threat = "high"
TLDHit(q)    == ~ThreatHit(q) /\ cfg.tlds /\ ~hasPolicy[q] /\ ask[q].abusedTLD
SafeHit(q)   == ~ThreatHit(q) /\ ~TLDHit(q) /\ cfg.safeSearch /\ ask[q].safeTarget

AllowPathBlock(q) ==
  /\ At(q, "allow")
  /\ \/ ThreatHit(q) /\ Block(q, "threat")
     \/ TLDHit(q) /\ Block(q, "abused-tld")
  /\ UNCHANGED <<envVars, ledger, cache, localVars, outcome, hist>>

SafeSearch(q) ==
  /\ At(q, "allow") /\ SafeHit(q)
  /\ LogQuery(q, "allow", "none")
  /\ Respond(q, Response("safesearch"))
  /\ Goto(q, "done")
  /\ UNCHANGED <<envVars, ledger, cache, localVars, outcome, hist>>

(* nodLedger.observe: a name is new on first sight and inside its window. *)
ObserveNew(q) == cfg.nod # "off" /\ ledger[ask[q].name] # "old"

(* The ledger records the name; a new one is sunk in block mode and marked
   suspicious otherwise; a typosquat in block mode is sunk. *)
Observe(q) ==
  /\ At(q, "allow") /\ ~ThreatHit(q) /\ ~TLDHit(q) /\ ~SafeHit(q)
  /\ ledger' = IF ObserveNew(q) THEN [ledger EXCEPT ![ask[q].name] = "new"] ELSE ledger
  /\ \/ /\ ObserveNew(q) /\ cfg.nod = "block"
        /\ Block(q, "nod")
        /\ UNCHANGED suspicious
     \/ /\ ~(ObserveNew(q) /\ cfg.nod = "block")
        /\ suspicious' = [suspicious EXCEPT ![q] = @ \/ ObserveNew(q)]
        /\ IF ask[q].threat = "squat"
             THEN Block(q, "typosquat")
             ELSE Goto(q, "forward") /\ UNCHANGED <<response, logged>>
  /\ UNCHANGED <<envVars, cache, ask, override, nrdListed, hasPolicy, outcome, hist>>

-----------------------------------------------------------------------------
(* forwardUpstream. After an answer: answerCache.Put of a copy (when serve-stale
   is on, the rcode is success and the answer has records with a TTL), the
   fast-flux tracker, filterRebind, the GeoIP filter and the write. *)
PutStores(ans, put) == cfg.stale /\ put /\ ans # {}

FilterRebind_Off(ans) == ans
FilterRebind(ans) == IF cfg.rebind THEN ans \ {"internal"} ELSE ans

SunkByRebind(q, ans) == FilterRebind(ans) # ans /\ FilterRebind(ans) = {} /\ ask[q].addr
GeoMatches(ans) == cfg.geo # "off" /\ "foreign" \in FilterRebind(ans)

(* Where a forwarded query goes: only the normal allow path logs afterwards. *)
AfterForward(q) == IF override[q] THEN "done" ELSE "log"

ExchangeOK(q, ans, put, flux) ==
  LET geo == ~SunkByRebind(q, ans) /\ GeoMatches(ans) IN
  /\ At(q, "forward")
  /\ flux => cfg.fastFlux /\ ans # {}
  /\ cache' = IF PutStores(ans, put) THEN [cache EXCEPT ![ask[q].name] = ans] ELSE cache
  /\ outcome' = [outcome EXCEPT ![q] =
                   [fastFlux |-> flux, geoMatched |-> geo,
                    geoBlocked |-> geo /\ cfg.geo = "block"]]
  /\ Respond(q, IF SunkByRebind(q, ans) \/ outcome'[q].geoBlocked
                  THEN Response("sinkhole") ELSE Answer(FilterRebind(ans), FALSE))
  /\ Goto(q, AfterForward(q))
  /\ UNCHANGED <<envVars, ledger, localVars, logged, hist>>

(* The exchange failed: a cached answer if serve-stale has one, else SERVFAIL. *)
AfterFailure_NotLogged(q) == "idle"
AfterFailure(q) == AfterForward(q)

ExchangeErr(q) ==
  LET n == ask[q].name IN
  /\ At(q, "forward")
  /\ Respond(q, IF cfg.stale /\ cache[n] # NoAnswer THEN Answer(cache[n], TRUE)
                ELSE Response("servfail"))
  /\ Goto(q, AfterFailure(q))
  /\ UNCHANGED <<envVars, ledger, cache, localVars, outcome, logged, hist>>

(* The log record of a forwarded query: the GeoIP verdict last, then fast-flux,
   then what was suspicious before the query was forwarded. *)
LogAction_FlagOnly(q) ==
  IF outcome[q].fastFlux \/ suspicious[q] \/ nrdListed[q] \/ outcome[q].geoMatched
    THEN "flagged" ELSE "allow"
LogAction(q) ==
  CASE outcome[q].geoBlocked -> "block"
    [] ~outcome[q].geoBlocked
         /\ (outcome[q].geoMatched \/ outcome[q].fastFlux \/ suspicious[q] \/ nrdListed[q])
         -> "flagged"
    [] OTHER -> "allow"

LogForwarded(q) ==
  /\ At(q, "log")
  /\ LogQuery(q, LogAction(q), "forwarded")
  /\ Goto(q, "done")
  /\ UNCHANGED <<envVars, ledger, cache, localVars, outcome, response, hist>>

-----------------------------------------------------------------------------
(* Around the queries: entries come and go (control plane, refresher), the NRD
   feed is refreshed, the policy snapshot is replaced, the NOD window of a name
   passes or the ledger evicts it, and the answer cache drops an entry (age or
   LRU eviction). *)
Note(l, v) ==
  hist' = [q \in Queries |-> IF Running(q) THEN hist[q] \cup Facts(ask[q].name, l, v)
                             ELSE hist[q]]

ChangeBlocklist(n) ==
  /\ listed' = IF n \in listed THEN listed \ {n} ELSE listed \cup {n}
  /\ Note(listed', verdict)
  /\ UNCHANGED <<cfg, nrd, verdict, ledger, cache, pc, localVars, outcome, response, logged>>

ChangeNRD(n) ==
  /\ nrd' = IF n \in nrd THEN nrd \ {n} ELSE nrd \cup {n}
  /\ UNCHANGED <<cfg, listed, verdict, ledger, cache, pc, localVars, outcome, response,
                 logged, hist>>

ReloadPolicies(n, v) ==
  /\ verdict' = [verdict EXCEPT ![n] = v]
  /\ Note(listed, verdict')
  /\ UNCHANGED <<cfg, listed, nrd, ledger, cache, pc, localVars, outcome, response, logged>>

LedgerAges(n) ==
  /\ ledger[n] # "unseen"
  /\ \E s \in {"old", "unseen"} : ledger' = [ledger EXCEPT ![n] = s]
  /\ UNCHANGED <<envVars, cache, pc, localVars, outcome, response, logged, hist>>

CacheDrops(n) ==
  /\ cache[n] # NoAnswer
  /\ cache' = [cache EXCEPT ![n] = NoAnswer]
  /\ UNCHANGED <<envVars, ledger, pc, localVars, outcome, response, logged, hist>>

QueryStep(q) ==
  \/ CheckBlocklist(q) \/ BlocklistErr(q) \/ CheckOverride(q) \/ CheckNRD(q)
  \/ EvaluatePolicy(q) \/ AllowPathBlock(q) \/ SafeSearch(q) \/ Observe(q)
  \/ \E ans \in Answers, put, flux \in BOOLEAN : ExchangeOK(q, ans, put, flux)
  \/ ExchangeErr(q) \/ LogForwarded(q)

Next ==
  \/ \E q \in Queries : QueryStep(q) \/ \E a \in Asks, refused \in BOOLEAN : Receive(q, a, refused)
  \/ \E n \in Names : \/ ChangeBlocklist(n) \/ ChangeNRD(n) \/ LedgerAges(n) \/ CacheDrops(n)
                      \/ \E v \in Verdicts : ReloadPolicies(n, v)

Spec == Init /\ [][Next]_vars

(* A handler goroutine runs until it returns: the lookups end, and the upstream
   exchange ends by its deadlines (EngineUpstream!QueryReturns). *)
FairSpec == Spec /\ \A q \in Queries : WF_vars(QueryStep(q))

-----------------------------------------------------------------------------
(* Every variable has its type; the answer cache holds no empty answer. *)
TypeOK ==
  /\ cfg \in Configs
  /\ listed \subseteq Names /\ nrd \subseteq Names
  /\ verdict \in [Names -> Verdicts]
  /\ ledger \in [Names -> {"unseen", "new", "old"}]
  /\ cache \in [Names -> (Answers \ {{}}) \cup {NoAnswer}]
  /\ pc \in [Queries -> Labels] /\ ask \in [Queries -> Asks]
  /\ override \in [Queries -> BOOLEAN] /\ nrdListed \in [Queries -> BOOLEAN]
  /\ hasPolicy \in [Queries -> BOOLEAN] /\ suspicious \in [Queries -> BOOLEAN]
  /\ outcome \in [Queries -> [fastFlux : BOOLEAN, geoMatched : BOOLEAN, geoBlocked : BOOLEAN]]
  /\ response \in [Queries -> [kind : {"none", "refused", "sinkhole", "redirect", "servfail",
                                       "safesearch", "answer"},
                               records : Answers, stale : BOOLEAN]]
  /\ logged \in [Queries -> [action : {"none", "allow", "block", "redirect", "flagged"},
                             reason : {"none", "allow-override", "blocklist", "nrd", "policy",
                                       "threat", "abused-tld", "nod", "typosquat", "forwarded"}]]
  /\ hist \in [Queries -> SUBSET {"listed", "unlisted", "explicit", "notDenied", "lookupErr"}]

Served(q) == At(q, "done") /\ response[q].kind # "refused"
Sunk(q)   == response[q].kind = "sinkhole"

(* A name that was on the blocklist for as long as the query ran is answered
   0.0.0.0, whatever else changes meanwhile, unless an ALLOW policy matched it
   at some moment of the query or the lookup failed. *)
ListedIsSunk ==
  \A q \in Queries :
    Served(q) /\ hist[q] \cap {"unlisted", "explicit", "lookupErr"} = {} => Sunk(q)

(* A name that a BLOCK policy decided for as long as the query ran, and that
   was never on the blocklist meanwhile, is answered 0.0.0.0. *)
DeniedIsSunk ==
  \A q \in Queries :
    Served(q) /\ hist[q] \cap {"notDenied", "listed"} = {} => Sunk(q)

(* No change of the lists or the policies under a running query opens a name
   that is blocked before and after it. *)
BlockedIsSunk == ListedIsSunk /\ DeniedIsSunk

(* The query log tells what the client got. A "block" record means 0.0.0.0 was
   written; 0.0.0.0 without one comes from rebind protection, or from the GeoIP
   filter on the allow-override path, the two that do not reach the record. *)
LogMatchesResponse ==
  \A q \in Queries : Served(q) =>
    /\ logged[q].action # "none"
    /\ logged[q].action = "block" => Sunk(q)
    /\ Sunk(q) /\ logged[q].action # "block" =>
         IF outcome[q].geoBlocked THEN override[q] ELSE cfg.rebind /\ ask[q].addr

(* No answer fetched for this query carries an internal address past rebind
   protection, or a listed network past the GeoIP filter in block mode. *)
FreshAnswersAreFiltered ==
  \A q \in Queries : response[q].kind = "answer" /\ ~response[q].stale =>
    /\ cfg.rebind => "internal" \notin response[q].records
    /\ cfg.geo = "block" => "foreign" \notin response[q].records

(* Nothing that is blocked reaches a client: neither a blocked name nor, in an
   answer fetched for it, a blocked address. *)
BlockedStaysOut == BlockedIsSunk /\ FreshAnswersAreFiltered

(* Every accepted query is answered and logged. *)
QueryIsServed == \A q \in Queries : Running(q) ~> At(q, "done")

-----------------------------------------------------------------------------
(* What comments in the repository say, and the code does not do. *)

(* "Reject upstream answers that map a public name to a private/loopback/
   link-local IP": with rebind protection on, no client gets an internal
   address. A stale answer is served from the unfiltered copy in the cache. *)
NoInternalAnswer ==
  \A q \in Queries : cfg.rebind => "internal" \notin response[q].records

(* "This bypasses only the blocklist": a name that a BLOCK policy decides
   throughout the query is sunk, on the blocklist or not. The allow-override
   branch returns before Evaluate is called. *)
OverrideBypassesOnlyBlocklist ==
  \A q \in Queries : Served(q) /\ "notDenied" \notin hist[q] => Sunk(q)

(* "it does not re-run the downstream detectors (... fast-flux/GeoIP)": an
   allow-override answer is not subject to the GeoIP filter. *)
OverrideSkipsGeo == \A q \in Queries : override[q] => ~outcome[q].geoBlocked
=============================================================================
