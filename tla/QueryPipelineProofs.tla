------------------------- MODULE QueryPipelineProofs -------------------------
(***************************************************************************)
(* Safety of QueryPipeline for any number of queries, names and            *)
(* configurations. The properties speak of finished queries: PathInv says  *)
(* where a running query of a blocked name can be, and RecordInv what the  *)
(* log record of a running query will have to match.                       *)
(***************************************************************************)
EXTENDS QueryPipeline, TLAPS

-----------------------------------------------------------------------------
Responses == [kind : {"none", "refused", "sinkhole", "redirect", "servfail", "safesearch", "answer"},
              records : Answers, stale : BOOLEAN]
Outcomes  == [fastFlux : BOOLEAN, geoMatched : BOOLEAN, geoBlocked : BOOLEAN]
LogRecords == [action : {"none", "allow", "block", "redirect", "flagged"},
               reason : {"none", "allow-override", "blocklist", "nrd", "policy",
                         "threat", "abused-tld", "nod", "typosquat", "forwarded"}]
AllFacts == {"listed", "unlisted", "explicit", "notDenied", "lookupErr"}

(* What is written and logged has its type. *)
LEMMA RecordTypes ==
  /\ \A k \in {"none", "refused", "sinkhole", "redirect", "servfail", "safesearch", "answer"} :
       Response(k) \in Responses /\ Response(k).kind = k
  /\ \A rs \in Answers, s \in BOOLEAN :
       /\ Answer(rs, s) \in Responses /\ Answer(rs, s).kind = "answer"
       /\ Answer(rs, s).records = rs /\ Answer(rs, s).stale = s
  /\ NoResponse \in Responses /\ NoResponse.kind = "none" /\ NoOutcome \in Outcomes
  /\ ~NoOutcome.geoBlocked /\ NotLogged \in LogRecords
  /\ \A n, l, v : Facts(n, l, v) \subseteq AllFacts
<1>1. NoResponse \in Responses /\ NoResponse.kind = "none"
  BY DEF NoResponse, Responses, Answers, Records
<1>2. \A k \in {"none", "refused", "sinkhole", "redirect", "servfail", "safesearch", "answer"} :
        Response(k) \in Responses /\ Response(k).kind = k
  BY DEF Response, NoResponse, Responses, Answers, Records
<1>3. \A rs \in Answers, s \in BOOLEAN :
        /\ Answer(rs, s) \in Responses /\ Answer(rs, s).kind = "answer"
        /\ Answer(rs, s).records = rs /\ Answer(rs, s).stale = s
  BY DEF Answer, Responses
<1>4. NoOutcome \in Outcomes /\ ~NoOutcome.geoBlocked /\ NotLogged \in LogRecords
  BY DEF NoOutcome, Outcomes, NotLogged, LogRecords
<1>5. \A n, l, v : Facts(n, l, v) \subseteq AllFacts
  BY DEF Facts, AllFacts
<1>6. QED
  BY <1>1, <1>2, <1>3, <1>4, <1>5

(* Every lookup, verdict, exchange and reload preserves the types. *)
LEMMA TypeStep == TypeOK /\ [Next]_vars => TypeOK'
<1> SUFFICES ASSUME TypeOK, [Next]_vars PROVE TypeOK'
  OBVIOUS
<1>0. /\ Asks \subseteq AskType /\ Configs \subseteq ConfigType
      /\ response \in [Queries -> Responses] /\ outcome \in [Queries -> Outcomes]
      /\ logged \in [Queries -> LogRecords] /\ hist \in [Queries -> SUBSET AllFacts]
  BY PipelineAssumption DEF TypeOK, Responses, Outcomes, LogRecords, AllFacts
<1>T. ASSUME /\ response' \in [Queries -> Responses] /\ outcome' \in [Queries -> Outcomes]
             /\ logged' \in [Queries -> LogRecords] /\ hist' \in [Queries -> SUBSET AllFacts]
      PROVE  /\ response' \in [Queries -> [kind : {"none", "refused", "sinkhole", "redirect", "servfail",
                                       "safesearch", "answer"},
                               records : Answers, stale : BOOLEAN]]
             /\ outcome' \in [Queries -> [fastFlux : BOOLEAN, geoMatched : BOOLEAN, geoBlocked : BOOLEAN]]
             /\ logged' \in [Queries -> [action : {"none", "allow", "block", "redirect", "flagged"},
                             reason : {"none", "allow-override", "blocklist", "nrd", "policy",
                                       "threat", "abused-tld", "nod", "typosquat", "forwarded"}]]
             /\ hist' \in [Queries -> SUBSET {"listed", "unlisted", "explicit", "notDenied", "lookupErr"}]
  BY <1>T DEF Responses, Outcomes, LogRecords, AllFacts
<1> DEFINE Core == /\ cfg \in Configs
                   /\ listed \subseteq Names /\ nrd \subseteq Names
                   /\ verdict \in [Names -> Verdicts]
                   /\ ledger \in [Names -> {"unseen", "new", "old"}]
                   /\ cache \in [Names -> (Answers \ {{}}) \cup {NoAnswer}]
                   /\ pc \in [Queries -> Labels] /\ ask \in [Queries -> Asks]
                   /\ override \in [Queries -> BOOLEAN] /\ nrdListed \in [Queries -> BOOLEAN]
                   /\ hasPolicy \in [Queries -> BOOLEAN] /\ suspicious \in [Queries -> BOOLEAN]
           Shown == /\ response \in [Queries -> Responses] /\ outcome \in [Queries -> Outcomes]
                    /\ logged \in [Queries -> LogRecords] /\ hist \in [Queries -> SUBSET AllFacts]
           Typed == Core /\ Shown
<1>S. Typed' => TypeOK'
  BY <1>T DEF TypeOK
<1>C. Typed
  BY <1>0 DEF TypeOK
<1>N. \A q \in Queries : ask[q].name \in Names
  BY <1>0, <1>C DEF AskType
<1> USE DEF envVars, localVars, At, Goto, Respond, LogQuery, Labels
<1>B. ASSUME NEW q \in Queries,
             NEW why \in {"blocklist", "nrd", "policy", "threat", "abused-tld", "nod", "typosquat"},
             Block(q, why)
      PROVE  /\ logged' \in [Queries -> LogRecords] /\ response' \in [Queries -> Responses]
             /\ pc' \in [Queries -> Labels]
  BY <1>B, <1>C, RecordTypes DEF Block, LogRecords
<1>L. ASSUME NEW q \in Queries, NEW action \in {"allow", "redirect"},
             NEW reason \in {"allow-override", "policy"}, LogQuery(q, action, reason)
      PROVE  logged' \in [Queries -> LogRecords]
  BY <1>L, <1>C DEF LogRecords
<1>1. ASSUME NEW q \in Queries, NEW a \in Asks, NEW refused \in BOOLEAN, Receive(q, a, refused)
      PROVE  Typed'
  <2>1. hist' \in [Queries -> SUBSET AllFacts] /\ outcome' \in [Queries -> Outcomes]
    BY <1>1, <1>C, RecordTypes DEF Receive
  <2>2. response' \in [Queries -> Responses] /\ logged' \in [Queries -> LogRecords]
    BY <1>1, <1>C, RecordTypes DEF Receive
  <2>3. QED
    BY <1>1, <1>C, <2>1, <2>2 DEF Receive
<1>2. ASSUME NEW q \in Queries, CheckBlocklist(q) PROVE Typed'
  BY <1>2, <1>C DEF CheckBlocklist
<1>3. ASSUME NEW q \in Queries, BlocklistErr(q) PROVE Typed'
  BY <1>3, <1>C DEF BlocklistErr, AllFacts
<1>4. ASSUME NEW q \in Queries, CheckOverride(q) PROVE Typed'
  <2>1. CASE Block(q, "blocklist") /\ UNCHANGED override
    BY <1>4, <1>B, <1>C, <2>1 DEF CheckOverride
  <2>2. CASE /\ override' = [override EXCEPT ![q] = TRUE] /\ LogQuery(q, "allow", "allow-override")
             /\ Goto(q, "forward") /\ UNCHANGED response
    BY <1>4, <1>L, <1>C, <2>2 DEF CheckOverride
  <2>3. QED
    BY <1>4, <2>1, <2>2 DEF CheckOverride
<1>5. ASSUME NEW q \in Queries, CheckNRD(q) PROVE Typed'
  BY <1>5, <1>B, <1>C DEF CheckNRD
<1>6. ASSUME NEW q \in Queries, EvaluatePolicy(q) PROVE Typed'
  <2>1. response' \in [Queries -> Responses] /\ logged' \in [Queries -> LogRecords]
        /\ pc' \in [Queries -> Labels]
    <3>1. CASE Block(q, "policy")
      BY <1>B, <3>1
    <3>2. CASE /\ LogQuery(q, "redirect", "policy") /\ Goto(q, "done")
               /\ \E k \in {"redirect", "servfail"} : Respond(q, Response(k))
      <4>1. PICK k \in {"redirect", "servfail"} : response' = [response EXCEPT ![q] = Response(k)]
        BY <3>2
      <4>2. Response(k) \in Responses
        BY RecordTypes
      <4>3. response' \in [Queries -> Responses]
        BY <1>C, <4>1, <4>2
      <4>4. QED
        BY <1>L, <1>C, <3>2, <4>3
    <3>3. CASE Goto(q, "allow") /\ UNCHANGED <<response, logged>>
      BY <1>C, <3>3
    <3>4. QED
      BY <1>6, <3>1, <3>2, <3>3 DEF EvaluatePolicy
  <2>2. QED
    BY <1>6, <1>C, <2>1 DEF EvaluatePolicy
<1>7. ASSUME NEW q \in Queries, AllowPathBlock(q) PROVE Typed'
  BY <1>7, <1>B, <1>C DEF AllowPathBlock
<1>8. ASSUME NEW q \in Queries, SafeSearch(q) PROVE Typed'
  BY <1>8, <1>C, RecordTypes DEF SafeSearch, LogRecords
<1>9. ASSUME NEW q \in Queries, Observe(q) PROVE Typed'
  <2>1. ledger' \in [Names -> {"unseen", "new", "old"}] /\ suspicious' \in [Queries -> BOOLEAN]
    BY <1>9, <1>C, <1>N DEF Observe
  <2>2. response' \in [Queries -> Responses] /\ logged' \in [Queries -> LogRecords]
        /\ pc' \in [Queries -> Labels]
    BY <1>9, <1>B, <1>C DEF Observe
  <2>3. QED
    BY <1>9, <1>C, <2>1, <2>2 DEF Observe
<1>10. ASSUME NEW q \in Queries, NEW ans \in Answers, NEW put \in BOOLEAN, NEW flux \in BOOLEAN,
              ExchangeOK(q, ans, put, flux)
       PROVE  Typed'
  <2>1. cache' \in [Names -> (Answers \ {{}}) \cup {NoAnswer}]
    BY <1>10, <1>C, <1>N DEF ExchangeOK, PutStores
  <2>2. outcome' \in [Queries -> Outcomes]
    BY <1>10, <1>C DEF ExchangeOK, Outcomes, SunkByRebind, GeoMatches
  <2>3. FilterRebind(ans) \in Answers
    BY DEF FilterRebind, Answers
  <2>4. response' \in [Queries -> Responses]
    BY <1>10, <1>C, <2>3, RecordTypes DEF ExchangeOK
  <2>5. QED
    BY <1>10, <1>C, <2>1, <2>2, <2>4 DEF ExchangeOK, AfterForward
<1>11. ASSUME NEW q \in Queries, ExchangeErr(q) PROVE Typed'
  <2>1. response' \in [Queries -> Responses]
    <3>1. cache[ask[q].name] # NoAnswer => cache[ask[q].name] \in Answers
      BY <1>C, <1>N
    <3>2. CASE cfg.stale /\ cache[ask[q].name] # NoAnswer
      BY <1>11, <1>C, <3>1, <3>2, RecordTypes DEF ExchangeErr
    <3>3. CASE ~(cfg.stale /\ cache[ask[q].name] # NoAnswer)
      BY <1>11, <1>C, <3>3, RecordTypes DEF ExchangeErr
    <3>4. QED
      BY <3>2, <3>3
  <2>2. QED
    BY <1>11, <1>C, <2>1 DEF ExchangeErr, AfterFailure, AfterForward
<1>12. ASSUME NEW q \in Queries, LogForwarded(q) PROVE Typed'
  BY <1>12, <1>C DEF LogForwarded, LogAction, LogRecords
<1>13. ASSUME NEW l, NEW v, Note(l, v) PROVE hist' \in [Queries -> SUBSET AllFacts]
  BY <1>13, <1>C, RecordTypes DEF Note
<1>14. ASSUME NEW n \in Names, ChangeBlocklist(n) PROVE Typed'
  BY <1>14, <1>13, <1>C DEF ChangeBlocklist
<1>15. ASSUME NEW n \in Names, ChangeNRD(n) PROVE Typed'
  BY <1>15, <1>C DEF ChangeNRD
<1>16. ASSUME NEW n \in Names, NEW v \in Verdicts, ReloadPolicies(n, v) PROVE Typed'
  BY <1>16, <1>13, <1>C DEF ReloadPolicies
<1>17. ASSUME NEW n \in Names, LedgerAges(n) \/ CacheDrops(n) PROVE Typed'
  BY <1>17, <1>C DEF LedgerAges, CacheDrops
<1>18. ASSUME UNCHANGED vars PROVE Typed'
  BY <1>18, <1>C DEF vars
<1> HIDE DEF Typed
<1>19. QED
  BY <1>S, <1>1, <1>2, <1>3, <1>4, <1>5, <1>6, <1>7, <1>8, <1>9, <1>10, <1>11, <1>12, <1>14,
     <1>15, <1>16, <1>17, <1>18
     DEF Next, QueryStep

-----------------------------------------------------------------------------
(* The facts that hold of the name now are among those that held. *)
Current(q) == Running(q) => Facts(ask[q].name, listed, verdict) \subseteq hist[q]

(* A name listed and not allowed all along: the query is at the blocklist or at
   the override check until it is sunk. *)
ListedPath(q) ==
  hist[q] \cap {"unlisted", "explicit", "lookupErr"} = {} =>
    /\ Running(q) => pc[q] \in {"blocklist", "override"}
    /\ Served(q) => Sunk(q)

(* A name denied and unlisted all along gets no further than the policy check. *)
DeniedPath(q) ==
  hist[q] \cap {"notDenied", "listed"} = {} =>
    /\ Running(q) => pc[q] \in {"blocklist", "nrd", "policy"}
    /\ Served(q) => Sunk(q)

PathInv(q) == Current(q) /\ ListedPath(q) /\ DeniedPath(q)

(* An answer fetched for this query went through the filters. *)
Filtered(q) ==
  response[q].kind = "answer" /\ ~response[q].stale =>
    /\ cfg.rebind => "internal" \notin response[q].records
    /\ cfg.geo = "block" => "foreign" \notin response[q].records

(* The override branch has its log record before it forwards; a forwarded query
   that is still to be logged was sunk by GeoIP, by rebind protection, or not. *)
RecordInv(q) ==
  /\ pc[q] \in {"blocklist", "override", "nrd", "policy", "allow"} => ~override[q]
  /\ pc[q] \notin {"log", "done"} => ~outcome[q].geoBlocked
  /\ pc[q] = "forward" /\ override[q] => logged[q].action = "allow"
  /\ pc[q] = "log" =>
       /\ ~override[q]
       /\ outcome[q].geoBlocked => Sunk(q)
       /\ Sunk(q) /\ ~outcome[q].geoBlocked => cfg.rebind /\ ask[q].addr
  /\ Served(q) =>
       /\ logged[q].action # "none"
       /\ logged[q].action = "block" => Sunk(q)
       /\ Sunk(q) /\ logged[q].action # "block" =>
            IF outcome[q].geoBlocked THEN override[q] ELSE cfg.rebind /\ ask[q].addr

QInv(q) == PathInv(q) /\ Filtered(q) /\ RecordInv(q)

(* The step leaves the query alone. *)
Unmoved(q) ==
  /\ pc'[q] = pc[q] /\ ask'[q] = ask[q] /\ hist'[q] = hist[q] /\ override'[q] = override[q]
  /\ outcome'[q] = outcome[q] /\ response'[q] = response[q] /\ logged'[q] = logged[q]

(* A query that a step leaves alone keeps what held of it. *)
LEMMA Frame ==
  ASSUME NEW q \in Queries, QInv(q), Unmoved(q), UNCHANGED <<cfg, listed, verdict>>
  PROVE  QInv(q)'
  BY DEF QInv, PathInv, Current, ListedPath, DeniedPath, Filtered, RecordInv, Unmoved, Running,
         Served, Sunk, At

(* What the current facts of a running query say. *)
LEMMA FactsHold ==
  ASSUME NEW q \in Queries, Current(q), Running(q)
  PROVE  /\ ask[q].name \in listed => "listed" \in hist[q]
         /\ ask[q].name \notin listed => "unlisted" \in hist[q]
         /\ verdict[ask[q].name].explicit => "explicit" \in hist[q]
         /\ verdict[ask[q].name].decision # "deny" => "notDenied" \in hist[q]
  BY DEF Current, Facts

(* A step of a query keeps the invariant of that query. *)
LEMMA OwnStep ==
  ASSUME TypeOK, NEW q \in Queries, QInv(q), QueryStep(q)
  PROVE  QInv(q)'
<1> USE DEF At, Goto, Respond, LogQuery, envVars, localVars
<1>0. /\ pc \in [Queries -> Labels] /\ DOMAIN pc = Queries /\ DOMAIN hist = Queries
      /\ DOMAIN override = Queries /\ DOMAIN outcome = Queries /\ DOMAIN response = Queries
      /\ DOMAIN logged = Queries /\ hist[q] \subseteq AllFacts
      /\ pc = [r \in Queries |-> pc[r]] /\ override = [r \in Queries |-> override[r]]
      /\ outcome = [r \in Queries |-> outcome[r]] /\ response = [r \in Queries |-> response[r]]
      /\ logged = [r \in Queries |-> logged[r]] /\ hist = [r \in Queries |-> hist[r]]
  BY DEF TypeOK, AllFacts
<1>B. ASSUME NEW why, Block(q, why), Running(q), UNCHANGED <<envVars, ask, hist>>
      PROVE  QInv(q)'
  <2>1. pc'[q] = "done" /\ response'[q] = Response("sinkhole") /\ logged'[q].action = "block"
    BY <1>0, <1>B DEF Block
  <2>2. response'[q].kind = "sinkhole"
    BY <2>1, RecordTypes
  <2>3. QED
    BY <2>1, <2>2
       DEF QInv, PathInv, Current, ListedPath, DeniedPath, Filtered, RecordInv, Running, Served, Sunk
<1>1. CASE CheckBlocklist(q)
  <2>1. /\ pc[q] = "blocklist" /\ pc'[q] = (IF ask[q].name \in listed THEN "override" ELSE "nrd")
        /\ UNCHANGED <<envVars, ask, override, outcome, response, logged, hist>>
    BY <1>0, <1>1 DEF CheckBlocklist, IsBlocked
  <2>2. PathInv(q)'
    BY <2>1, FactsHold DEF QInv, PathInv, Current, ListedPath, DeniedPath, Running, Served
  <2>3. QED
    BY <2>1, <2>2 DEF QInv, Filtered, RecordInv, Served, Sunk
<1>2. CASE BlocklistErr(q)
  <2>1. /\ pc[q] = "blocklist" /\ pc'[q] = "nrd" /\ hist'[q] = hist[q] \cup {"lookupErr"}
        /\ UNCHANGED <<envVars, ask, override, outcome, response, logged>>
    BY <1>0, <1>2 DEF BlocklistErr
  <2>2. PathInv(q)'
    BY <2>1 DEF QInv, PathInv, Current, ListedPath, DeniedPath, Running, Served
  <2>3. QED
    BY <2>1, <2>2 DEF QInv, Filtered, RecordInv, Served, Sunk
<1>3. CASE CheckOverride(q)
  <2>1. CASE IsExplicitlyAllowed(q)
    <3>1. /\ pc[q] = "override" /\ pc'[q] = "forward" /\ verdict[ask[q].name].explicit
          /\ override'[q] /\ logged'[q].action = "allow"
          /\ UNCHANGED <<envVars, ask, outcome, response, hist>>
      BY <1>0, <1>3, <2>1 DEF CheckOverride, IsExplicitlyAllowed
    <3>2. PathInv(q)'
      BY <3>1, FactsHold DEF QInv, PathInv, Current, ListedPath, DeniedPath, Running, Served
    <3>3. QED
      BY <3>1, <3>2 DEF QInv, Filtered, RecordInv, Served, Sunk
  <2>2. CASE ~IsExplicitlyAllowed(q)
    BY <1>3, <1>B, <2>2 DEF CheckOverride, Running
  <2>3. QED
    BY <2>1, <2>2
<1>4. CASE CheckNRD(q)
  <2>1. CASE Block(q, "nrd")
    BY <1>4, <1>B, <2>1 DEF CheckNRD, Running
  <2>2. CASE Goto(q, "policy") /\ UNCHANGED <<response, logged>>
    <3>1. /\ pc[q] = "nrd" /\ pc'[q] = "policy"
          /\ UNCHANGED <<envVars, ask, override, outcome, response, logged, hist>>
      BY <1>0, <1>4, <2>2 DEF CheckNRD
    <3>2. PathInv(q)'
      BY <3>1 DEF QInv, PathInv, Current, ListedPath, DeniedPath, Running, Served
    <3>3. QED
      BY <3>1, <3>2 DEF QInv, Filtered, RecordInv, Served, Sunk
  <2>3. QED
    BY <1>4, <2>1, <2>2 DEF CheckNRD
<1>5. CASE EvaluatePolicy(q)
  <2> DEFINE d == verdict[ask[q].name].decision
  <2>0. pc[q] = "policy" /\ UNCHANGED <<envVars, ask, override, outcome, hist>>
    BY <1>5 DEF EvaluatePolicy
  <2>1. CASE Block(q, "policy")
    BY <1>B, <2>0, <2>1 DEF Running
  <2>2. CASE d # "deny" /\ Goto(q, "allow") /\ UNCHANGED <<response, logged>>
    <3>1. pc'[q] = "allow"
      BY <1>0, <2>2
    <3>2. PathInv(q)'
      BY <2>0, <2>2, <3>1, FactsHold
         DEF QInv, PathInv, Current, ListedPath, DeniedPath, Running, Served
    <3>3. QED
      BY <2>0, <2>2, <3>1, <3>2 DEF QInv, Filtered, RecordInv, Served, Sunk
  <2>3. CASE /\ d = "redirect" /\ LogQuery(q, "redirect", "policy")
             /\ \E k \in {"redirect", "servfail"} : Respond(q, Response(k))
             /\ Goto(q, "done")
    <3>1. pc'[q] = "done" /\ logged'[q].action = "redirect"
          /\ response'[q].kind \in {"redirect", "servfail"}
      BY <1>0, <2>3, RecordTypes
    <3>2. PathInv(q)'
      BY <2>0, <2>3, <3>1, FactsHold
         DEF QInv, PathInv, Current, ListedPath, DeniedPath, Running, Served
    <3>3. QED
      BY <2>0, <3>1, <3>2 DEF QInv, Filtered, RecordInv, Served, Sunk
  <2>4. QED
    BY <1>5, <2>1, <2>2, <2>3 DEF EvaluatePolicy, Denies
<1>6. CASE AllowPathBlock(q)
  BY <1>6, <1>B DEF AllowPathBlock, Running
<1>7. CASE SafeSearch(q)
  <2>1. /\ pc[q] = "allow" /\ pc'[q] = "done" /\ logged'[q].action = "allow"
        /\ response'[q].kind = "safesearch"
        /\ UNCHANGED <<envVars, ask, override, outcome, hist>>
    BY <1>0, <1>7, RecordTypes DEF SafeSearch
  <2>2. PathInv(q)'
    BY <2>1 DEF QInv, PathInv, Current, ListedPath, DeniedPath, Running, Served
  <2>3. QED
    BY <2>1, <2>2 DEF QInv, Filtered, RecordInv, Served, Sunk
<1>8. CASE Observe(q)
  <2>0. pc[q] = "allow" /\ UNCHANGED <<envVars, ask, override, outcome, hist>>
    BY <1>8 DEF Observe
  <2>1. CASE \E why : Block(q, why)
    BY <1>B, <2>0, <2>1 DEF Running
  <2>2. CASE Goto(q, "forward") /\ UNCHANGED <<response, logged>>
    <3>1. pc'[q] = "forward"
      BY <1>0, <2>2
    <3>2. PathInv(q)'
      BY <2>0, <3>1 DEF QInv, PathInv, Current, ListedPath, DeniedPath, Running, Served
    <3>3. QED
      BY <2>0, <2>2, <3>1, <3>2 DEF QInv, Filtered, RecordInv, Served, Sunk
  <2>3. QED
    BY <1>8, <2>1, <2>2 DEF Observe
<1>9. ASSUME NEW ans \in Answers, NEW put \in BOOLEAN, NEW flux \in BOOLEAN,
             ExchangeOK(q, ans, put, flux)
      PROVE  QInv(q)'
  <2> DEFINE sunk == SunkByRebind(q, ans)
             geo  == ~sunk /\ GeoMatches(ans)
             geoBlocked == geo /\ cfg.geo = "block"
  <2>1. /\ pc[q] = "forward" /\ pc'[q] = (IF override[q] THEN "done" ELSE "log")
        /\ UNCHANGED <<envVars, ask, override, logged, hist>>
    BY <1>0, <1>9 DEF ExchangeOK, AfterForward
  <2>2. outcome'[q].geoBlocked <=> geoBlocked
    BY <1>0, <1>9 DEF ExchangeOK
  <2>3. response'[q] = IF sunk \/ geoBlocked THEN Response("sinkhole") ELSE Answer(FilterRebind(ans), FALSE)
    BY <1>0, <1>9, <2>2 DEF ExchangeOK
  <2>4. FilterRebind(ans) \in Answers /\ (cfg.rebind => "internal" \notin FilterRebind(ans))
    BY DEF FilterRebind, Answers
  <2>5. sunk => cfg.rebind /\ ask[q].addr
    BY DEF SunkByRebind, FilterRebind
  <2>6. PathInv(q)'
    BY <2>1 DEF QInv, PathInv, Current, ListedPath, DeniedPath, Running, Served
  <2>7. CASE sunk \/ geoBlocked
    <3>1. response'[q].kind = "sinkhole"
      BY <2>3, <2>7, RecordTypes
    <3>2. QED
      BY <2>1, <2>2, <2>5, <2>6, <2>7, <3>1 DEF QInv, Filtered, RecordInv, Served, Sunk
  <2>8. CASE ~(sunk \/ geoBlocked)
    <3>1. response'[q].kind = "answer" /\ response'[q].records = FilterRebind(ans)
      <4>1. response'[q] = Answer(FilterRebind(ans), FALSE)
        BY <2>3, <2>8
      <4>2. QED
        BY <4>1 DEF Answer
    <3>2. cfg.geo = "block" => "foreign" \notin FilterRebind(ans)
      BY <2>8 DEF GeoMatches
    <3>3. QED
      BY <2>1, <2>2, <2>4, <2>6, <2>8, <3>1, <3>2 DEF QInv, Filtered, RecordInv, Served, Sunk
  <2>9. QED
    BY <2>7, <2>8
<1>10. CASE ExchangeErr(q)
  <2>1. /\ pc[q] = "forward" /\ pc'[q] = (IF override[q] THEN "done" ELSE "log")
        /\ UNCHANGED <<envVars, ask, override, outcome, logged, hist>>
    BY <1>0, <1>10 DEF ExchangeErr, AfterFailure, AfterForward
  <2>2. \/ response'[q].kind = "servfail"
        \/ response'[q].kind = "answer" /\ response'[q].stale
    <3>1. ask[q].name \in Names
      BY PipelineAssumption DEF TypeOK, AskType
    <3>2. cache[ask[q].name] # NoAnswer => cache[ask[q].name] \in Answers
      BY <3>1 DEF TypeOK
    <3>3. response'[q] = IF cfg.stale /\ cache[ask[q].name] # NoAnswer
                         THEN Answer(cache[ask[q].name], TRUE) ELSE Response("servfail")
      BY <1>0, <1>10 DEF ExchangeErr
    <3>4. QED
      BY <3>2, <3>3, RecordTypes
  <2>3. PathInv(q)'
    BY <2>1 DEF QInv, PathInv, Current, ListedPath, DeniedPath, Running, Served
  <2>4. QED
    BY <2>1, <2>2, <2>3 DEF QInv, Filtered, RecordInv, Served, Sunk
<1>11. CASE LogForwarded(q)
  <2>1. /\ pc[q] = "log" /\ pc'[q] = "done" /\ logged'[q].action = LogAction(q)
        /\ UNCHANGED <<envVars, ask, override, outcome, response, hist>>
    BY <1>0, <1>11 DEF LogForwarded
  <2>2. LogAction(q) # "none" /\ (LogAction(q) = "block" <=> outcome[q].geoBlocked)
    BY DEF LogAction
  <2>3. PathInv(q)'
    BY <2>1 DEF QInv, PathInv, Current, ListedPath, DeniedPath, Running, Served
  <2>4. QED
    BY <2>1, <2>2, <2>3 DEF QInv, Filtered, RecordInv, Served, Sunk
<1>12. QED
  BY <1>1, <1>2, <1>3, <1>4, <1>5, <1>6, <1>7, <1>8, <1>9, <1>10, <1>11 DEF QueryStep

(* A step of one query leaves the others alone. *)
LEMMA OthersUnmoved ==
  ASSUME TypeOK, NEW q \in Queries, QueryStep(q), NEW r \in Queries, r # q
  PROVE  Unmoved(r) /\ UNCHANGED <<cfg, listed, verdict>>
<1> USE DEF TypeOK, Unmoved, At, Goto, Respond, LogQuery, Block, envVars, localVars
<1>1. CASE CheckBlocklist(q) \/ BlocklistErr(q)
  BY <1>1 DEF CheckBlocklist, BlocklistErr
<1>2. CASE CheckOverride(q)
  BY <1>2 DEF CheckOverride
<1>3. CASE CheckNRD(q)
  BY <1>3 DEF CheckNRD
<1>4. CASE EvaluatePolicy(q)
  BY <1>4 DEF EvaluatePolicy
<1>5. CASE AllowPathBlock(q) \/ SafeSearch(q)
  BY <1>5 DEF AllowPathBlock, SafeSearch
<1>6. CASE Observe(q)
  BY <1>6 DEF Observe
<1>7. ASSUME NEW ans \in Answers, NEW put \in BOOLEAN, NEW flux \in BOOLEAN,
             ExchangeOK(q, ans, put, flux)
      PROVE  Unmoved(r) /\ UNCHANGED <<cfg, listed, verdict>>
  BY <1>7 DEF ExchangeOK
<1>8. CASE ExchangeErr(q) \/ LogForwarded(q)
  BY <1>8 DEF ExchangeErr, LogForwarded
<1>9. QED
  BY <1>1, <1>2, <1>3, <1>4, <1>5, <1>6, <1>7, <1>8 DEF QueryStep

(* The blocklist and the policies change under the queries: what held is kept in
   the history, and what holds now is added to it. *)
LEMMA Noted ==
  ASSUME NEW q \in Queries, QInv(q), Note(listed', verdict'),
         UNCHANGED <<cfg, pc, ask, override, outcome, response, logged>>
  PROVE  QInv(q)'
<1>1. /\ Running(q) => hist'[q] = hist[q] \cup Facts(ask[q].name, listed', verdict')
      /\ ~Running(q) => hist'[q] = hist[q]
  BY DEF Note
<1>2. Current(q)'
  BY <1>1 DEF Current, Running, Facts
<1>3. ListedPath(q)' /\ DeniedPath(q)'
  BY <1>1 DEF QInv, PathInv, ListedPath, DeniedPath, Running, Served, Sunk, At
<1>4. Filtered(q)' /\ RecordInv(q)'
  BY DEF QInv, Filtered, RecordInv, Served, Sunk, At
<1>5. QED
  BY <1>2, <1>3, <1>4 DEF QInv, PathInv

(* The inductive invariant. *)
PipeInv == TypeOK /\ \A q \in Queries : QInv(q)

(* The inductive invariant of the query path. *)
LEMMA PipelineInvariant == Spec => []PipeInv
<1>1. Init => PipeInv
  <2> SUFFICES ASSUME Init PROVE PipeInv
    OBVIOUS
  <2>1. TypeOK
    BY DEF Init, TypeOK, Labels, NoOutcome, NoResponse, NotLogged, Answers, Records, Verdicts, Verdict
  <2>2. \A q \in Queries : QInv(q)
    BY RecordTypes
       DEF Init, QInv, PathInv, Current, ListedPath, DeniedPath, Filtered, RecordInv, Running, Served, At
  <2>3. QED
    BY <2>1, <2>2 DEF PipeInv
<1>2. PipeInv /\ [Next]_vars => PipeInv'
  <2> SUFFICES ASSUME TypeOK, \A q \in Queries : QInv(q), [Next]_vars, NEW r \in Queries
               PROVE  QInv(r)'
    BY TypeStep DEF PipeInv
  <2>1. ASSUME NEW q \in Queries, QueryStep(q) PROVE QInv(r)'
    BY <2>1, OwnStep, OthersUnmoved, Frame
  <2>2. ASSUME NEW q \in Queries, NEW a \in Asks, NEW refused \in BOOLEAN, Receive(q, a, refused)
        PROVE  QInv(r)'
    <3>1. CASE r # q
      <4>1. Unmoved(r) /\ UNCHANGED <<cfg, listed, verdict>>
        BY <2>2, <3>1 DEF Receive, TypeOK, Unmoved, Goto, Respond, envVars
      <4>2. QED
        BY <4>1, Frame
    <3>2. CASE r = q
      <4>1. /\ pc'[q] = (IF refused THEN "done" ELSE "blocklist")
            /\ response'[q] = (IF refused THEN Response("refused") ELSE NoResponse)
            /\ ~override'[q] /\ outcome'[q] = NoOutcome /\ ask'[q] = a
            /\ hist'[q] = Facts(a.name, listed, verdict) /\ UNCHANGED <<cfg, listed, verdict>>
        BY <2>2 DEF Receive, TypeOK, Goto, Respond, envVars
      <4>2. /\ refused => response'[q].kind = "refused"
            /\ ~refused => response'[q].kind = "none"
            /\ ~outcome'[q].geoBlocked
        BY <4>1, RecordTypes
      <4>3. PathInv(q)'
        BY <4>1, <4>2 DEF PathInv, Current, ListedPath, DeniedPath, Running, Served, At
      <4>4. Filtered(q)' /\ RecordInv(q)'
        BY <4>1, <4>2 DEF Filtered, RecordInv, Served, At
      <4>5. QED
        BY <3>2, <4>3, <4>4 DEF QInv
    <3>3. QED
      BY <3>1, <3>2
  <2>3. ASSUME NEW n \in Names, ChangeBlocklist(n) PROVE QInv(r)'
    BY <2>3, Noted DEF ChangeBlocklist, localVars
  <2>4. ASSUME NEW n \in Names, NEW v \in Verdicts, ReloadPolicies(n, v) PROVE QInv(r)'
    BY <2>4, Noted DEF ReloadPolicies, localVars
  <2>5. ASSUME NEW n \in Names, ChangeNRD(n) \/ LedgerAges(n) \/ CacheDrops(n) PROVE QInv(r)'
    BY <2>5, Frame DEF ChangeNRD, LedgerAges, CacheDrops, localVars, envVars, Unmoved
  <2>6. CASE UNCHANGED vars
    BY <2>6, Frame DEF vars, localVars, envVars, Unmoved
  <2>7. QED
    BY <2>1, <2>2, <2>3, <2>4, <2>5, <2>6 DEF Next
<1>3. QED
  BY <1>1, <1>2, PTL DEF Spec

(* Type correctness of the state ProcessDNSQuery works on. *)
THEOREM PipelineTypeCorrect == Spec => []TypeOK
<1>1. PipeInv => TypeOK
  BY DEF PipeInv
<1>2. QED
  BY <1>1, PipelineInvariant, PTL

(* ProcessDNSQuery: a name blocked for as long as its query runs is answered
   0.0.0.0 and no fresh answer carries a filtered record, whatever queries run
   beside it, however often lists and policies change, in every configuration. *)
THEOREM NothingBlockedGetsOut == Spec => []BlockedStaysOut
<1>1. PipeInv => BlockedStaysOut
  BY DEF PipeInv, QInv, PathInv, ListedPath, DeniedPath, Filtered, BlockedStaysOut, BlockedIsSunk,
         ListedIsSunk, DeniedIsSunk, FreshAnswersAreFiltered
<1>2. QED
  BY <1>1, PipelineInvariant, PTL

(* logQuery: every answered query has a record, and the record says what the
   client got, in every configuration. *)
THEOREM LogTellsResponse == Spec => []LogMatchesResponse
<1>1. PipeInv => LogMatchesResponse
  BY DEF PipeInv, QInv, RecordInv, LogMatchesResponse
<1>2. QED
  BY <1>1, PipelineInvariant, PTL
=============================================================================
