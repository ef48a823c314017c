---- MODULE MCQueryPipeline ----
(* Bounds for TLC. Each ask differs from a plain one in a respect or two;
   each configuration turns groups of features off, to flagging or to blocking. *)
EXTENDS QueryPipeline

CONSTANTS n1

Plain == [name |-> n1, addr |-> TRUE, abusedTLD |-> FALSE, safeTarget |-> FALSE, threat |-> "clean"]
MCAsks == {Plain, [Plain EXCEPT !.addr = FALSE, !.threat = "high"],
           [Plain EXCEPT !.abusedTLD = TRUE, !.threat = "mild"],
           [Plain EXCEPT !.safeTarget = TRUE, !.threat = "squat"]}

Off   == [nrdBlock |-> FALSE, threat |-> "off", tlds |-> FALSE, safeSearch |-> FALSE,
          nod |-> "off", rebind |-> FALSE, geo |-> "off", fastFlux |-> FALSE, stale |-> FALSE]
Flag  == [Off EXCEPT !.threat = "dryRun", !.nod = "flag", !.geo = "flag", !.fastFlux = TRUE]
Strict == [nrdBlock |-> TRUE, threat |-> "block", tlds |-> TRUE, safeSearch |-> TRUE,
           nod |-> "block", rebind |-> TRUE, geo |-> "block", fastFlux |-> TRUE, stale |-> TRUE]
MCConfigs == {Flag, Strict}
====
