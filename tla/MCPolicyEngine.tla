---- MODULE MCPolicyEngine ----
(* Names w.a.c, a.c and c; two clients; a week of two days of four minutes. *)
EXTENDS PolicyEngine

CONSTANTS c1, c2

WAC == <<"w", "a", "c">>
AC  == <<"a", "c">>
MCDomains == {WAC, AC, <<"c">>}

Name(n) == [star |-> "none", name |-> n]
Star(n) == [star |-> "lead", name |-> n]
Base == [id |-> 1, priority |-> 1, action |-> "BLOCK", domains |-> {Name(AC)}, regexes |-> {},
         scoped |-> FALSE, scope |-> {}, sched |-> Always]
Night == [days |-> {}, start |-> 3, end |-> 1, zone |-> 0]
Day0  == [days |-> {0}, start |-> 1, end |-> 3, zone |-> 2]

MCPolicies == {
  Base,
  [Base EXCEPT !.id = 2, !.priority = 2, !.action = "ALLOW", !.domains = {Name(WAC)},
               !.scoped = TRUE, !.scope = {c1}],
  [Base EXCEPT !.id = 2, !.scoped = TRUE, !.scope = {c2}],
  [Base EXCEPT !.id = 3, !.action = "ALLOW", !.domains = {Star(AC)}, !.sched = Night],
  [Base EXCEPT !.id = 4, !.priority = 2, !.action = "REDIRECT", !.domains = {},
               !.regexes = {WAC, <<"c">>}],
  [Base EXCEPT !.id = 5, !.domains = {Name(AC), Name(WAC)}, !.sched = Day0],
  [Base EXCEPT !.id = 6, !.action = "ALLOW",
               !.domains = {Star(<<"c">>), [star |-> "other", name |-> AC]}]}
====
