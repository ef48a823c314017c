----------------------------- MODULE AdminSetup -----------------------------
(***************************************************************************)
(* First-run setup, login and the bearer check of the control plane        *)
(* (cmd/controlplane/handlers/auth.go, middlewares/auth.go and             *)
(* internal/storage/repositories/auth.go). Two browsers may post a setup   *)
(* at the same time; hashing the password takes long, and nothing holds a  *)
(* lock. A request is its own password and its own API key.                *)
(***************************************************************************)
EXTENDS Naturals, FiniteSets

CONSTANTS
  Admins,         \* requests, each with the password of who sent it
  Choices,        \* blocklists offered at setup
  MaxRestarts     \* bound: crashes of the control plane

VARIABLES
  creds,       \* rows of the credential table, each the request that wrote it
  step,        \* step[a]: "new", "hash", "insert", "sources" or "end"
  chosen,      \* chosen[a]: blocklists of its setup still to be created
  answer,      \* answer[a]: "none", "token", "conflict" or "error"
  created,     \* [source, by]: sources created by a setup
  restarts

vars == <<creds, step, chosen, answer, created, restarts>>

Init ==
  /\ creds = {}
  /\ step = [a \in Admins |-> "new"]
  /\ chosen \in [Admins -> SUBSET Choices]
  /\ answer = [a \in Admins |-> "none"]
  /\ created = {}
  /\ restarts = 0

IsSetup == creds # {}

Goto(a, label) == step' = [step EXCEPT ![a] = label]
Answer(a, res) == Goto(a, "end") /\ answer' = [answer EXCEPT ![a] = res]

(* Setup: refused when a credential exists. The password is hashed next. *)
Setup(a) ==
  /\ step[a] = "new"
  /\ IF IsSetup THEN Answer(a, "conflict") ELSE Goto(a, "hash") /\ UNCHANGED answer
  /\ UNCHANGED <<creds, chosen, created, restarts>>

(* CreateAdmin checks once more ... *)
CreateAdmin(a) ==
  /\ step[a] = "hash"
  /\ IF IsSetup THEN Answer(a, "error") ELSE Goto(a, "insert") /\ UNCHANGED answer
  /\ UNCHANGED <<creds, chosen, created, restarts>>

(* ... and inserts the row with ID 1: a second one violates the primary key. *)
Conflicts_NewID == FALSE
Conflicts == creds # {}

InsertAdmin(a) ==
  /\ step[a] = "insert"
  /\ IF Conflicts
     THEN Answer(a, "error") /\ UNCHANGED creds
     ELSE creds' = creds \cup {a} /\ Goto(a, "sources") /\ UNCHANGED answer
  /\ UNCHANGED <<chosen, created, restarts>>

(* The blocklists of the request, one by one; one that exists, has no http
   address or cannot be stored is a warning. *)
CreateSource(a, s) ==
  /\ step[a] = "sources" /\ s \in chosen[a]
  /\ \/ (\A c \in created : c.source # s) /\ created' = created \cup {[source |-> s, by |-> a]}
     \/ UNCHANGED created
  /\ chosen' = [chosen EXCEPT ![a] = @ \ {s}]
  /\ UNCHANGED <<creds, step, answer, restarts>>

FinishSetup(a) ==
  /\ step[a] = "sources" /\ chosen[a] = {}
  /\ Answer(a, "token")
  /\ UNCHANGED <<creds, chosen, created, restarts>>

(* A database error at any read or write before the credential is stored. *)
SetupErr(a) ==
  /\ step[a] \in {"new", "hash", "insert"}
  /\ Answer(a, "error")
  /\ UNCHANGED <<creds, chosen, created, restarts>>

(* Login: the stored key, to whoever has the password. *)
Login(a) ==
  /\ step[a] = "end"
  /\ answer' = [answer EXCEPT ![a] = IF a \in creds THEN "token" ELSE "error"]
  /\ UNCHANGED <<creds, step, chosen, created, restarts>>

(* The control plane restarts; a setup that was running can be posted again. *)
Restart ==
  /\ restarts < MaxRestarts /\ restarts' = restarts + 1
  /\ step' = [a \in Admins |-> IF step[a] = "end" THEN "end" ELSE "new"]
  /\ UNCHANGED <<creds, chosen, answer, created>>

Next ==
  \/ \E a \in Admins :
       \/ Setup(a) \/ CreateAdmin(a) \/ InsertAdmin(a) \/ FinishSetup(a)
       \/ SetupErr(a) \/ Login(a)
       \/ \E s \in Choices : CreateSource(a, s)
  \/ Restart

Spec == Init /\ [][Next]_vars

(* Auth, the middleware of every route that is not exempt: nobody before setup,
   then whoever presents the stored key. *)
Authorized(a) == IsSetup /\ answer[a] = "token" /\ a \in creds

-----------------------------------------------------------------------------
(* However setups race, fail, crash and are repeated, one administrator at most
   comes out of them: only that one is given a token, the token is accepted, and
   the sources that setup created are that one's choice. *)
SetupHasOneWinner ==
  /\ Cardinality({a \in Admins : answer[a] = "token"}) <= 1
  /\ \A a \in Admins : answer[a] = "token" => Authorized(a)
  /\ \A c \in created : creds = {c.by}

-----------------------------------------------------------------------------
(* What the code does not keep.                                              *)

(* "Setup creates the admin credential and optionally configures
   blocklists": when a setup is over, its blocklists exist. A crash after the
   credential was stored leaves them out, and the repeated setup is refused. *)
SetupIsComplete ==
  \A a \in Admins : step[a] = "end" /\ a \in creds => chosen[a] = {}
=============================================================================
