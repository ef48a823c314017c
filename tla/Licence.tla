------------------------------- MODULE Licence -------------------------------
(***************************************************************************)
(* The licence of the installation (internal/license/license.go): a token  *)
(* from LICENSE_KEY or from the file LICENSE_FILE names, verified and      *)
(* judged once, when the control plane starts. A token is its validity     *)
(* ("bad" for everything Verify refuses) and its expiry.                   *)
(***************************************************************************)
EXTENDS Naturals

CONSTANTS
  Grace,        \* DefaultGracePeriod
  Expiries,     \* expiry times of the tokens that verify
  MaxClock      \* bound: time

Tokens == {[kind |-> "none", expiry |-> 0], [kind |-> "bad", expiry |-> 0]}
          \cup [kind : {"good"}, expiry : Expiries]
Unreadable == [kind |-> "unreadable", expiry |-> 0]

VARIABLES
  clock,
  key, keyFile,   \* what the environment has now
  mode,           \* std.status.Mode
  judged          \* history: the token and the time the mode comes from

vars == <<clock, key, keyFile, mode, judged>>

NotJudged == [key |-> Unreadable, file |-> Unreadable, at |-> 0]

Init ==
  /\ clock = 0
  /\ key \in Tokens /\ keyFile \in Tokens \cup {Unreadable}
  /\ mode = "community" /\ judged = NotJudged

Pass ==
  /\ clock < MaxClock /\ clock' = clock + 1
  /\ UNCHANGED <<key, keyFile, mode, judged>>

(* Load: LICENSE_KEY takes precedence, also when it does not verify. *)
Token_FileOnError(k, f) == IF k.kind = "good" THEN k ELSE f
Token(k, f) == IF k.kind # "none" THEN k ELSE f

(* Evaluate, of a token that Verify accepts. *)
Evaluate(t, now) ==
  CASE now <= t.expiry -> "licensed"
    [] now > t.expiry /\ now < t.expiry + Grace -> "grace"
    [] OTHER -> "community"

(* Load never fails: whatever is wrong with the token, the mode is community. *)
Mode(t, now) == IF t.kind = "good" THEN Evaluate(t, now) ELSE "community"

(* InitFromEnv, at the start of the control plane. *)
InitFromEnv ==
  /\ mode' = Mode(Token(key, keyFile), clock)
  /\ judged' = [key |-> key, file |-> keyFile, at |-> clock]
  /\ UNCHANGED <<clock, key, keyFile>>

(* The operator replaces the token; it is read at the next start. *)
Renew ==
  /\ key' \in Tokens /\ keyFile' \in Tokens \cup {Unreadable}
  /\ UNCHANGED <<clock, mode, judged>>

Next == Pass \/ InitFromEnv \/ Renew

Spec == Init /\ [][Next]_vars

-----------------------------------------------------------------------------
(* At the time it was judged, premium features are on for a token that verifies
   and is within its grace period and off for any other, and the key decides
   alone when there is one, whatever the file holds. GraceIncludesItsEnd is
   about the last instant of the grace period. *)
LicenceIsRight ==
  LET in(t)   == t.kind = "good" /\ judged.at < t.expiry + Grace
      over(t) == t.kind # "good" \/ judged.at > t.expiry + Grace
      decides == IF judged.key.kind # "none" THEN judged.key ELSE judged.file
  IN  judged # NotJudged =>
        /\ in(decides) => mode # "community"
        /\ over(decides) => mode = "community"

-----------------------------------------------------------------------------
(* What the comments promise and the code does not keep.                     *)

(* "Current returns the current status": of a token that is in place and was
   read, now. It is the status at the last start. *)
CurrentIsCurrent ==
  judged.key = key /\ judged.file = keyFile => mode = Mode(Token(key, keyFile), clock)

(* "expiry < now <= expiry+grace -> grace (valid)": also in its last instant. *)
GraceIncludesItsEnd ==
  judged # NotJudged /\ judged.key.kind = "good" /\ judged.at = judged.key.expiry + Grace
    => mode = "grace"
=============================================================================
