------------------------------ MODULE Settings ------------------------------
(***************************************************************************)
(* How the dataplane comes by the periods of its background loops and by   *)
(* its switches (internal/config/config.go, local_only.go), and what each  *)
(* loop makes of the period it is given (cmd/dataplane/main.go,            *)
(* blocklist/health.go, heartbeat.New, nrd.New). Values are texts: "" is   *)
(* an empty or absent key, "bad" does not parse; a period is in hours.     *)
(***************************************************************************)
EXTENDS Integers

Keys   == {"update", "health", "watchdog", "heartbeat", "nrd"}
Values == {"", "bad", "off", "-1", "0", "1"}
Hours(v) == [x \in {"-1", "0", "1", "6"} |-> CASE x = "-1" -> -1 [] x = "0" -> 0
                                              [] x = "1" -> 1 [] x = "6" -> 6][v]
Off    == 0                               \* the loop does not run

(* The files and environments: the loops do not depend on one another, so one
   key differs from the rest. *)
Texts == {[k \in Keys |-> IF k = odd THEN v ELSE w] : odd \in Keys, v \in Values, w \in Values}
Files == [state : {"read"}, keys : {[k \in Keys |-> v] : v \in Values}]
         \cup [state : {"missing", "broken"}, keys : {[k \in Keys |-> ""]}]
Words == {"", "bad", "true", "false", "yes", "no"}

(* The switches, by who reads their variable: LocalOnly; strconv.ParseBool, and
   Atoi and ParseFloat likewise (REBIND_PROTECTION, SAFE_SEARCH, DNS_0X20, ...);
   SERVE_STALE; TYPOSQUAT_BLOCK. *)
Switches == {"custody", "parsed", "stale", "squat"}

VARIABLES
  file,        \* the configuration file: whether it can be used, and its keys
  env,         \* env[k]: the variable that overrides the key, "" when not set
  fileSwitch,  \* the value of the switches in the file
  envSwitch,   \* the word in their variables
  on,          \* switches that are on
  period,      \* period[k]: the period of the loop, Off, or -1: NewTicker panics
  process      \* "new", "up" or "panicked"

vars == <<file, env, fileSwitch, envSwitch, on, period, process>>

Init ==
  /\ file \in Files /\ env \in Texts
  /\ period = [k \in Keys |-> Off]
  /\ fileSwitch \in BOOLEAN /\ envSwitch \in Words /\ on = {}
  /\ process = "new"

(* defaultConfig. There is no default for the heartbeat in it. *)
Default(k) == [update |-> "6", health |-> "1", watchdog |-> "1", heartbeat |-> "", nrd |-> "6"][k]

(* loadConfig: the defaults take the place of a file that cannot be read or
   parsed; they do not fill in the keys a file leaves out. *)
LoadConfig(k) == IF file.state # "read" THEN Default(k) ELSE file.keys[k]

(* DefaultConfig: a variable that is set and not empty replaces the value. *)
Resolved_FileFirst(k) == IF LoadConfig(k) # "" THEN LoadConfig(k) ELSE env[k]
Resolved(k) == IF env[k] # "" THEN env[k] ELSE LoadConfig(k)

(* time.ParseDuration: "", "off" and "bad" are errors. *)
Parses(v) == v \notin {"", "bad", "off"}

(* main: an error or 0 is six hours; a negative period panics. *)
UpdatePeriod(v) == IF ~Parses(v) THEN 6 ELSE IF Hours(v) = 0 THEN 6 ELSE Hours(v)

(* healthInterval, then HealthChecker.Run, which checks once and stops for a
   period that is not positive. *)
HealthPeriod(v) ==
  CASE v \in {"", "bad"} -> 1
    [] v \in {"off", "0", "-1"} -> Off
    [] OTHER -> Hours(v)

(* WatchdogIntervalDuration. *)
WatchdogPeriod(v) == IF ~Parses(v) THEN Off ELSE IF Hours(v) > 0 THEN Hours(v) ELSE Off

(* heartbeat.New and nrd.New, for a reporter and a feed that have an address. *)
DefaultedPeriod(v, default) ==
  IF ~Parses(v) THEN default ELSE IF Hours(v) > 0 THEN Hours(v) ELSE default

Periods ==
  [update |-> UpdatePeriod(Resolved("update")), health |-> HealthPeriod(Resolved("health")),
   watchdog |-> WatchdogPeriod(Resolved("watchdog")),
   heartbeat |-> DefaultedPeriod(Resolved("heartbeat"), 1),
   nrd |-> DefaultedPeriod(Resolved("nrd"), 6)]

(* The words of a variable that turn a switch on and off: envBool, ParseBool,
   and the two that can only be turned on. Every other word leaves the switch
   as the file has it, and off without a usable file. *)
TurnOn  == [custody |-> {"true", "yes"}, parsed |-> {"true"}, stale |-> {"true"}, squat |-> {"true", "yes"}]
TurnOff == [custody |-> {"false", "no"}, parsed |-> {"false"}, stale |-> {}, squat |-> {}]

IsOn(k) ==
  \/ envSwitch \in TurnOn[k]
  \/ envSwitch \notin TurnOff[k] /\ file.state = "read" /\ fileSwitch

(* The dataplane starts its loops. The custody switch is logged, and asked by no
   loop but telemetry.Report, which nothing calls. *)
Start ==
  /\ process = "new"
  /\ period' = Periods
  /\ process' = IF \E k \in Keys : Periods[k] < 0 THEN "panicked" ELSE "up"
  /\ on' = {k \in Switches : IsOn(k)}
  /\ UNCHANGED <<file, env, fileSwitch, envSwitch>>

(* A process starts once; each of its starts is a behaviour of its own. *)
Next == Start

Spec == Init /\ [][Next]_vars

-----------------------------------------------------------------------------
(* What the operator asked for: the environment, over the file. *)
Asked(k) == IF env[k] # "" THEN env[k] ELSE file.keys[k]

(* The heartbeat under the custody switch, of which CustodySilences speaks. *)
InCustody(k) == k = "heartbeat" /\ "custody" \in on

(* No file and no environment keeps the dataplane from starting except a
   negative refresh period of the blocklists; a period that was asked for and
   is positive is used; and blocking never stops being refreshed: the refresh,
   the heartbeat and the feed cannot be switched off by a period, the health
   monitor only by asking for it or by a file that says nothing of it (see
   EmptyTurnsHealthOff), and the watchdog is off when nothing usable was asked
   for and a file was read. "true" turns every switch on, a word that is no truth
   value none, and no switch is on that nothing asked for. *)
SettingsAreSound ==
  /\ process = "panicked" => Asked("update") = "-1"
  /\ process = "up" =>
       /\ \A k \in Keys : Asked(k) = "1" /\ ~InCustody(k) => period[k] = 1
       /\ \A k \in {"update", "heartbeat", "nrd"} : ~InCustody(k) => period[k] > 0
       /\ period["health"] = Off =>
            Asked("health") \in {"off", "0", "-1"} \/ (Asked("health") = "" /\ file.state = "read")
       /\ period["watchdog"] = Off =>
            Asked("watchdog") # "" \/ file.state = "read"
       /\ envSwitch = "true" => on = Switches
       /\ envSwitch \in {"", "bad"} => on = IF file.state = "read" /\ fileSwitch THEN Switches ELSE {}
       /\ on # {} => envSwitch \in {"true", "yes"} \/ (file.state = "read" /\ fileSwitch)

-----------------------------------------------------------------------------
(* What the comments promise and the code does not keep.                     *)

(* healthInterval: "an empty value turn[s] the periodic monitor off". *)
EmptyTurnsHealthOff ==
  process = "up" /\ Resolved("health") = "" => period["health"] = Off

(* "Remote managed-config or license/heartbeat calls" are "GATED under LOCAL_ONLY
   (non-resolution / phone-home - MUST no-op when true)". *)
CustodySilences == process = "up" /\ "custody" \in on => period["heartbeat"] = Off

(* "Also settable via env: TYPOSQUAT_BRANDS (comma-separated) and
   TYPOSQUAT_BLOCK (true/false)": false turns the blocking off that the file turned on. *)
EnvTurnsOff == process = "up" /\ envSwitch = "false" => "squat" \notin on

(* The refresh period is checked before it is used: the others fall back. *)
StartsWithAnyPeriod == process # "panicked"
=============================================================================
