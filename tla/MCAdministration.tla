-------------------------- MODULE MCAdministration --------------------------
(***************************************************************************)
(* What an administrator does to the system and is told by it, for TLC:    *)
(* the switches and resolvers of the two planes and the engine's upstream  *)
(* managers, the transfer of the configuration, the first setup, the       *)
(* health monitors, and the settings and the licence a process starts      *)
(* with. They share a clock at most, so a run follows one of them, chosen  *)
(* at the start; the others stand still.                                   *)
(***************************************************************************)
EXTENDS PlaneSync, EngineUpstreamParameters

CONSTANTS
  PolicyIds, SourceIds, Bundle, MaxEdits,
  Admins, Choices, MaxRestarts,
  Monitored, Sizes, StaleLimit, MaxSnapshots, MaxSweepTime,
  Capacity, MinFreePercent, GrowthPercentPerHour, MaxSamples, MaxHours,
  Grace, Expiries, MaxClock

ASSUME AdministrationAssumption ==
  /\ Sizes \subseteq Nat /\ StaleLimit \in Nat
  /\ Capacity \in Nat /\ MinFreePercent \in Nat /\ GrowthPercentPerHour \in Nat \ {0}
  /\ Grace \in Nat \ {0} /\ Expiries \subseteq Nat

VARIABLES
  part, clock,
  current, built, size, caseRand, open, qpc, loaded, pos, attempt, fails, outcome,
  apc, amgr, aleft, abandoned, phase, panicked,
  policies, sources, settings, edits, exporting, part1, part2, doc, intact, applied,
  creds, step, chosen, answer, created, restarts,
  enabled, snaps, sweeping, left, found, sweptAt, statuses, checkedAt, moved, unsure,
  used, prev, report, samples,
  file, env, fileSwitch, envSwitch, on, period, process,
  key, keyFile, mode, judged

Engine   == INSTANCE EngineUpstream
Transfer == INSTANCE ConfigTransfer
Setup    == INSTANCE AdminSetup
Health   == INSTANCE BlocklistHealth WITH Lists <- Monitored, MaxClock <- MaxSweepTime
Disk     == INSTANCE DiskHealth WITH MaxClock <- MaxHours
StartUp  == INSTANCE Settings
Token    == INSTANCE Licence

engineVars   == <<current, built, size, caseRand, open, qpc, loaded, pos, attempt, fails,
                  outcome, apc, amgr, aleft, abandoned, phase, panicked>>
transferVars == <<policies, sources, settings, edits, exporting, part1, part2, doc, intact, applied>>
setupVars    == <<creds, step, chosen, answer, created, restarts>>
healthVars   == <<enabled, snaps, sweeping, left, found, sweptAt, statuses, checkedAt, moved, unsure>>
diskVars     == <<used, prev, report, samples>>
startVars    == <<file, env, fileSwitch, envSwitch, on, period, process>>
tokenVars    == <<key, keyFile, mode, judged>>
adminVars == <<part, clock, vars, engineVars, transferVars, setupVars, healthVars, diskVars,
               startVars, tokenVars>>

(* A part that is not followed has one initial state. *)
AdminInit ==
  /\ part \in {"planes", "engine", "transfer", "setup", "health", "disk", "settings", "licence"}
  /\ Init /\ Engine!Init /\ Health!Init
  /\ Transfer!Init /\ (part # "transfer" => sources[Bundle] = Transfer!NoRow)
  /\ Setup!Init    /\ (part # "setup" => chosen = [a \in Admins |-> {}])
  /\ Disk!Init     /\ (part # "disk" => used = 0)
  /\ Token!Init    /\ (part # "licence" => key.kind = "none" /\ keyFile.kind = "none")
  /\ StartUp!Init
  /\ (part # "settings" => /\ file.state = "missing" /\ ~fileSwitch /\ envSwitch = ""
                           /\ env = [k \in StartUp!Keys |-> ""])

PlanesNext   == /\ part = "planes" /\ Next
                /\ UNCHANGED <<part, clock, engineVars, transferVars, setupVars, healthVars,
                               diskVars, startVars, tokenVars>>
EngineNext   == /\ part = "engine" /\ Engine!Next
                /\ UNCHANGED <<part, clock, vars, transferVars, setupVars, healthVars,
                               diskVars, startVars, tokenVars>>
TransferNext == /\ part = "transfer" /\ Transfer!Next
                /\ UNCHANGED <<part, clock, vars, engineVars, setupVars, healthVars,
                               diskVars, startVars, tokenVars>>
SetupNext    == /\ part = "setup" /\ Setup!Next
                /\ UNCHANGED <<part, clock, vars, engineVars, transferVars, healthVars,
                               diskVars, startVars, tokenVars>>
HealthNext   == /\ part = "health" /\ Health!Next
                /\ UNCHANGED <<part, vars, engineVars, transferVars, setupVars, diskVars,
                               startVars, tokenVars>>
DiskNext     == /\ part = "disk" /\ Disk!Next
                /\ UNCHANGED <<part, vars, engineVars, transferVars, setupVars, healthVars,
                               startVars, tokenVars>>
SettingsNext == /\ part = "settings" /\ StartUp!Next
                /\ UNCHANGED <<part, clock, vars, engineVars, transferVars, setupVars,
                               healthVars, diskVars, tokenVars>>
LicenceNext  == /\ part = "licence" /\ Token!Next
                /\ UNCHANGED <<part, vars, engineVars, transferVars, setupVars, healthVars,
                               diskVars, startVars>>

AdminNext == \/ PlanesNext \/ EngineNext \/ TransferNext \/ SetupNext
             \/ HealthNext \/ DiskNext \/ SettingsNext \/ LicenceNext

AdminSpec == AdminInit /\ [][AdminNext]_adminVars

-----------------------------------------------------------------------------
(* The properties of the instances, stated in their modules; that of PlaneSync
   is used as it is. *)

(* EngineUpstream: every socket is the current manager's or an unfinished
   apply's. *)
ManagersAccountedFor == Engine!ManagersAccountedFor
(* EngineUpstream: an error only after every attempt failed, a panic only on a
   manager that was replaced. *)
OutcomeIsJustified == Engine!OutcomeIsJustified
(* ConfigTransfer: what was imported is in the next undisturbed export. *)
RoundTripHolds == Transfer!RoundTripHolds
(* AdminSetup: one administrator comes out of any number of setups. *)
SetupHasOneWinner == Setup!SetupHasOneWinner
(* BlocklistHealth, DiskHealth: what the two monitors publish was so at the time
   it carries, whatever changed while they looked. *)
HealthReportsAreRight == Health!HealthIsRight /\ Disk!DiskReportIsRight
(* Settings, Licence: what a process starts with is what was asked for, and
   nothing that was asked for but a negative refresh period stops it. *)
StartUpIsSound == StartUp!SettingsAreSound /\ Token!LicenceIsRight
=============================================================================
