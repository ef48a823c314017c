--------------------------- MODULE DeviceInventory ---------------------------
(***************************************************************************)
(* The passive inventory of the LAN (internal/inventory), which names the  *)
(* device behind an address in alerts (alert/inventory_resolver.go). Each  *)
(* refresh reads the kernel's ARP table, then the DHCP leases, and merges  *)
(* both into the map; devices come, go and change address meanwhile.       *)
(***************************************************************************)
EXTENDS Naturals

CONSTANTS
  IPs, MACs, Hosts,    \* addresses, devices, host names
  MaxMoves,            \* bound: changes of the network
  MaxTime              \* bound: time

None    == "none"
Binding == [mac : MACs \cup {None}, host : Hosts \cup {None}]
Unseen  == [mac |-> None, host |-> None]

VARIABLES
  clock,
  arp,         \* arp[ip]: MAC of a complete entry, or None
  leases,      \* leases[ip]: MAC and host name of the lease, or Unseen
  refresh,     \* "idle", "leases" (ARP is read) or "stopped"
  arps,        \* the ARP table as the refresh read it
  devices,     \* Inventory.devices[ip]
  moves,
  shown,       \* history: what merges observed, by address
  seen,        \* history, seen[ip]: times of the merges that observed ip
  stale        \* history: addresses whose entries changed since the last
               \* refresh began, or whose leases it could not read

netVars == <<arp, leases>>
vars == <<clock, netVars, refresh, arps, devices, moves, shown, seen, stale>>

Unknown == [mac |-> None, host |-> None, first |-> 0, last |-> 0]

Init ==
  /\ clock = 0
  /\ arp = [ip \in IPs |-> None] /\ leases = [ip \in IPs |-> Unseen]
  /\ refresh = "idle" /\ arps = [ip \in IPs |-> None]
  /\ devices = [ip \in IPs |-> Unknown]
  /\ moves = 0
  /\ shown = {} /\ seen = [ip \in IPs |-> {}] /\ stale = IPs

Pass ==
  /\ clock < MaxTime /\ clock' = clock + 1
  /\ UNCHANGED <<netVars, refresh, arps, devices, moves, shown, seen, stale>>

(* A device answers ARP, or its entry expires; a lease is given, renewed or
   ends. A device need not tell the server a name. *)
Move(ip) ==
  /\ moves < MaxMoves /\ moves' = moves + 1
  /\ \/ arp' \in {[arp EXCEPT ![ip] = m] : m \in MACs \cup {None}} /\ UNCHANGED leases
     \/ /\ leases' \in {[leases EXCEPT ![ip] = l] : l \in {Unseen} \cup {b \in Binding : b.mac # None}}
        /\ UNCHANGED arp
  /\ stale' = stale \cup {ip}
  /\ UNCHANGED <<clock, refresh, arps, devices, shown, seen>>

(* refresh: readARPTable; incomplete entries are dropped by parseARP. *)
ReadARP ==
  /\ refresh = "idle"
  /\ arps' = arp
  /\ stale' = {}
  /\ refresh' = "leases"
  /\ UNCHANGED <<clock, netVars, devices, moves, shown, seen>>

(* merge: what one address looked like in this cycle ... *)
Observed(ip, ls) ==
  [mac |-> IF ls[ip].mac # None THEN ls[ip].mac ELSE arps[ip], host |-> ls[ip].host]

(* ... and what becomes of the device of that address. *)
KeepOr(new, old) == IF new # None THEN new ELSE old

FirstSeen_Renewed(d) == clock
FirstSeen(d) == IF d = Unknown THEN clock ELSE d.first

MergedDevice(d, o) ==
  IF o = Unseen THEN d
  ELSE [mac |-> KeepOr(o.mac, d.mac), host |-> KeepOr(o.host, d.host),
        first |-> FirstSeen(d), last |-> clock]

Merge(ls) ==
  /\ devices' = [ip \in IPs |-> MergedDevice(devices[ip], Observed(ip, ls))]
  /\ seen' = [ip \in IPs |-> IF Observed(ip, ls) = Unseen THEN seen[ip] ELSE seen[ip] \cup {clock}]
  /\ shown' = shown \cup {[ip |-> ip, obs |-> Observed(ip, ls)] : ip \in IPs}
  /\ refresh' = "idle" /\ arps' = [ip \in IPs |-> None]
  /\ UNCHANGED <<clock, netVars, moves>>

(* The lease file is read, or cannot be: then only ARP counts. *)
ReadLeases == refresh = "leases" /\ Merge(leases) /\ UNCHANGED stale
LeasesErr  == refresh = "leases" /\ Merge([ip \in IPs |-> Unseen]) /\ stale' = IPs

(* Stop waits for a refresh that runs. *)
Stop ==
  /\ refresh = "idle" /\ refresh' = "stopped"
  /\ UNCHANGED <<clock, netVars, arps, devices, moves, shown, seen, stale>>

Next ==
  \/ Pass \/ ReadARP \/ ReadLeases \/ LeasesErr \/ Stop
  \/ \E ip \in IPs : Move(ip)

Spec == Init /\ [][Next]_vars

-----------------------------------------------------------------------------
(* A known address carries the times of its first and its last observation, the
   MAC and the name it shows were each observed on it, and after a refresh that
   nothing disturbed the MAC is one the address has now, in its lease or in ARP;
   MACIsFromARP is about the case in which the two differ. *)
DevicesAreKnown ==
  \A ip \in IPs :
    LET d == devices[ip]
    IN  /\ d = Unknown <=> seen[ip] = {}
        /\ seen[ip] # {} =>
             /\ d.first \in seen[ip] /\ d.last \in seen[ip]
             /\ \A t \in seen[ip] : d.first <= t /\ t <= d.last
        /\ d.mac # None => \E s \in shown : s.ip = ip /\ s.obs.mac = d.mac
        /\ d.host # None => \E s \in shown : s.ip = ip /\ s.obs.host = d.host
        /\ refresh = "idle" /\ ip \notin stale /\ {leases[ip].mac, arp[ip]} # {None}
             => d.mac \in {leases[ip].mac, arp[ip]} \ {None}

-----------------------------------------------------------------------------
(* What the comments promise and the code does not keep.                     *)

(* An alert is "enriched with a device's MAC and hostname": the two belong to
   one device. The name of the device that had the address before stays when
   the new one does not tell its own. *)
IdentityIsOneDevice ==
  \A ip \in IPs :
    devices[ip].mac # None /\ devices[ip].host # None =>
      \E s \in shown : s.ip = ip /\ s.obs = [mac |-> devices[ip].mac, host |-> devices[ip].host]

(* "ARP supplies MAC addresses; DHCP supplies hostnames (and MAC as a
   fallback)": with an ARP entry, the MAC is that of ARP. *)
MACIsFromARP ==
  \A ip \in IPs : refresh = "idle" /\ ip \notin stale /\ arp[ip] # None => devices[ip].mac = arp[ip]
=============================================================================
