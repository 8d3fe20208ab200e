------------------------------- MODULE Routing -------------------------------
(***************************************************************************)
(* The kernel and firewall state the routing helper owns, and the commands *)
(* of the helper in the order it runs them.  A subcommand (up, attach,     *)
(* detach, down) is not atomic: the hotplug hook and the init script run   *)
(* it concurrently, so every group of commands another process can see     *)
(* between is an operator of its own and TunnelService sequences them.     *)
(*                                                                         *)
(* The IPv4 and IPv6 commands go in pairs; a pair is one command here (a   *)
(* failing v6 one is ignored by the helper).  `s` is the settings value    *)
(* the helper read from the records when its process started.              *)
(***************************************************************************)
EXTENDS Settings, Naturals

CONSTANTS
  Devs,        \* names of tun devices
  Persistent,  \* the names whose device carries IFF_PERSIST
  Metered      \* the nft table holding only the proxy-mode counters

ASSUME RoutingAssumption ==
  /\ Persistent \subseteq Devs
  /\ None \notin Devs
  /\ Metered \notin Tables \cup {None}

VARIABLES
  ifindex,  \* the interface index of each device, 0 when it does not exist
  nft,      \* table inet trusttunnel: None, Metered, or the mark it sets
  rules,    \* the tables an fwmark rule points to
  route,    \* the default route of each table: a device or None
  hole,     \* the tables holding the blackhole default route
  zone,     \* the device bound to the trusttunnel firewall zone (flash)
  device    \* $OUTDIR/device, the recorded attached device (tmpfs)

kernel == <<nft, rules, route, hole, zone, device>>

Exists(d) == ifindex[d] # 0

RoutingTypeOK ==
  /\ ifindex \in [Devs -> Nat]
  /\ nft \in Tables \cup {None, Metered}
  /\ rules \subseteq Tables
  /\ route \in [Tables -> Devs \cup {None}]
  /\ hole \subseteq Tables
  /\ zone \in Devs \cup {None}
  /\ device \in Devs \cup {None}

RoutingInit ==
  /\ nft = None
  /\ rules = {}
  /\ route = [t \in Tables |-> None]
  /\ hole = {}
  /\ zone = None
  /\ device = None

-----------------------------------------------------------------------------
(* up *)

\* The blackhole follows blackhole_on_down, then the fwmark rule is added
\* unless it is there already.
UpRule(s) ==
  /\ hole' = IF s.strict THEN hole \cup {s.table} ELSE hole \ {s.table}
  /\ rules' = rules \cup {s.table}
  /\ UNCHANGED <<nft, route, zone, device>>

\* The ruleset replaces the whole nft table in one transaction.
UpRuleset(s) ==
  /\ nft' = s.table
  /\ UNCHANGED <<rules, route, hole, zone, device>>

\* meter: the counters of the proxy listener replace the whole nft table.
InstallMeter ==
  /\ nft' = Metered
  /\ UNCHANGED <<rules, route, hole, zone, device>>

-----------------------------------------------------------------------------
(* attach *)

AttachHole(s) ==
  /\ hole' = hole \cup {s.table}
  /\ UNCHANGED <<nft, rules, route, zone, device>>

AttachDefault(s, d) ==
  /\ route' = [route EXCEPT ![s.table] = d]
  /\ UNCHANGED <<nft, rules, hole, zone, device>>

\* A slip in the zone sync: a device recorded already is taken for bound.
SyncZoneByRecord(d) ==
  /\ zone' = IF device = d THEN zone ELSE d
  /\ UNCHANGED <<nft, rules, route, hole, device>>

SyncZone(d) ==
  /\ zone' = d
  /\ UNCHANGED <<nft, rules, route, hole, device>>

RecordDevice(d) ==
  /\ device' = d
  /\ UNCHANGED <<nft, rules, route, hole, zone>>

-----------------------------------------------------------------------------
(* detach and down *)

\* A slip in detach: the killswitch is dropped whatever the setting.
DetachRoutesAlways(s) ==
  /\ route' = [route EXCEPT ![s.table] = None]
  /\ hole' = hole \ {s.table}
  /\ UNCHANGED <<nft, rules, zone, device>>

\* detach keeps the blackhole in the strict mode only.
DetachRoutes(s) ==
  /\ route' = [route EXCEPT ![s.table] = None]
  /\ hole' = IF s.strict THEN hole ELSE hole \ {s.table}
  /\ UNCHANGED <<nft, rules, zone, device>>

ClearZone ==
  /\ zone' = None
  /\ UNCHANGED <<nft, rules, route, hole, device>>

ForgetDevice ==
  /\ device' = None
  /\ UNCHANGED <<nft, rules, route, hole, zone>>

\* A slip in down: the nft table goes, the rule stays.
DownMarksNoRule(s) ==
  /\ nft' = None
  /\ UNCHANGED <<rules, route, hole, zone, device>>

\* down removes what marks traffic first ...
DownMarks(s) ==
  /\ nft' = None
  /\ rules' = rules \ {s.table}
  /\ UNCHANGED <<route, hole, zone, device>>

\* ... and then this package's own routes from the table.
DownRoutes(s) ==
  /\ route' = [route EXCEPT ![s.table] = None]
  /\ hole' = hole \ {s.table}
  /\ UNCHANGED <<nft, rules, zone, device>>

-----------------------------------------------------------------------------
(* What the kernel does with the traffic the ruleset selects. *)

Marking == nft \in Tables /\ nft \in rules

Verdict ==
  IF ~Marking THEN "direct"
  ELSE IF route[nft] # None THEN "tunnel"
  ELSE IF nft \in hole THEN "drop"
  ELSE "direct"

=============================================================================
