------------------------------ MODULE Killswitch ------------------------------
(***************************************************************************)
(* What blackhole_on_down=1 promises of the traffic the routing profile    *)
(* selects, with no word about rules, routes or scripts: once the          *)
(* killswitch is engaged, the traffic is tunneled or dropped until it is   *)
(* released, and a restart that keeps the routing does not release it.     *)
(* Only a power loss can end the protection of such a restart.             *)
(***************************************************************************)

VARIABLES
  engaged,  \* the kernel selects traffic for the tunnel
  verdict,  \* what happens to that traffic: direct, tunnel or drop
  kept      \* a restart that keeps the routing is under way

Protected == {"tunnel", "drop"}

Init ==
  /\ engaged = FALSE
  /\ verdict = "direct"
  /\ kept = FALSE

Engage ==
  /\ ~engaged /\ engaged'
  /\ verdict' \in Protected
  /\ UNCHANGED kept

\* The tunnel device comes or goes.
Shift ==
  /\ engaged /\ engaged'
  /\ verdict' \in Protected
  /\ kept' \in BOOLEAN

Release ==
  /\ ~kept
  /\ engaged /\ ~engaged'
  /\ verdict' = "direct"
  /\ UNCHANGED kept

\* A restart begins or ends.
Keep ==
  /\ kept' \in BOOLEAN
  /\ UNCHANGED <<engaged, verdict>>

PowerLoss ==
  /\ ~engaged' /\ verdict' = "direct" /\ ~kept'

Next == Engage \/ Shift \/ Release \/ Keep \/ PowerLoss

Spec == Init /\ [][Next]_<<engaged, verdict, kept>>

=============================================================================
