--------------------------- MODULE MCSettingsPage ---------------------------
(* Instances of SettingsPage small enough for TLC. *)
EXTENDS SettingsPage, TLC

CONSTANTS s1, s2, s3, r1, r2, a, b, c, own, imported, secret

Server(id, n, p) == [id |-> id, name |-> n, profile |-> p, data |-> own]
Profile(id, n, mode) == [id |-> id, name |-> n, mode |-> mode]

Two ==
  [servers |-> <<Server(s1, a, a), Server(s2, b, None)>>,
   profiles |-> <<Profile(r1, a, "bypass")>>,
   endpoint |-> a, address |-> Loopback, username |-> None, password |-> None]
\* The selection names no server.
Stale == [Two EXCEPT !.endpoint = c]
Single == [Two EXCEPT !.servers = <<Server(s1, a, a)>>,
                      !.profiles = <<Profile(r1, a, "vpn"), Profile(r2, b, "bypass")>>]
Guarded == [Single EXCEPT !.address = Everywhere, !.username = secret, !.password = secret]

SomeStarts == {Two, Stale, Single, Guarded}

\* An open listener inside the loopback.
OpenProxy == {Single}

Bound(some) == [e \in Events |-> IF e \in DOMAIN some THEN some[e] ELSE 0]

Renaming == Bound([name |-> 2, section |-> 1])
Picking == Bound([name |-> 1, picker |-> 1, section |-> 1])
Pasting == Bound([name |-> 1, import |-> 2, fault |-> 1])
Sectioning == Bound([name |-> 1, section |-> 2])
Securing == Bound([proxy |-> 3, name |-> 1, fault |-> 1])
Mixing == Bound([assign |-> 1, proxy |-> 1, import |-> 1, fault |-> 1])
Rebuilding == Bound([name |-> 1, section |-> 1, import |-> 1, fault |-> 1])
Assigning == Bound([assign |-> 3, picker |-> 1])

SomeBudgets ==
  (Two :> {Renaming, Picking, Pasting, Assigning, Rebuilding}) @@
  (Stale :> {Pasting, Mixing}) @@
  (Single :> {Sectioning, Securing, Assigning}) @@
  (Guarded :> {Securing, Mixing})

ProxyBudgets == Single :> {Bound([proxy |-> 3])}

=============================================================================
