----------------------------- MODULE MCWebPages -----------------------------
(* Instances of WebPages small enough for TLC. *)
EXTENDS WebPages, TLC

CONSTANTS site, sub, echo, a4, b4, a6, p443, p80, work, home

AllNames == {site, sub, echo}
\* sub is a subdomain of site.
ParentsOf == (sub :> {site}) @@ [n \in AllNames |-> {}]
AddressOf == (site :> a4) @@ (sub :> b4) @@ (echo :> a6)
Echoes == <<echo, sub>>
Asked == {NamedRule(site), NamedRule(sub)}

\* Two profiles, one of each mode, and what the administrator may choose.
Work == [mode |-> "vpn", vpn |-> <<NamedRule(echo)>>,
         bypass |-> <<NamedRule(site), NetPortRule(b4, p80)>>]
Home == [mode |-> "bypass", vpn |-> <<WildRule(site)>>,
         bypass |-> <<NetRule({a4})>>]

Tun ==
  [enabled |-> TRUE, server |-> TRUE, proxy |-> FALSE, assigned |-> work,
   profiles |-> (work :> Work) @@ (home :> Home),
   direct |-> <<NamedRule(site)>>, router |-> FALSE, listen |-> TRUE]
Selective == [Tun EXCEPT !.assigned = home, !.router = TRUE]
Proxied == [Tun EXCEPT !.proxy = TRUE, !.assigned = None]
\* The form *:port in the list that reaches the kernel.
Malformed == [Tun EXCEPT !.enabled = FALSE,
                         !.profiles[work].bypass = <<AnyPortRule(p443)>>]
\* An echo service among the names that bypass the tunnel.
Echoless == [Tun EXCEPT !.profiles[work].bypass = <<NamedRule(echo)>>]
\* Nothing but addresses to send into the tunnel.
Numeric == [Tun EXCEPT !.profiles[work].mode = "bypass",
              !.profiles[work].vpn = <<NetPortRule(a4, p443), NetRule({a6})>>]
\* A mode nobody knows.
Unknown == [Proxied EXCEPT !.assigned = work, !.listen = FALSE,
                           !.profiles[work].mode = "other"]

SomeConfigs == {Tun, Selective, Proxied, Malformed, Echoless, Numeric, Unknown}

Bound(some) == [e \in Events |-> IF e \in DOMAIN some THEN some[e] ELSE 0]

\* What a behaviour may hold: the page visited, and what happens meanwhile.
Counting == Bound([status |-> 2, traffic |-> 3, service |-> 1])
Previewing == Bound([status |-> 1, press |-> 1, stage |-> 1, commit |-> 1])
Refused == Bound([status |-> 1, press |-> 2, fault |-> 2])
Starting == Bound([status |-> 1, press |-> 2, stage |-> 1, commit |-> 1])
Diagnosing == Bound([diagnostics |-> 1, press |-> 2, fault |-> 1, service |-> 1])
Rediagnosing == Bound([diagnostics |-> 2, press |-> 2, stage |-> 1, commit |-> 1])
Tooling == Bound([tools |-> 1, press |-> 2, fault |-> 1])
Retooling == Bound([tools |-> 1, press |-> 2, stage |-> 1, commit |-> 1])
Logging == Bound([log |-> 2, press |-> 1, write |-> 4, fault |-> 2])
Versioning == Bound([versions |-> 1, fault |-> 1])

SomeBudgets ==
  (Tun :> {Counting, Previewing, Logging}) @@
  (Selective :> {Refused, Diagnosing, Retooling}) @@
  (Proxied :> {Counting, Refused, Diagnosing, Tooling}) @@
  (Malformed :> {Starting, Versioning}) @@
  (Echoless :> {Diagnosing, Tooling}) @@
  (Numeric :> {Diagnosing, Refused}) @@
  (Unknown :> {Diagnosing, Rediagnosing})

=============================================================================
