----------------------------- MODULE RulePolicy -----------------------------
(***************************************************************************)
(* What the routing rules of a profile do to a connection, and what each   *)
(* part of the package says they do.                                       *)
(*                                                                         *)
(* A rule is a record: a bare name, a *.name, an address or a network, an  *)
(* address with a port, or the form *:port.  A name is a model value whose *)
(* proper parents Parents[n] gives; an address belongs to one family; a    *)
(* network is the set of its addresses.  A destination is what the client  *)
(* sees of a connection: the name it sniffs (None for a bare address), the *)
(* address and the port.  Destinations are neither private addresses nor   *)
(* the server itself: the ruleset returns those before any rule.           *)
(*                                                                         *)
(* The records of the service are reduced to what the rules and the pages  *)
(* turn on: the operation mode (proxy), the assigned profile with its mode *)
(* and its two lists, the legacy domains.direct list, whether the router's *)
(* own traffic is routed, whether an active server with its fields was     *)
(* found (server) and whether proxy.address is set (listen).               *)
(***************************************************************************)
EXTENDS Naturals, Sequences

CONSTANTS
  Names,      \* the host names
  Parents,    \* Parents[n]: the names n is a proper subdomain of
  Addresses,  \* the addresses of both families
  Six,        \* the IPv6 ones
  Ports,      \* the destination ports
  Profiles,   \* the names of routing profiles
  None        \* an absent name, port or profile

ASSUME RulePolicyAssumption ==
  /\ Parents \in [Names -> SUBSET Names]
  /\ Six \subseteq Addresses
  /\ None \notin Names \cup Ports \cup Profiles

Kinds == {"name", "wild", "net", "netport", "anyport"}

\* The fields a kind does not use hold None or the empty set.
Rule ==
  {r \in [kind : Kinds, name : Names \cup {None},
          addrs : SUBSET Addresses, port : Ports \cup {None}] :
     /\ r.name # None <=> r.kind \in {"name", "wild"}
     /\ r.addrs # {} <=> r.kind \in {"net", "netport"}
     /\ r.port # None <=> r.kind \in {"netport", "anyport"}
     /\ r.addrs \subseteq Six \/ r.addrs \cap Six = {}}

NamedRule(n) == [kind |-> "name", name |-> n, addrs |-> {}, port |-> None]
WildRule(n) == [kind |-> "wild", name |-> n, addrs |-> {}, port |-> None]
NetRule(as) == [kind |-> "net", name |-> None, addrs |-> as, port |-> None]
NetPortRule(a, p) ==
  [kind |-> "netport", name |-> None, addrs |-> {a}, port |-> p]
AnyPortRule(p) == [kind |-> "anyport", name |-> None, addrs |-> {}, port |-> p]

Destination ==
  [name : Names \cup {None}, addr : Addresses, port : Ports]

Records ==
  [proxy : BOOLEAN, profile : Profiles \cup {None},
   mode : {"vpn", "bypass", "other"}, vpn : Seq(Rule), bypass : Seq(Rule),
   direct : Seq(Rule), router : BOOLEAN, server : BOOLEAN,
   listen : BOOLEAN]

Entries(list) == {list[i] : i \in DOMAIN list}

-----------------------------------------------------------------------------
(* The routing helper: the kernel side.                                    *)

\* strip_port: the kernel sets hold addresses only.
StripPort(r) ==
  IF r.kind = "netport" THEN [r EXCEPT !.kind = "net", !.port = None] ELSE r

\* rule_kind: whatever has a colon left counts as an IPv6 address, the form
\* *:port included.
RuleKind(r) ==
  IF r.kind \in {"name", "wild"} THEN "domain"
  ELSE IF r.kind = "anyport" \/ r.addrs \subseteq Six THEN "v6"
  ELSE "v4"

\* rule_set: the elements of one family's nft literal.
RuleSet(rules, fam) ==
  {r \in {StripPort(e) : e \in rules} : RuleKind(r) = fam}

\* A slip in has_domains: only the bare names looked for.
HasBareNames(rules) == \E r \in rules : r.kind = "name"

\* has_domains: some entry only the client can match.
HasDomains(rules) == \E r \in rules : RuleKind(StripPort(r)) = "domain"

\* The records carry the mode of the assigned profile only.
ProfileMode(rec) == IF rec.profile = None THEN "none" ELSE rec.mode

\* The selection the ruleset is emitted from.
Selection(rec) ==
  LET vpn == Entries(rec.vpn)
      literals(rules) == RuleSet(rules, "v4") \cup RuleSet(rules, "v6")
      mode == ProfileMode(rec)
  IN [select |->
        IF mode = "vpn" \/ (mode = "bypass" /\ HasDomains(vpn))
          THEN "mark_all"
        ELSE IF mode = "bypass" THEN "route_sets"
        ELSE "none",
      bypass |-> IF mode = "vpn" THEN literals(Entries(rec.bypass)) ELSE {},
      route |-> IF mode = "bypass" /\ ~HasDomains(vpn)
                  THEN literals(vpn) ELSE {}]

\* nft takes the ruleset as one transaction: an element that is no address
\* fails all of it.
RulesetLoads(rec) ==
  \A r \in Selection(rec).bypass \cup Selection(rec).route :
    r.kind # "anyport"

Holds(elements, addr) == \E r \in elements : addr \in r.addrs

\* The prerouting chain: whether a connection gets the mark and with it the
\* tunnel's routing table.
KernelMarks(rec, d) ==
  LET sel == Selection(rec) IN
  /\ ~Holds(sel.bypass, d.addr)
  /\ \/ sel.select = "mark_all"
     \/ sel.select = "route_sets" /\ Holds(sel.route, d.addr)

-----------------------------------------------------------------------------
(* The client side: its configuration, and how the client reads it.        *)

\* vpn_mode as gen-config resolves it.
VpnMode(rec) ==
  CASE ProfileMode(rec) = "bypass" -> "selective"
    [] ProfileMode(rec) = "vpn" -> "general"
    [] OTHER -> IF rec.proxy THEN "general" ELSE "selective"

\* The exclusions gen-config writes: without a profile there are no
\* routing_profile records, so tun mode lists nothing.
Exclusions(rec) ==
  CASE ProfileMode(rec) = "bypass" -> Entries(rec.vpn)
    [] ProfileMode(rec) = "vpn" -> Entries(rec.bypass)
    [] OTHER -> IF rec.proxy THEN Entries(rec.direct)
                ELSE IF rec.profile = None THEN {} ELSE Entries(rec.vpn)

\* A name is covered by a bare rule for it or a parent, and by the *.name
\* rule of a parent.
NameMatches(r, n) ==
  CASE r.kind = "name" -> r.name = n \/ r.name \in Parents[n]
    [] r.kind = "wild" -> r.name \in Parents[n]
    [] OTHER -> FALSE

\* The client's matching of a rule against a connection.
ClientMatches(r, d) ==
  \/ d.name # None /\ NameMatches(r, d.name)
  \/ r.kind = "net" /\ d.addr \in r.addrs
  \/ r.kind = "netport" /\ d.addr \in r.addrs /\ d.port = r.port
  \/ r.kind = "anyport" /\ d.port = r.port

Matched(rules, d) == \E r \in rules : ClientMatches(r, d)

\* The exclusions leave the tunnel in general mode and enter it in
\* selective mode.
ClientTunnels(rec, d) ==
  (VpnMode(rec) = "general") # Matched(Exclusions(rec), d)

\* Where a connection of a LAN device ends up while the tunnel is up: in
\* tun mode it must be marked to reach the client at all.
Tunneled(rec, d) ==
  /\ rec.proxy \/ KernelMarks(rec, d)
  /\ ClientTunnels(rec, d)

-----------------------------------------------------------------------------
(* What the package says about it.                                         *)

\* The words of the settings page and the README: VPN mode tunnels
\* everything except the bypass rules, bypass mode only the VPN rules, the
\* proxy without a profile everything except the "do not bypass" list, and
\* tun mode without one nothing.
Promised(rec, d) ==
  CASE ProfileMode(rec) = "vpn" -> ~Matched(Entries(rec.bypass), d)
    [] ProfileMode(rec) = "bypass" -> Matched(Entries(rec.vpn), d)
    [] OTHER -> rec.proxy /\ ~Matched(Entries(rec.direct), d)

\* Where an IP:port bypass rule takes every port of its address out of the
\* tunnel: the kernel set has lost the port.
PortLost(rec, d) ==
  /\ ~rec.proxy
  /\ ProfileMode(rec) = "vpn"
  /\ \E r \in Entries(rec.bypass) :
       r.kind = "netport" /\ d.addr \in r.addrs /\ d.port # r.port

\* The rules can be taken at their word: nft accepts them, and no IP:port
\* bypass rule is about to lose its port in the kernel.
AtTheirWord(rec, d) == (rec.proxy \/ RulesetLoads(rec)) /\ ~PortLost(rec, d)

\* The list check_domain consults, an unknown mode falling back to the
\* legacy one.
EffectiveList(rec) ==
  CASE ProfileMode(rec) = "bypass" -> rec.vpn
    [] ProfileMode(rec) = "vpn" -> rec.bypass
    [] OTHER -> rec.direct

\* A slip in check_domain: the suffix comparison left out.
LiteralExact(r, q) == r = q

\* check_domain compares texts: the entry itself, or a suffix after a dot.
\* A *.name entry is the suffix of no text the user would ask about.
LiteralMatch(r, q) ==
  \/ r = q
  \/ /\ r.kind = "name"
     /\ \/ q.kind \in {"name", "wild"} /\ r.name \in Parents[q.name]
        \/ q.kind = "wild" /\ r.name = q.name

InList(rec, q) == \E r \in Entries(EffectiveList(rec)) : LiteralMatch(r, q)

\* check_domain's verdict on a text, which may be a rule of any form.
CheckDomain(rec, q) ==
  CASE ProfileMode(rec) = "bypass" -> IF InList(rec, q) THEN "tunnel" ELSE "direct"
    [] ProfileMode(rec) = "vpn" -> IF InList(rec, q) THEN "direct" ELSE "tunnel"
    [] OTHER -> IF rec.proxy /\ ~InList(rec, q) THEN "tunnel" ELSE "direct"

\* diagnose's listed(): the names as the client matches them, nothing else.
Listed(rules, n) == \E r \in rules : NameMatches(r, n)

\* The rules of a configuration are all bare names, which check_domain and
\* diagnose read as the client does.
ByName(rec) == \A r \in Entries(EffectiveList(rec)) : r.kind = "name"

=============================================================================
