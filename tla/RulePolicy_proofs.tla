------------------------- MODULE RulePolicy_proofs -------------------------
(***************************************************************************)
(* For any rules, names and addresses: the routing helper's marks and the  *)
(* client's exclusions together do to a connection what the words of the   *)
(* interface promise, wherever nft accepts the rules and no IP:port bypass *)
(* rule loses its port; and check_domain says so of names.                 *)
(***************************************************************************)
EXTENDS RulePolicy, TLAPS

LEMMA EntriesAreRules ==
  ASSUME NEW list \in Seq(Rule)
  PROVE  Entries(list) \subseteq Rule
BY DEF Entries

LEMMA RuleFields ==
  ASSUME NEW r \in Rule
  PROVE  /\ r.kind \in Kinds
         /\ r.kind \in {"name", "wild"} => r.name \in Names
BY DEF Rule

\* An element of a literal stems from a rule about the same addresses, which
\* is no name.
LEMMA LiteralStems ==
  ASSUME NEW rules, rules \subseteq Rule,
         NEW fam \in {"v4", "v6"}, NEW r \in RuleSet(rules, fam)
  PROVE  \E e \in rules :
           /\ e.kind \in {"net", "netport", "anyport"}
           /\ r.addrs = e.addrs
           /\ e.kind = "anyport" => r.kind = "anyport"
<1>1. PICK e \in rules : r = StripPort(e) /\ RuleKind(r) = fam
  BY DEF RuleSet
<1>2. e \in Rule /\ e.kind \in Kinds
  BY <1>1, RuleFields
<1>3. e.kind \notin {"name", "wild"}
  BY <1>1, <1>2 DEF StripPort, RuleKind
<1>4. r.addrs = e.addrs /\ (e.kind = "anyport" => r.kind = "anyport")
  BY <1>1, <1>2 DEF StripPort, Rule
<1> QED
  BY <1>1, <1>2, <1>3, <1>4 DEF Kinds

\* And a rule that is no name is in the literal of one of the families.
LEMMA LiteralHolds ==
  ASSUME NEW rules, rules \subseteq Rule, NEW e \in rules,
         e.kind \in {"net", "netport", "anyport"}
  PROVE  \E fam \in {"v4", "v6"} :
           \E r \in RuleSet(rules, fam) :
             /\ r.addrs = e.addrs
             /\ e.kind = "anyport" => r.kind = "anyport"
<1> DEFINE r == StripPort(e)
<1>1. e \in Rule
  OBVIOUS
<1>2. /\ r.addrs = e.addrs
      /\ r.kind = IF e.kind = "netport" THEN "net" ELSE e.kind
  BY <1>1 DEF StripPort, Rule
<1>3. RuleKind(r) \in {"v4", "v6"}
  BY <1>2 DEF RuleKind
<1>4. r \in RuleSet(rules, RuleKind(r))
  BY DEF RuleSet
<1> QED
  BY <1>2, <1>3, <1>4

LEMMA DomainsAreNames ==
  ASSUME NEW rules, rules \subseteq Rule
  PROVE  HasDomains(rules) <=> \E e \in rules : e.kind \in {"name", "wild"}
<1>1. \A e \in rules : RuleKind(StripPort(e)) = "domain"
                         <=> e.kind \in {"name", "wild"}
  <2> TAKE e \in rules
  <2>1. e \in Rule
    OBVIOUS
  <2>2. StripPort(e).kind = IF e.kind = "netport" THEN "net" ELSE e.kind
    BY <2>1 DEF StripPort, Rule
  <2> QED
    BY <2>2 DEF RuleKind
<1> QED
  BY <1>1 DEF HasDomains

LEMMA ModeValues ==
  ASSUME NEW rec \in Records
  PROVE  /\ ProfileMode(rec) \in {"none", "vpn", "bypass", "other"}
         /\ rec.proxy \in BOOLEAN
         /\ Entries(rec.vpn) \subseteq Rule
         /\ Entries(rec.bypass) \subseteq Rule
         /\ Entries(rec.direct) \subseteq Rule
<1>1. /\ rec.mode \in {"vpn", "bypass", "other"}
      /\ rec.proxy \in BOOLEAN
      /\ rec.vpn \in Seq(Rule) /\ rec.bypass \in Seq(Rule)
      /\ rec.direct \in Seq(Rule)
  BY DEF Records
<1> QED
  BY <1>1, EntriesAreRules DEF ProfileMode

-----------------------------------------------------------------------------
(* Tun mode, one profile mode at a time.                                   *)

LEMMA VpnMarks ==
  ASSUME NEW rec \in Records, NEW d \in Destination,
         ~rec.proxy, ProfileMode(rec) = "vpn", AtTheirWord(rec, d),
         ~Matched(Entries(rec.bypass), d)
  PROVE  KernelMarks(rec, d)
<1> DEFINE rules == Entries(rec.bypass)
<1>1. rules \subseteq Rule
  BY ModeValues
<1>2. /\ Selection(rec).select = "mark_all"
      /\ Selection(rec).bypass = RuleSet(rules, "v4") \cup RuleSet(rules, "v6")
  BY DEF Selection
<1>3. ASSUME NEW r \in Selection(rec).bypass, d.addr \in r.addrs
      PROVE  FALSE
  <2> HIDE DEF rules
  <2>1. PICK fam \in {"v4", "v6"} : r \in RuleSet(rules, fam)
    BY <1>2, <1>3
  <2>2. PICK e \in rules : /\ e.kind \in {"net", "netport", "anyport"}
                           /\ r.addrs = e.addrs
                           /\ e.kind = "anyport" => r.kind = "anyport"
    BY <1>1, <2>1, LiteralStems
  <2>3. r.kind # "anyport"
    BY <1>3 DEF AtTheirWord, RulesetLoads
  <2>4. e.kind = "netport" => d.port = e.port
    BY <1>3, <2>2 DEF AtTheirWord, PortLost, rules
  <2>5. ClientMatches(e, d)
    BY <1>3, <2>2, <2>3, <2>4 DEF ClientMatches
  <2> QED
    BY <2>5 DEF Matched, rules
<1> QED
  BY <1>2, <1>3 DEF KernelMarks, Holds

LEMMA BypassMarks ==
  ASSUME NEW rec \in Records, NEW d \in Destination,
         ~rec.proxy, ProfileMode(rec) = "bypass", AtTheirWord(rec, d),
         Matched(Entries(rec.vpn), d)
  PROVE  KernelMarks(rec, d)
<1> DEFINE rules == Entries(rec.vpn)
<1>1. rules \subseteq Rule
  BY ModeValues
<1>2. Selection(rec).bypass = {}
  BY DEF Selection
<1>3. CASE HasDomains(rules)
  <2>1. Selection(rec).select = "mark_all"
    BY <1>3 DEF Selection
  <2> QED
    BY <1>2, <2>1 DEF KernelMarks, Holds
<1>4. CASE ~HasDomains(rules)
  <2>1. /\ Selection(rec).select = "route_sets"
        /\ Selection(rec).route = RuleSet(rules, "v4") \cup RuleSet(rules, "v6")
    BY <1>4 DEF Selection
  <2>2. PICK e \in rules : ClientMatches(e, d)
    BY DEF Matched
  <2> HIDE DEF rules
  <2>3. e.kind \in {"net", "netport", "anyport"}
    BY <1>1, <1>4, DomainsAreNames, RuleFields DEF Kinds
  <2>4. PICK r \in Selection(rec).route :
          r.addrs = e.addrs /\ (e.kind = "anyport" => r.kind = "anyport")
    BY <1>1, <2>1, <2>3, LiteralHolds
  <2>5. r.kind # "anyport"
    BY <2>4 DEF AtTheirWord, RulesetLoads
  <2>6. e \in Rule
    BY <1>1
  <2>7. d.addr \in e.addrs
    BY <2>2, <2>3, <2>4, <2>5 DEF ClientMatches, NameMatches
  <2> QED
    BY <1>2, <2>1, <2>4, <2>7 DEF KernelMarks, Holds
<1> QED
  BY <1>3, <1>4

-----------------------------------------------------------------------------
(* The results.                                                            *)

\* What the words of the settings page and the README promise of a connection
\* is what happens to it (gen-config's vpn_mode and exclusions, the routing
\* helper's selection and ruleset), in both operation modes, with any profile
\* or none, wherever the rules can be taken at their word.
THEOREM PolicyEnforced ==
  ASSUME NEW rec \in Records, NEW d \in Destination, AtTheirWord(rec, d)
  PROVE  Tunneled(rec, d) <=> Promised(rec, d)
<1>1. /\ ProfileMode(rec) \in {"none", "vpn", "bypass", "other"}
      /\ rec.proxy \in BOOLEAN
  BY ModeValues
<1>2. CASE ProfileMode(rec) = "vpn"
  <2>1. ClientTunnels(rec, d) <=> ~Matched(Entries(rec.bypass), d)
    BY <1>2 DEF ClientTunnels, VpnMode, Exclusions, Matched
  <2> QED
    BY <1>1, <1>2, <2>1, VpnMarks DEF Tunneled, Promised
<1>3. CASE ProfileMode(rec) = "bypass"
  <2>1. ClientTunnels(rec, d) <=> Matched(Entries(rec.vpn), d)
    BY <1>3 DEF ClientTunnels, VpnMode, Exclusions, Matched
  <2> QED
    BY <1>1, <1>3, <2>1, BypassMarks DEF Tunneled, Promised
<1>4. CASE ProfileMode(rec) \in {"none", "other"}
  <2>1. CASE rec.proxy
    BY <1>4, <2>1 DEF Tunneled, Promised, ClientTunnels, VpnMode, Exclusions,
                      Matched
  <2>2. CASE ~rec.proxy
    <3>1. Selection(rec).select = "none"
      BY <1>4 DEF Selection
    <3> QED
      BY <1>4, <2>2, <3>1 DEF Tunneled, Promised, KernelMarks
  <2> QED
    BY <2>1, <2>2
<1> QED
  BY <1>1, <1>2, <1>3, <1>4

\* On a list of bare names check_domain's comparison of texts is the client's
\* matching.
LEMMA InListIsMatched ==
  ASSUME NEW rec \in Records, ByName(rec),
         NEW d \in Destination, d.name # None
  PROVE  InList(rec, NamedRule(d.name)) <=> Matched(Entries(EffectiveList(rec)), d)
<1> DEFINE list == Entries(EffectiveList(rec))
           q == NamedRule(d.name)
<1>1. list \subseteq Rule
  BY ModeValues DEF EffectiveList
<1>2. d.name \in Names
  BY DEF Destination
<1>3. ASSUME NEW r \in list
      PROVE  LiteralMatch(r, q) <=> ClientMatches(r, d)
  <2>1. r.kind = "name"
    BY DEF ByName
  <2>2. r \in Rule
    BY <1>1
  <2>3. r = [kind |-> "name", name |-> r.name, addrs |-> {}, port |-> None]
    BY <2>1, <2>2 DEF Rule
  <2>4. r = q <=> r.name = d.name
    BY <2>3 DEF NamedRule
  <2>5. q.kind = "name" /\ q.name = d.name
    BY DEF NamedRule
  <2> QED
    BY <2>1, <2>4, <2>5 DEF LiteralMatch, ClientMatches, NameMatches
<1> QED
  BY <1>3 DEF InList, Matched

\* A list of bare names is always at its word: no literal is made of it.
LEMMA NamesAtTheirWord ==
  ASSUME NEW rec \in Records, ByName(rec), NEW d
  PROVE  AtTheirWord(rec, d)
<1>1. /\ Entries(rec.vpn) \subseteq Rule
      /\ Entries(rec.bypass) \subseteq Rule
  BY ModeValues
<1>2. CASE ProfileMode(rec) = "vpn"
  <2>1. \A r \in Entries(rec.bypass) : r.kind = "name"
    BY <1>2 DEF ByName, EffectiveList
  <2>2. \A fam \in {"v4", "v6"} : RuleSet(Entries(rec.bypass), fam) = {}
    BY <1>1, <2>1, LiteralStems
  <2>3. Selection(rec).bypass = {} /\ Selection(rec).route = {}
    BY <1>2, <2>2 DEF Selection
  <2> QED
    BY <2>1, <2>3 DEF AtTheirWord, RulesetLoads, PortLost
<1>3. CASE ProfileMode(rec) = "bypass"
  <2>1. \A r \in Entries(rec.vpn) : r.kind = "name"
    BY <1>3 DEF ByName, EffectiveList
  <2>2. \A fam \in {"v4", "v6"} : RuleSet(Entries(rec.vpn), fam) = {}
    BY <1>1, <2>1, LiteralStems
  <2>3. Selection(rec).bypass = {} /\ Selection(rec).route = {}
    BY <1>3, <2>2 DEF Selection
  <2> QED
    BY <1>3, <2>3 DEF AtTheirWord, RulesetLoads, PortLost
<1>4. CASE ProfileMode(rec) \notin {"vpn", "bypass"}
  <2>1. Selection(rec).bypass = {} /\ Selection(rec).route = {}
    BY <1>4 DEF Selection
  <2> QED
    BY <1>4, <2>1 DEF AtTheirWord, RulesetLoads, PortLost
<1> QED
  BY <1>2, <1>3, <1>4

\* The Check a domain tool, asked about a name, answers what happens to the
\* connections to it, when the list that decides holds nothing but names.
THEOREM DomainVerdict ==
  ASSUME NEW rec \in Records, ByName(rec),
         NEW d \in Destination, d.name # None
  PROVE  CheckDomain(rec, NamedRule(d.name)) = "tunnel" <=> Tunneled(rec, d)
<1>1. /\ ProfileMode(rec) \in {"none", "vpn", "bypass", "other"}
      /\ rec.proxy \in BOOLEAN
  BY ModeValues
<1>2. CheckDomain(rec, NamedRule(d.name)) = "tunnel" <=> Promised(rec, d)
  BY <1>1, InListIsMatched DEF CheckDomain, Promised, EffectiveList
<1> QED
  BY <1>2, NamesAtTheirWord, PolicyEnforced

=============================================================================
