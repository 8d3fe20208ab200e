------------------------------ MODULE RecordDiff ------------------------------
(***************************************************************************)
(* Save & Apply decides what to do from two records files.  This is the    *)
(* decision at the level of the lines: uci-export writes them, diff_keys   *)
(* (one awk program over both files) reports the keys that differ, and the *)
(* dearest class among theirs and that of the certificate is the class of  *)
(* the apply.  TunnelService takes the outcome as Settings!ClassOf; here   *)
(* it is checked that the lines never lead to a cheaper class than that.   *)
(*                                                                         *)
(* A key is a pair <<section, option>>.  A committed state gives each key  *)
(* the sequence of its values, empty when the option is not set (a scalar  *)
(* has at most one value), and the pinned certificate of the server, which *)
(* is never a record.                                                      *)
(***************************************************************************)
EXTENDS Settings, Naturals, SequencesExt, FiniteSets

CONSTANTS
  Values,   \* values of the options
  Certs,    \* pinned certificates, and the empty one
  Commits   \* the committed states looked at

Section(name, options) == [i \in DOMAIN options |-> <<name, options[i]>>]

\* The keys in the order uci-export writes them.
KeyOrder ==
  Section("main", <<"enabled", "log_level", "mode">>)
  \o Section("endpoint",
       <<"name", "hostname", "username", "password", "protocol", "anti_dpi",
         "post_quantum", "skip_verification", "has_ipv6", "custom_sni",
         "client_random", "routing_profile", "address", "dns_upstream">>)
  \o Section("routing_profile",
       <<"name", "mode", "vpn_rules", "bypass_rules">>)
  \o Section("network",
       <<"mtu", "table", "fwmark", "blackhole_on_down",
         "include_router_traffic", "lan_devices">>)
  \o Section("proxy", <<"address", "username", "password">>)
  \o Section("domains", <<"direct">>)

Keys == ToSet(KeyOrder)

Line == [key : Keys, value : Values]

ASSUME RecordDiffAssumption ==
  Commits \subseteq [opt : [Keys -> Seq(Values)], cert : Certs]

\* uci-export: a line for every value, in the order of the list.
Export(c) ==
  FlattenSeq([i \in DOMAIN KeyOrder |->
    LET k == KeyOrder[i] IN
    [j \in DOMAIN c.opt[k] |-> [key |-> k, value |-> c.opt[k][j]]]])

-----------------------------------------------------------------------------
(* The classes *)

Classes == {"noop", "reload", "restart", "restart_full"}

\* A plausible slip: the mode listed with the keys that restart the client.
ClassForKeyMode(k) ==
  IF k \in {<<"network", "lan_devices">>, <<"network", "blackhole_on_down">>,
            <<"network", "include_router_traffic">>} THEN "reload"
  ELSE IF k \in {<<"network", "table">>, <<"network", "fwmark">>,
                 <<"main", "enabled">>} THEN "restart_full"
  ELSE "restart"

ClassForKey(k) ==
  IF k \in {<<"network", "lan_devices">>, <<"network", "blackhole_on_down">>,
            <<"network", "include_router_traffic">>} THEN "reload"
  ELSE IF k \in {<<"network", "table">>, <<"network", "fwmark">>,
                 <<"main", "enabled">>, <<"main", "mode">>}
    THEN "restart_full"
  ELSE IF \/ k \in {<<"domains", "direct">>, <<"main", "log_level">>,
                    <<"network", "mtu">>}
          \/ k[1] \in {"endpoint", "routing_profile", "proxy"}
    THEN "restart"
  ELSE "restart_full"

RankOfClass(c) ==
  CASE c = "noop" -> 0 [] c = "reload" -> 1 [] c = "restart" -> 2
    [] OTHER -> 3

MaxClass(a, b) == IF RankOfClass(a) >= RankOfClass(b) THEN a ELSE b

-----------------------------------------------------------------------------
(* diff_keys *)

Occurrences(s, v) == Cardinality({i \in DOMAIN s : s[i] = v})

\* A slip: the values are compared as multisets, a reordering is missed.
DiffKeysMultiset(s1, s2) ==
  {k \in Keys :
     \/ \E v \in ToSet(s1[k]) : Occurrences(s1[k], v) # Occurrences(s2[k], v)
     \/ ToSet(s2[k]) \ ToSet(s1[k]) # {}}

\* The END block: s1 and s2 hold the values seen of each key, in order.
DiffKeys(s1, s2) ==
  {k \in Keys :
     \/ \E v \in ToSet(s1[k]) : Occurrences(s1[k], v) # Occurrences(s2[k], v)
     \/ ToSet(s2[k]) \ ToSet(s1[k]) # {}
     \/ /\ Len(s1[k]) = Len(s2[k])
        /\ \E i \in DOMAIN s1[k] : s1[k][i] # s2[k][i]}

VARIABLES
  old, new,    \* the applied committed state and the present one
  at,          \* awk, keys, cert or done
  input,       \* the files awk has not finished with, as they remain
  nr, fnr,     \* awk's line counters, over all files and in this one
  seq1, seq2,  \* the values seen of each key, in either file
  reported,    \* what diff_keys has printed
  todo,        \* the reported keys class_of_diff has still to look at
  class        \* the class so far

vars == <<old, new, at, input, nr, fnr, seq1, seq2, reported, todo, class>>

Init ==
  /\ old \in Commits /\ new \in Commits
  /\ at = "awk"
  /\ input = <<Export(old), Export(new)>>
  /\ nr = 0 /\ fnr = 0
  /\ seq1 = [k \in Keys |-> <<>>]
  /\ seq2 = [k \in Keys |-> <<>>]
  /\ reported = {} /\ todo = {}
  /\ class = "noop"

\* One line.  awk tells the first file by NR == FNR, which holds for the
\* second one too when the first is empty.
ReadLine ==
  /\ at = "awk"
  /\ input # <<>> /\ Head(input) # <<>>
  /\ nr' = nr + 1 /\ fnr' = fnr + 1
  /\ LET line == Head(Head(input)) IN
     /\ input' = <<Tail(Head(input))>> \o Tail(input)
     /\ IF nr = fnr
          THEN /\ seq1' = [seq1 EXCEPT ![line.key] = Append(@, line.value)]
               /\ UNCHANGED seq2
          ELSE /\ seq2' = [seq2 EXCEPT ![line.key] = Append(@, line.value)]
               /\ UNCHANGED seq1
  /\ UNCHANGED <<old, new, at, reported, todo, class>>

NextFile ==
  /\ at = "awk"
  /\ input # <<>> /\ Head(input) = <<>>
  /\ input' = Tail(input)
  /\ fnr' = 0
  /\ UNCHANGED <<old, new, at, nr, seq1, seq2, reported, todo, class>>

EndOfInput ==
  /\ at = "awk"
  /\ input = <<>>
  /\ reported' = DiffKeys(seq1, seq2)
  /\ todo' = DiffKeys(seq1, seq2)
  /\ at' = "keys"
  /\ UNCHANGED <<old, new, input, nr, fnr, seq1, seq2, class>>

\* class_of_diff; the order of the keys does not matter.
ClassifyKey ==
  /\ at = "keys"
  /\ IF todo = {}
       THEN at' = "cert" /\ UNCHANGED <<todo, class>>
       ELSE LET k == CHOOSE x \in todo : TRUE IN
            /\ class' = MaxClass(class, ClassForKey(k))
            /\ todo' = todo \ {k}
            /\ UNCHANGED at
  /\ UNCHANGED <<old, new, input, nr, fnr, seq1, seq2, reported>>

\* A slip: a changed certificate sets the class instead of raising it.
CompareCertSets ==
  /\ at = "cert"
  /\ class' = IF old.cert # new.cert THEN "restart" ELSE class
  /\ at' = "done"
  /\ UNCHANGED <<old, new, input, nr, fnr, seq1, seq2, reported, todo>>

\* The certificate is compared with the pem file of the applied state.
CompareCert ==
  /\ at = "cert"
  /\ class' = IF old.cert # new.cert THEN MaxClass(class, "restart")
              ELSE class
  /\ at' = "done"
  /\ UNCHANGED <<old, new, input, nr, fnr, seq1, seq2, reported, todo>>

Next == ReadLine \/ NextFile \/ EndOfInput \/ ClassifyKey \/ CompareCert

Spec == Init /\ [][Next]_vars

-----------------------------------------------------------------------------
(* What the scripts make of a committed state *)

\* tt_get and tt_bool: the first value, or the default.
FirstOf(c, k, default) == IF c.opt[k] = <<>> THEN default ELSE c.opt[k][1]
IsOn(c, k) == FirstOf(c, k, "0") = "1"

\* The keys gen-config reads into client.toml.
ClientKeys ==
  {k \in Keys : k[1] \in {"endpoint", "routing_profile", "proxy", "domains"}}
  \cup {<<"main", "log_level">>, <<"network", "mtu">>}

Meaning(c) ==
  [enabled |-> IsOn(c, <<"main", "enabled">>),
   proxy   |-> FirstOf(c, <<"main", "mode">>, "tun") = "proxy",
   strict  |-> IsOn(c, <<"network", "blackhole_on_down">>),
   table   |-> <<FirstOf(c, <<"network", "table">>, "880"),
                 FirstOf(c, <<"network", "fwmark">>, "0x9527")>>,
   client  |-> <<[k \in ClientKeys |-> c.opt[k]], c.cert>>]

-----------------------------------------------------------------------------
(* Properties *)

\* diff_keys reports exactly the keys whose sequence of values was changed: an
\* entry added, dropped, repeated or moved, however long the lists are, and
\* also when one of the files is empty (diff_keys and the comment above it).
DiffIsExact ==
  at # "awk" => reported = {k \in Keys : old.opt[k] # new.opt[k]}

\* The dearest difference decides, and nothing dearer than that is done
\* (class_of_diff: "the most expensive key decides", and the certificate).
Dearest ==
  LET calls == {ClassForKey(k) : k \in reported}
                 \cup (IF old.cert # new.cert THEN {"restart"} ELSE {})
  IN /\ \A c \in calls : RankOfClass(class) >= RankOfClass(c)
     /\ class \in calls \cup {"noop"}

DearestDecides == at = "done" => Dearest

\* No setting that the scripts read differently is applied too cheaply: the
\* class reached over the lines is at least the one the settings call for
\* ("a too-cheap guess leaves the UI showing a setting that is not in
\* effect").
NeverTooCheap ==
  at = "done" =>
    RankOfClass(class) >= RankOfClass(ClassOf(Meaning(old), Meaning(new)))

=============================================================================
