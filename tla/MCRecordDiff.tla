---------------------------- MODULE MCRecordDiff ----------------------------
(* Pairs of committed states around a base one. *)
EXTENDS RecordDiff, TLC

Unset == [k \in Keys |-> <<>>]

Base ==
  (<<"main", "enabled">> :> <<"1">>) @@ (<<"main", "mode">> :> <<"tun">>)
  @@ (<<"endpoint", "address">> :> <<"a", "b">>)
  @@ (<<"network", "table">> :> <<"880">>)
  @@ (<<"network", "blackhole_on_down">> :> <<"0">>)
  @@ (<<"domains", "direct">> :> <<"a">>) @@ Unset

\* One key changed: every key set to another value or unset, and the lists
\* reordered, shortened and with a repeated entry.
Changed ==
  {[Base EXCEPT ![k] = v] : k \in Keys, v \in {<<>>, <<"1">>}}
  \cup {[Base EXCEPT ![<<"endpoint", "address">>] = v] :
          v \in {<<"b", "a">>, <<"a">>, <<"a", "a">>, <<"a", "b", "a">>,
                 <<"b", "a", "a">>, <<"a", "a", "b">>}}
  \cup {[Base EXCEPT ![<<"main", "mode">>] = <<"proxy">>]}

\* Several at once, and nothing set at all.
Mixed ==
  {Unset,
   [Base EXCEPT ![<<"main", "mode">>] = <<"proxy">>,
                ![<<"network", "lan_devices">>] = <<"b">>],
   [Base EXCEPT ![<<"network", "blackhole_on_down">>] = <<"1">>,
                ![<<"proxy", "address">>] = <<"a">>],
   [Base EXCEPT ![<<"network", "table">>] = <<>>,
                ![<<"endpoint", "address">>] = <<"b", "a">>]}

SomeCommits ==
  {[opt |-> o, cert |-> "none"] : o \in Changed \cup Mixed}
  \cup {[opt |-> o, cert |-> "pinned"] : o \in Mixed \cup {Base}}

Meanings == {Meaning(c) : c \in SomeCommits}
SomeTables == {s.table : s \in Meanings}
SomeClients == {s.client : s \in Meanings}
SomeValues == {"0", "1", "a", "b", "tun", "proxy", "880"}

=============================================================================
