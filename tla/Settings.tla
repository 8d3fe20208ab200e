------------------------------ MODULE Settings ------------------------------
(***************************************************************************)
(* The settings of the service as the scripts read them, reduced to what   *)
(* the scripts branch on: the UCI configuration, the records file          *)
(* uci-export derives from it and the client configuration gen-config      *)
(* derives from the records.                                               *)
(*                                                                         *)
(*   enabled   main.enabled, the gate of the automatic starts              *)
(*   proxy     main.mode = proxy (SOCKS listener); otherwise tun           *)
(*   strict    network.blackhole_on_down                                   *)
(*   table     the pair network.table / network.fwmark                     *)
(*   client    everything that ends up in client.toml only: the endpoint,  *)
(*             the profile, the proxy credentials, the log level           *)
(***************************************************************************)

CONSTANTS
  Tables,   \* values of the pair network.table / network.fwmark
  Clients,  \* values of the client-only settings
  Broken,   \* the client-only settings gen-config refuses
  Configs,  \* the settings the administrator may commit
  None      \* an absent file, device or value

Setting ==
  [enabled : BOOLEAN, proxy : BOOLEAN, strict : BOOLEAN,
   table : Tables, client : Clients]

ClientConfig == [proxy : BOOLEAN, client : Clients]

ASSUME SettingsAssumption ==
  /\ Configs \subseteq Setting
  /\ Broken \subseteq Clients
  /\ None \notin Tables \cup Setting \cup ClientConfig

\* A slip in gen-config: the head of the file is out before the refusal.
TomlHead(s) ==
  IF s.client \in Broken
    THEN [proxy |-> s.proxy]
    ELSE [proxy |-> s.proxy, client |-> s.client]

\* client.toml as generated from the records, or None when gen-config
\* fails: the redirection has truncated the file by then.
Toml(s) ==
  IF s.client \in Broken
    THEN None
    ELSE [proxy |-> s.proxy, client |-> s.client]

\* A plausible slip in the key table: the mode listed with the restart keys.
ClassOfNoMode(old, new) ==
  IF old = new THEN "noop"
  ELSE IF old.enabled # new.enabled \/ old.table # new.table
    THEN "full"
  ELSE IF old.client # new.client \/ old.proxy # new.proxy
    THEN "restart"
  ELSE "reload"

\* Another one: the table and the mark listed with the restart keys.
ClassOfNoTable(old, new) ==
  IF old = new THEN "noop"
  ELSE IF old.enabled # new.enabled \/ old.proxy # new.proxy
    THEN "full"
  ELSE IF old.client # new.client \/ old.table # new.table
    THEN "restart"
  ELSE "reload"

\* class_of_diff: the cheapest action that applies the difference between
\* two records files; the most expensive differing key decides.
ClassOf(old, new) ==
  IF old = new THEN "noop"
  ELSE IF \/ old.enabled # new.enabled
          \/ old.proxy # new.proxy
          \/ old.table # new.table
    THEN "full"
  ELSE IF old.client # new.client THEN "restart"
  ELSE "reload"

=============================================================================
