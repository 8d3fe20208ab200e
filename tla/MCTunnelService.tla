--------------------------- MODULE MCTunnelService ---------------------------
(* Instances of TunnelService small enough for TLC. *)
EXTENDS TunnelService, TLC

CONSTANTS tun0, tun1, t1, t2, good, good2, bad

TunSetting(strict, table, c) ==
  [enabled |-> TRUE, proxy |-> FALSE, strict |-> strict,
   table |-> table, client |-> c]

\* The strict killswitch, a second client setting and one gen-config refuses.
Strict == {TunSetting(TRUE, t1, c) : c \in {good, good2, bad}}

\* Either blackhole mode, nothing else to choose.
TwoModes == {TunSetting(strict, t1, good) : strict \in BOOLEAN}

\* The same, and the proxy mode, where no device may ever be followed.
AnyMode == TwoModes \cup {[TunSetting(FALSE, t1, good) EXCEPT !.proxy = TRUE]}

FailOpen == {TunSetting(FALSE, t1, good)}

\* One setting of each kind.  They differ from the first one by: nothing,
\* the blackhole mode, the table, the client settings and the blackhole
\* mode, a refused endpoint, the mode, and main.enabled.
Editable ==
  LET base == TunSetting(FALSE, t1, good) IN
  {base, TunSetting(TRUE, t1, good), TunSetting(FALSE, t2, good),
   TunSetting(TRUE, t1, good2), TunSetting(FALSE, t1, bad),
   [base EXCEPT !.proxy = TRUE], [base EXCEPT !.enabled = FALSE]}

\* Enough for a lost edit: two routing-only settings and a client setting.
Racing ==
  {TunSetting(FALSE, t1, good), TunSetting(TRUE, t1, good),
   TunSetting(TRUE, t1, good2)}

Chosen(call, commit, fault, crash, recreate, foreign, reboot) ==
  [call |-> call, commit |-> commit, fault |-> fault, crash |-> crash,
   recreate |-> recreate, foreign |-> foreign, reboot |-> reboot]

\*                              call commit fault crash recreate foreign reboot
BudgetConcurrency == Chosen(2,   1,     1,    1,    0,       0,      0)
BudgetReconnect   == Chosen(2,   0,     0,    1,    1,       0,      1)
BudgetEdits       == Chosen(1,   2,     0,    0,    0,       0,      0)
BudgetBystander   == Chosen(1,   0,     1,    1,    1,       1,      0)
BudgetRacing      == Chosen(1,   2,     0,    0,    0,       0,      0)

\* Edits to a service left alone, and reconnects of one left unedited.
EditsInit ==
  \/ InitWith(BudgetEdits)
  \/ InitWith(BudgetReconnect) /\ uci \in TwoModes

EditsSpec == EditsInit /\ [][Next]_vars /\ Fairness

Permute == Permutations({tun0, tun1})

=============================================================================
