------------------------- MODULE TunnelSafety_proofs -------------------------
(***************************************************************************)
(* Safety results about TunnelService, for any number of devices, clients  *)
(* and calls.  With settings committed and start called at any time: the   *)
(* strict killswitch implements its abstract specification, and a stopped  *)
(* service leaves nothing that marks traffic.  With commits and starts in  *)
(* order: one table and one mode are in force, those of the applied        *)
(* records; and, with a device that keeps its name, the route, the zone    *)
(* and the record agree on it whenever the hook and the init script rest.  *)
(***************************************************************************)
EXTENDS TunnelService_proofs

(***************************************************************************)
(* The strict killswitch.                                                  *)
(***************************************************************************)

\* The administrator stays with blackhole_on_down=1 in tun mode.
StrictTun == \A c \in Configs : c.strict /\ ~c.proxy

\* Everything the scripts have loaded comes from the committed settings.
Provenance ==
  /\ uci \in Configs
  /\ records \in Configs \cup {None}
  /\ arg \in [Procs -> Configs \cup {None}]

\* The blackhole and the rule are in place before the ruleset marks anything,
\* and down removes the marks, outside of a keep-routing restart only, before
\* the routes they lead to.
Sheltered ==
  /\ pc["init"] # "meter"
  /\ pc["init"] = "down" => "keep" \notin run
  /\ pc["init"] = "downRoutes" => nft = None
  /\ pc["init"] = "ruleset" => arg["init"].table \in rules \cap hole
  /\ nft \in Tables => nft \in rules \cap hole

StrictInv == Provenance /\ Sheltered

\* Both parts of the invariant hold to begin with.
LEMMA StrictInit == StrictTun /\ Init => StrictInv
BY SettingsAssumption
DEF Init, InitWith, RoutingInit, StrictInv, Provenance, Sheltered, Procs,
    SettingsAssumption

\* Every step keeps to the committed settings.
LEMMA ProvenanceStep == TypeInv /\ Provenance /\ [Next]_vars => Provenance'
<1> SUFFICES ASSUME TypeInv, Provenance, [Next]_vars PROVE Provenance'
    OBVIOUS
<1> USE DEF Provenance
<1> pc \in [Procs -> InitLabels \cup HookLabels]
  BY DEF TypeInv, TypeOK, ScriptTypeOK
<1>1. ASSUME UNCHANGED <<uci, records>>,
             \/ UNCHANGED arg
             \/ \E p \in Procs : \/ arg' = [arg EXCEPT ![p] = records]
                                 \/ arg' = [arg EXCEPT ![p] = None]
      PROVE  Provenance'
  BY <1>1
<1> DEFINE Loads(p) == \/ UNCHANGED arg
                       \/ arg' = [arg EXCEPT ![p] = records]
                       \/ arg' = [arg EXCEPT ![p] = None]
<1>2. CASE \E flags \in SUBSET {"now"} : CallStart(flags) \/ CallRestart(flags)
  BY <1>2, <1>1 DEF CallStart, CallRestart, quietScript
<1>3. CASE CallStop \/ CallReload \/ FireTrigger
  BY <1>3, <1>1 DEF CallStop, CallReload, FireTrigger, quietScript
<1>4. CASE InitStep /\ ~RegenConfig
  <2>1. UNCHANGED <<uci, records>>
    BY <1>4
    DEF InitStep, ApplyFull, ApplyByClass, Reattach, Down, DownRest, Unsnap,
        Kill, StartGate, Meter, Up, Ruleset, Snapshot, OpenInstance, Abandon,
        AttachClientTun, quietScript
  <2>2. Loads("init")
    BY <1>4
    DEF InitStep, ApplyFull, ApplyByClass, Reattach, Down, DownRest, Unsnap,
        Kill, StartGate, Meter, Up, Ruleset, Snapshot, OpenInstance, Abandon,
        AttachClientTun, quietScript, EndRun
  <2> QED BY <2>1, <2>2, <1>1 DEF Procs
<1>5. CASE RegenConfig
  <2>1. records' \in Configs \cup {None} /\ UNCHANGED uci
    BY <1>5 DEF RegenConfig
  <2>2. UNCHANGED arg \/ arg' = [arg EXCEPT !["init"] = None]
    BY <1>5 DEF RegenConfig, EndRun
  <2> QED BY <2>1, <2>2
<1>6. ASSUME NEW p \in Procs, AttachStep(p) PROVE Provenance'
  <2>1. UNCHANGED <<uci, records>>
    BY <1>6
    DEF AttachStep, Attach, AttachRoute, AttachZone, AttachRecord, quietScript
  <2>2. Loads(p)
    BY <1>6
    DEF AttachStep, Attach, AttachRoute, AttachZone, AttachRecord, AttachEnds,
        EndHook, EndRun, quietScript, Procs
  <2> QED BY <2>1, <2>2, <1>1
<1>7. CASE HookStep
  <2>1. UNCHANGED <<uci, records>>
    BY <1>7 DEF HookStep, HookTake, HookCheck, Detach, DetachRest, hookQuiet
  <2>2. Loads("hook")
    BY <1>7 DEF HookStep, HookTake, HookCheck, Detach, DetachRest, EndHook
  <2> QED BY <2>1, <2>2, <1>1 DEF Procs
<1>8. CASE Spawn \/ Exit \/ CreateSomeTun \/ DropTun \/ Crash
  BY <1>8, <1>1
  DEF Spawn, Exit, CreateSomeTun, CreateTun, DropTun, Crash, script
<1>9. ASSUME NEW d \in Devs, ForeignAdd(d) \/ ForeignRemove(d)
      PROVE  Provenance'
  BY <1>9, <1>1 DEF ForeignAdd, ForeignRemove, script
<1>10. ASSUME NEW c \in Configs, Commit(c) PROVE Provenance'
  BY <1>10 DEF Commit, script
<1>11. CASE Reboot
  BY <1>11 DEF Reboot
<1>12. CASE UNCHANGED vars
  BY <1>12 DEF vars, script
<1> QED
  BY <1>2, <1>3, <1>4, <1>5, <1>6, <1>7, <1>8, <1>9, <1>10, <1>11, <1>12
  DEF Next, Command, Environment

\* Every step keeps marked traffic sheltered.
LEMMA ShelteredStep ==
  ASSUME StrictTun, TypeInv, StrictInv, [Next]_vars PROVE Sheltered'
<1> Sheltered
  BY DEF StrictInv
<1>0. /\ pc \in [Procs -> InitLabels \cup HookLabels]
      /\ arg \in [Procs -> Setting \cup {None}]
      /\ Working
      /\ \A s \in {uci} \cup ({records, arg["init"], arg["hook"]} \ {None}) :
           s.strict /\ ~s.proxy /\ s.table \in Tables
  BY SettingsAssumption
  DEF TypeInv, TypeOK, ScriptTypeOK, StrictInv, Provenance, StrictTun, Procs,
      SettingsAssumption, Setting
<1> USE DEF Procs
\* A step that leaves the tables' protection in place, and the init script
\* where nothing is owed.
<1>1. ASSUME UNCHANGED nft, rules \subseteq rules', hole \subseteq hole',
             \/ UNCHANGED <<pc["init"], run, arg["init"]>>
             \/ pc'["init"] \notin {"meter", "down", "downRoutes", "ruleset"}
             \/ pc'["init"] = "down" /\ "keep" \notin run'
      PROVE  Sheltered'
  BY <1>1 DEF Sheltered
<1>2. ASSUME NEW flags, Restart(flags)
      PROVE  \/ pc'["init"] = "unsnap"
             \/ pc'["init"] = "down" /\ "keep" \notin run'
  BY <1>0, <1>2 DEF Restart, StopLabel, Goto
<1>3. ASSUME AbortStart
      PROVE  \/ pc'["init"] = "abandon"
             \/ pc'["init"] = "down" /\ "keep" \notin run'
  BY <1>0, <1>3 DEF AbortStart, Goto
<1>4. ASSUME EndRun PROVE pc'["init"] = "idle"
  BY <1>0, <1>4 DEF EndRun, Goto
<1>5. ASSUME EndHook PROVE UNCHANGED <<pc["init"], arg["init"]>>
  BY <1>0, <1>5 DEF EndHook, Goto
<1>6. CASE \E flags \in SUBSET {"now"} : CallStart(flags) \/ CallRestart(flags)
  BY <1>6, <1>0, <1>1, <1>2 DEF CallStart, CallRestart, Goto, kernel
<1>7. CASE CallStop
  BY <1>7, <1>0, <1>1 DEF CallStop, StopLabel, Goto, kernel
<1>8. CASE CallReload \/ FireTrigger
  BY <1>8, <1>0, <1>1 DEF CallReload, FireTrigger, Goto, kernel
<1>9. CASE ApplyFull
  BY <1>9, <1>1, <1>2 DEF ApplyFull, kernel
<1>10. CASE ApplyByClass
  BY <1>10, <1>0, <1>1, <1>2, <1>4 DEF ApplyByClass, Goto, kernel
<1>11. CASE Reattach
  BY <1>11, <1>0, <1>1, <1>4 DEF Reattach, Goto, kernel
<1>12. CASE Down
  BY <1>12, <1>0, SettingsAssumption
  DEF Down, DownMarks, Sheltered, Goto, SettingsAssumption
<1>13. CASE DownRest
  <2>1. CASE pc["init"] = "downRoutes" /\ DownRoutes(arg["init"])
             /\ Goto("init", "downZone")
    BY <2>1, <1>0, SettingsAssumption
    DEF DownRoutes, Sheltered, Goto, SettingsAssumption
  <2>2. CASE pc["init"] = "downZone"
    BY <2>2, <1>13, <1>0, <1>1 DEF DownRest, ClearZone, Goto
  <2>3. CASE pc["init"] = "downForget"
    BY <2>3, <1>13, <1>0, <1>1 DEF DownRest, ForgetDevice, Goto
  <2> QED BY <1>13, <2>1, <2>2, <2>3 DEF DownRest
<1>14. CASE Unsnap
  BY <1>14, <1>0, <1>1 DEF Unsnap, Goto, kernel
<1>15. CASE Kill
  BY <1>15, <1>0, <1>1, <1>4 DEF Kill, Goto, kernel
<1>16. CASE StartGate
  BY <1>16, <1>0, <1>1, <1>3 DEF StartGate, Goto, kernel
<1>17. CASE RegenConfig
  BY <1>17, <1>0, <1>1, <1>2, <1>3, <1>4
  DEF RegenConfig, BuildFailed, Goto, kernel
<1>18. CASE Meter
  BY <1>18 DEF Meter, Sheltered
<1>19. CASE Up
  BY <1>19, <1>0 DEF Up, UpRule, Sheltered, Goto, Working, RecordLabels
<1>20. CASE Ruleset
  <2>1. CASE /\ UpRuleset(arg["init"])
             /\ Goto("init", IF "reload" \in run THEN "reattach" ELSE "snap")
    <3>1. pc["init"] = "ruleset" /\ pc'["init"] \in {"reattach", "snap"}
      BY <1>20, <2>1, <1>0 DEF Ruleset, Goto
    <3> QED BY <2>1, <3>1 DEF UpRuleset, Sheltered
  <2>2. CASE BuildFailed /\ UNCHANGED kernel
    BY <1>20, <2>2, <1>1, <1>2, <1>3 DEF BuildFailed, kernel
  <2> QED BY <1>20, <2>1, <2>2 DEF Ruleset
<1>21. CASE Snapshot \/ OpenInstance \/ Abandon
  BY <1>21, <1>0, <1>1, <1>4 DEF Snapshot, OpenInstance, Abandon, Goto, kernel
<1>22. CASE AttachClientTun
  BY <1>22, <1>0, <1>1, <1>4 DEF AttachClientTun, Goto, kernel
<1>23. ASSUME NEW p \in Procs, AttachStep(p) PROVE Sheltered'
  <2>1. /\ UNCHANGED <<nft, rules>>
        /\ hole \subseteq hole'
    BY <1>23
    DEF AttachStep, Attach, AttachRoute, AttachZone, AttachRecord, AttachHole,
        AttachDefault, SyncZone, RecordDevice, kernel
  <2>2. CASE p = "hook"
    <3>1. UNCHANGED <<pc["init"], run, arg["init"]>>
      BY <1>23, <2>2, <1>0, <1>5
      DEF AttachStep, Attach, AttachRoute, AttachZone, AttachRecord,
          AttachEnds, Goto, quietScript
    <3> QED BY <2>1, <3>1, <1>1
  <2>3. CASE p = "init"
    <3>1. \/ pc'["init"] \notin {"meter", "down", "downRoutes", "ruleset"}
          \/ pc'["init"] = "down" /\ "keep" \notin run'
      BY <1>23, <2>3, <1>0, <1>2, <1>4
      DEF AttachStep, Attach, AttachRoute, AttachZone, AttachRecord,
          AttachEnds, Goto
    <3> QED BY <2>1, <3>1, <1>1
  <2> QED BY <2>2, <2>3
<1>24. CASE HookStep
  <2>1. /\ UNCHANGED <<nft, rules>>
        /\ hole \subseteq hole'
    BY <1>24, <1>0
    DEF HookStep, HookTake, HookCheck, Detach, DetachRest, DetachRoutes,
        ClearZone, ForgetDevice, kernel, Working
  <2>2. UNCHANGED <<pc["init"], run, arg["init"]>>
    BY <1>24, <1>0, <1>5
    DEF HookStep, HookTake, HookCheck, Detach, DetachRest, Goto, hookQuiet
  <2> QED BY <2>1, <2>2, <1>1
<1>25. CASE Spawn \/ CreateSomeTun
  BY <1>25, <1>1 DEF Spawn, CreateSomeTun, CreateTun, script, kernel
<1>26. CASE Exit \/ DropTun \/ Crash
  BY <1>26, <1>1
  DEF Exit, DropTun, Crash, CloseTun, RemoveLink, script, kernel
<1>27. ASSUME NEW d \in Devs, ForeignAdd(d) \/ ForeignRemove(d)
       PROVE  Sheltered'
  BY <1>27, <1>1 DEF ForeignAdd, ForeignRemove, RemoveLink, script, kernel
<1>28. ASSUME NEW c \in Configs, Commit(c) PROVE Sheltered'
  BY <1>28, <1>1 DEF Commit, script, kernel
<1>29. CASE Reboot
  BY <1>29, SettingsAssumption DEF Reboot, Sheltered, SettingsAssumption
<1>30. CASE UNCHANGED vars
  BY <1>30, <1>1 DEF vars, script, kernel
<1> QED
  BY <1>6, <1>7, <1>8, <1>9, <1>10, <1>11, <1>12, <1>13, <1>14, <1>15, <1>16,
     <1>17, <1>18, <1>19, <1>20, <1>21, <1>22, <1>23, <1>24, <1>25, <1>26,
     <1>27, <1>28, <1>29, <1>30
  DEF Next, Command, InitStep, Environment

\* The invariant of the strict mode is inductive.
LEMMA StrictStep ==
  ASSUME StrictTun, TypeInv, StrictInv, [Next]_vars PROVE StrictInv'
BY ProvenanceStep, ShelteredStep DEF StrictInv

\* Under the invariant the ruleset marks traffic exactly when it is there, and
\* marked traffic has a device or the blackhole to go to.
LEMMA SheltersMarked ==
  ASSUME Sheltered
  PROVE  /\ Marking <=> nft \in Tables
         /\ Marking => Verdict \in {"tunnel", "drop"}
         /\ ~Marking => Verdict = "direct"
BY DEF Sheltered, Marking, Verdict

\* The initial states map to the initial state of the abstract killswitch.
LEMMA KillswitchInit == Init => KS!Init
BY SettingsAssumption
DEF Init, InitWith, RoutingInit, KS!Init, Marking, Verdict, SettingsAssumption

\* The ruleset is installed for a table of the settings.
LEMMA TypeInvRuleset ==
  ASSUME TypeInv, pc["init"] = "ruleset" PROVE arg["init"].table \in Tables
BY DEF TypeInv, TypeOK, ScriptTypeOK, Working, Setting, Procs

\* Only these steps touch the nft table.
LEMMA NftChanges ==
  ASSUME [Next]_vars, ~(Down \/ Ruleset \/ Meter \/ Reboot)
  PROVE  UNCHANGED nft
<1>1. CASE Command \/ FireTrigger
  BY <1>1 DEF Command, CallStart, CallRestart, CallStop, CallReload,
              FireTrigger, kernel
<1>2. CASE InitStep
  BY <1>2
  DEF InitStep, ApplyFull, ApplyByClass, Reattach, DownRest, DownRoutes,
      ClearZone, ForgetDevice, Unsnap, Kill, StartGate, RegenConfig, Up,
      UpRule, Snapshot, OpenInstance, Abandon, AttachClientTun, kernel
<1>3. ASSUME NEW p \in Procs, AttachStep(p) PROVE UNCHANGED nft
  BY <1>3
  DEF AttachStep, Attach, AttachRoute, AttachZone, AttachRecord, AttachHole,
      AttachDefault, SyncZone, RecordDevice, kernel
<1>4. CASE HookStep
  BY <1>4
  DEF HookStep, HookTake, HookCheck, Detach, DetachRest, DetachRoutes,
      ClearZone, ForgetDevice, kernel
<1>5. CASE Spawn \/ CreateSomeTun
  BY <1>5 DEF Spawn, CreateSomeTun, CreateTun, kernel
<1>6. CASE Exit \/ DropTun \/ Crash
  BY <1>6 DEF Exit, DropTun, Crash, CloseTun, RemoveLink, kernel
<1>7. ASSUME NEW d \in Devs, ForeignAdd(d) \/ ForeignRemove(d)
      PROVE  UNCHANGED nft
  BY <1>7 DEF ForeignAdd, ForeignRemove, RemoveLink, kernel
<1>8. ASSUME NEW c \in Configs, Commit(c) PROVE UNCHANGED nft
  BY <1>8 DEF Commit, kernel
<1>9. CASE UNCHANGED vars
  BY <1>9 DEF vars, kernel
<1> QED
  BY <1>1, <1>2, <1>3, <1>4, <1>5, <1>6, <1>7, <1>8, <1>9
  DEF Next, Environment

\* Every step maps to a step, or a stutter, of the abstract killswitch.
LEMMA KillswitchStep ==
  ASSUME StrictTun, TypeInv, StrictInv, [Next]_vars
  PROVE  [KS!Next]_<<Marking, Verdict, "keep" \in run>>
<1> DEFINE Abstract == [KS!Next]_<<Marking, Verdict, "keep" \in run>>
<1> Sheltered /\ Sheltered'
  BY ShelteredStep DEF StrictInv
<1>1. /\ Marking <=> nft \in Tables
      /\ Marking => Verdict \in {"tunnel", "drop"}
      /\ ~Marking => Verdict = "direct"
  BY SheltersMarked
<1>2. /\ Marking' <=> nft' \in Tables
      /\ Marking' => Verdict' \in {"tunnel", "drop"}
      /\ ~Marking' => Verdict' = "direct"
  BY DEF Sheltered, Marking, Verdict
<1>3. ("keep" \in run) \in BOOLEAN /\ ("keep" \in run)' \in BOOLEAN
  OBVIOUS
\* What does not touch the ruleset shifts the verdict at most.
<1>4. ASSUME UNCHANGED nft PROVE Abstract
  <2>1. Marking' <=> Marking
    BY <1>1, <1>2, <1>4
  <2>2. CASE Marking
    <3>1. KS!Shift
      BY <1>1, <1>2, <1>3, <2>1, <2>2 DEF KS!Shift, KS!Protected
    <3> QED BY <3>1 DEF KS!Next
  <2>3. CASE ~Marking
    <3>1. KS!Keep
      BY <1>1, <1>2, <1>3, <2>1, <2>3 DEF KS!Keep
    <3> QED BY <3>1 DEF KS!Next
  <2> QED BY <2>2, <2>3
<1>5. CASE Down
  <2>1. "keep" \notin run /\ UNCHANGED run /\ nft' = None
    BY <1>5 DEF Down, DownMarks, Sheltered
  <2>2. ~Marking'
    BY <1>2, <2>1, SettingsAssumption DEF SettingsAssumption
  <2>3. CASE Marking
    <3>1. KS!Release
      BY <1>1, <1>2, <2>1, <2>2, <2>3 DEF KS!Release
    <3> QED BY <3>1 DEF KS!Next
  <2>4. CASE ~Marking
    <3>0. Marking' <=> Marking
      BY <2>2, <2>4
    <3>1. KS!Keep
      BY <1>1, <1>2, <1>3, <2>4, <3>0 DEF KS!Keep
    <3> QED BY <3>1 DEF KS!Next
  <2> QED BY <2>3, <2>4
<1>6. CASE Ruleset
  <2>1. CASE UNCHANGED kernel
    BY <2>1, <1>4 DEF kernel
  <2>2. CASE UpRuleset(arg["init"]) /\ UNCHANGED run
    <3>1. Marking'
      BY <2>2, <1>6, TypeInvRuleset, <1>2 DEF UpRuleset, Ruleset
    <3>2. CASE Marking
      <4>1. KS!Shift
        BY <1>2, <1>3, <3>1, <3>2 DEF KS!Shift, KS!Protected
      <4> QED BY <4>1 DEF KS!Next
    <3>3. CASE ~Marking
      <4>1. KS!Engage
        BY <1>2, <2>2, <3>1, <3>3 DEF KS!Engage, KS!Protected
      <4> QED BY <4>1 DEF KS!Next
    <3> QED BY <3>2, <3>3
  <2> QED BY <1>6, <2>1, <2>2 DEF Ruleset
<1>7. CASE Meter
  BY <1>7 DEF Meter, Sheltered
<1>8. CASE Reboot
  <2>1. ~Marking' /\ "keep" \notin run'
    BY <1>8, <1>2, SettingsAssumption DEF Reboot, SettingsAssumption
  <2>2. KS!PowerLoss
    BY <1>2, <2>1 DEF KS!PowerLoss
  <2> QED BY <2>2 DEF KS!Next
<1>9. CASE ~(Down \/ Ruleset \/ Meter \/ Reboot)
  <2>1. UNCHANGED nft
    BY <1>9, NftChanges
  <2> QED BY <2>1, <1>4
<1> QED BY <1>5, <1>6, <1>7, <1>8, <1>9

\* The strict mode implements the abstract killswitch (ImplementsKillswitch)
\* whatever the number of devices and tables, the timing of commits, commands,
\* crashes and hotplug events: traffic the profile selects never goes out
\* directly between routing up and routing down.
THEOREM StrictKillswitch == StrictTun => (Spec => ImplementsKillswitch)
<1> SUFFICES ASSUME StrictTun PROVE Spec => ImplementsKillswitch
    OBVIOUS
<1>1. Init => TypeInv /\ StrictInv /\ KS!Init
  BY TypeInvInit, StrictInit, KillswitchInit
<1>2. TypeInv /\ StrictInv /\ [Next]_vars => TypeInv' /\ StrictInv'
  BY TypeInvStep, StrictStep
<1>3. TypeInv /\ StrictInv /\ [Next]_vars
        => [KS!Next]_<<Marking, Verdict, "keep" \in run>>
  BY KillswitchStep
<1> QED BY <1>1, <1>2, <1>3, PTL DEF Spec, ImplementsKillswitch, KS!Spec

-----------------------------------------------------------------------------
(***************************************************************************)
(* A stopped service.  With a second table in play a start over a service  *)
(* that runs with the first one would leave a rule behind: the result is   *)
(* about a router whose network.table never changes.                       *)
(***************************************************************************)

OneTable == \E t : Tables = {t}

\* Nothing marks traffic.
Inert == nft = None /\ rules = {}

\* A stop is on its way to the inert state, unless a start follows it; where
\* the script can end without having stopped or registered anything the
\* service is registered already.
StoppingInv ==
  /\ records = None => Inert
  /\ pc["init"] \in {"downRoutes", "downZone", "downForget"} => Inert
  /\ pc["init"] \in {"unsnap", "kill"} =>
       {"keep", "restart"} \subseteq run \/ Inert
  /\ pc["init"] \in {"reattach", "wait"} \cup AttachLabels => svc = "instance"
  /\ "reload" \in run =>
       /\ svc = "instance"
       /\ pc["init"] \in {"regen", "up", "ruleset", "reattach"}
                            \cup AttachLabels
  /\ pc["init"] = "apply" => run = {}
  /\ StoppedIsInert

\* The invariant of stopping is inductive.
LEMMA StoppingStep ==
  ASSUME OneTable, TypeInv, StoppingInv, [Next]_vars PROVE StoppingInv'
<1>0. /\ pc \in [Procs -> InitLabels \cup HookLabels]
      /\ Working
      /\ records # None => records.table \in Tables
  BY DEF TypeInv, TypeOK, ScriptTypeOK, Setting
<1> USE DEF Procs, StoppedIsInert, InitIdle, AttachLabels
\* What the hook and the world outside the scripts do.
<1>1. ASSUME UNCHANGED <<nft, rules, records, run, svc, pc["init"]>>
      PROVE  StoppingInv'
  BY <1>1 DEF StoppingInv, Inert
\* The init script where it only moves on.
<1>2. ASSUME UNCHANGED <<nft, rules, records, svc>>,
             run' \subseteq run \cup {"now", "abort"},
             pc'["init"] \in {"gate", "regen", "up", "meter", "open", "snap",
                              "down", "abandon"},
             "reload" \notin run
      PROVE  StoppingInv'
  BY <1>2 DEF StoppingInv, Inert
\* Restart, EndRun and AbortStart
<1>3. ASSUME UNCHANGED <<nft, rules, svc>>, NEW flags, Restart(flags),
             records # None => records' # None
      PROVE  StoppingInv'
  BY <1>0, <1>3 DEF Restart, StopLabel, Goto, StoppingInv, Inert
<1>4. ASSUME EndRun, records # None => records' # None,
             UNCHANGED <<nft, rules>>, svc' # "none" \/ Inert
      PROVE  StoppingInv'
  BY <1>0, <1>4 DEF EndRun, Goto, StoppingInv, Inert
<1>5. ASSUME UNCHANGED <<nft, rules, svc>>, AbortStart, "reload" \notin run,
             records # None => records' # None
      PROVE  StoppingInv'
  BY <1>0, <1>5 DEF AbortStart, Goto, StoppingInv, Inert
<1>6. CASE \E flags \in SUBSET {"now"} : CallStart(flags)
  BY <1>6, <1>0
  DEF CallStart, Goto, StoppingInv, Inert, kernel, procd, quietScript
<1>7. CASE \E flags \in SUBSET {"now"} : CallRestart(flags)
  BY <1>7, <1>3 DEF CallRestart, kernel, procd, quietScript
<1>8. CASE CallStop
  BY <1>8, <1>0
  DEF CallStop, StopLabel, Goto, StoppingInv, Inert, kernel, procd, quietScript
<1>9. CASE CallReload \/ FireTrigger
  BY <1>9, <1>0
  DEF CallReload, FireTrigger, Goto, StoppingInv, Inert, kernel, procd,
      quietScript
<1>10. CASE ApplyFull
  BY <1>10, <1>3 DEF ApplyFull, kernel, procd, quietScript
<1>11. CASE ApplyByClass
  <2>1. /\ svc = "instance" /\ run = {}
        /\ UNCHANGED <<nft, rules, records, svc>>
    BY <1>11 DEF ApplyByClass, Running, StoppingInv, kernel, procd
  <2>2. CASE run' = run \cup {"reload"} /\ Goto("init", "regen")
    BY <1>0, <2>1, <2>2 DEF Goto, StoppingInv, Inert
  <2> QED BY <1>11, <1>3, <1>4, <2>1, <2>2 DEF ApplyByClass
<1>12. CASE Reattach
  <2>1. svc = "instance" /\ UNCHANGED <<nft, rules, records, svc>>
    BY <1>12 DEF Reattach, StoppingInv, kernel, procd
  <2>2. CASE Goto("init", "attach") /\ UNCHANGED run
    BY <1>0, <2>1, <2>2 DEF Goto, StoppingInv, Inert
  <2> QED BY <1>12, <1>4, <2>1, <2>2 DEF Reattach
<1>13. CASE Down
  <2>1. nft' = None /\ rules' = {}
    BY <1>13, <1>0
    DEF Down, DownMarks, OneTable, Working, RecordLabels, TypeInv, TypeOK,
        RoutingTypeOK
  <2> QED BY <1>13, <1>0, <2>1 DEF Down, Goto, StoppingInv, Inert, procd
<1>14. CASE DownRest
  BY <1>14, <1>0
  DEF DownRest, DownRoutes, ClearZone, ForgetDevice, Goto, StoppingInv, Inert,
      procd, quietScript
<1>15. CASE Unsnap
  BY <1>15, <1>0 DEF Unsnap, Goto, StoppingInv, Inert, kernel, procd
<1>16. CASE Kill
  <2>1. CASE "restart" \in run
    BY <1>16, <1>0, <2>1 DEF Kill, Goto, StoppingInv, Inert, kernel
  <2>2. CASE "restart" \notin run
    BY <1>16, <1>4, <2>2 DEF Kill, StoppingInv, kernel
  <2> QED BY <2>1, <2>2
<1>17. CASE StartGate
  <2>1. "reload" \notin run /\ UNCHANGED <<nft, rules, records, svc>>
    BY <1>17 DEF StartGate, StoppingInv, kernel, procd, quietScript
  <2>2. CASE Goto("init", "regen") /\ UNCHANGED run
    BY <1>0, <1>2, <2>1, <2>2 DEF Goto
  <2> QED BY <1>17, <1>5, <2>1, <2>2 DEF StartGate
<1>18. CASE RegenConfig
  <2>1. /\ UNCHANGED <<nft, rules, svc>>
        /\ records' # None \/ UNCHANGED records
        /\ "reload" \in run => svc = "instance"
    BY <1>18, SettingsAssumption
    DEF RegenConfig, StoppingInv, kernel, procd, TypeInv, TypeOK, WorldTypeOK,
        SettingsAssumption
  <2>2. CASE /\ Goto("init", IF uci.proxy THEN "meter" ELSE "up")
             /\ ~("reload" \in run /\ uci.proxy)
             /\ UNCHANGED run
    BY <1>0, <2>1, <2>2 DEF Goto, StoppingInv, Inert
  <2>3. CASE EndRun /\ "reload" \in run
    BY <1>4, <2>1, <2>3
  <2>4. CASE BuildFailed
    BY <1>3, <1>5, <2>1, <2>4 DEF BuildFailed
  <2> QED BY <1>18, <2>2, <2>3, <2>4 DEF RegenConfig
<1>19. CASE Meter
  BY <1>19, <1>0
  DEF Meter, InstallMeter, Goto, StoppingInv, Inert, Working, RecordLabels,
      kernel, procd, quietScript
<1>20. CASE Up
  BY <1>20, <1>0
  DEF Up, UpRule, Goto, StoppingInv, Inert, Working, RecordLabels, procd
<1>21. CASE Ruleset
  <2>1. UNCHANGED <<records, svc>> /\ records # None /\ pc["init"] = "ruleset"
    BY <1>21, <1>0 DEF Ruleset, procd, quietScript, Working, RecordLabels
  <2>2. CASE /\ Goto("init", IF "reload" \in run THEN "reattach" ELSE "snap")
             /\ UNCHANGED run
    BY <1>0, <2>1, <2>2 DEF Goto, StoppingInv, Inert
  <2>3. CASE BuildFailed /\ UNCHANGED kernel
    BY <1>3, <1>5, <2>1, <2>3 DEF BuildFailed, kernel
  <2> QED BY <1>21, <2>2, <2>3 DEF Ruleset
<1>22. CASE Snapshot
  BY <1>22, <1>0, <1>2 DEF Snapshot, Goto, StoppingInv, kernel, procd
<1>23. CASE OpenInstance
  <2>1. svc' = "instance" /\ UNCHANGED <<nft, rules, records>>
    BY <1>23 DEF OpenInstance, kernel
  <2>3. "reload" \notin run
    BY <1>23 DEF OpenInstance, StoppingInv
  <2>2. CASE Goto("init", "wait") /\ UNCHANGED run
    BY <1>0, <2>1, <2>2, <2>3 DEF Goto, StoppingInv, Inert
  <2> QED BY <1>23, <1>4, <2>1, <2>2 DEF OpenInstance
<1>24. CASE Abandon
  BY <1>24, <1>4 DEF Abandon, DropInstance, kernel
<1>25. CASE AttachClientTun
  <2>1. svc = "instance" /\ UNCHANGED <<nft, rules, records, svc>>
    BY <1>25 DEF AttachClientTun, StoppingInv, kernel, procd
  <2>2. CASE Goto("init", "attach") /\ UNCHANGED run
    BY <1>0, <2>1, <2>2 DEF Goto, StoppingInv, Inert
  <2> QED BY <1>25, <1>4, <2>1, <2>2 DEF AttachClientTun
<1>26. ASSUME NEW p \in Procs, AttachStep(p) PROVE StoppingInv'
  <2>1. UNCHANGED <<nft, rules, records, svc>>
    BY <1>26
    DEF AttachStep, Attach, AttachRoute, AttachZone, AttachRecord, AttachHole,
        AttachDefault, SyncZone, RecordDevice, kernel, procd, quietScript
  <2>2. CASE p = "hook"
    <3>1. UNCHANGED <<run, pc["init"]>>
      BY <1>26, <1>0, <2>2
      DEF AttachStep, Attach, AttachRoute, AttachZone, AttachRecord,
          AttachEnds, EndHook, Goto
    <3> QED BY <1>1, <2>1, <3>1
  <2>3. CASE p = "init"
    <3>1. svc = "instance"
      BY <1>26, <2>3
      DEF AttachStep, Attach, AttachRoute, AttachZone, AttachRecord,
          StoppingInv
    <3>2. CASE pc'["init"] \in AttachLabels /\ UNCHANGED run
      BY <2>1, <3>1, <3>2 DEF StoppingInv, Inert
    <3>3. CASE EndRun
      BY <1>4, <2>1, <3>1, <3>3
    <3>4. CASE Restart(run)
      BY <1>3, <2>1, <3>4
    <3> QED
      BY <1>26, <1>0, <2>3, <3>2, <3>3, <3>4
      DEF AttachStep, Attach, AttachRoute, AttachZone, AttachRecord,
          AttachEnds, Goto
  <2> QED BY <2>2, <2>3
<1>27. CASE HookStep
  <2>1. UNCHANGED <<nft, rules, records, svc, run>>
    BY <1>27
    DEF HookStep, HookTake, HookCheck, Detach, DetachRest, DetachRoutes,
        ClearZone, ForgetDevice, kernel, hookQuiet, procd
  <2>2. UNCHANGED pc["init"]
    BY <1>27, <1>0
    DEF HookStep, HookTake, HookCheck, Detach, DetachRest, EndHook, Goto
  <2> QED BY <1>1, <2>1, <2>2
<1>28. CASE Spawn \/ CreateSomeTun
  BY <1>28, <1>1 DEF Spawn, CreateSomeTun, CreateTun, script, kernel, procd
<1>29. CASE Exit \/ DropTun \/ Crash
  BY <1>29, <1>1
  DEF Exit, DropTun, Crash, CloseTun, RemoveLink, script, kernel, procd
<1>30. ASSUME NEW d \in Devs, ForeignAdd(d) \/ ForeignRemove(d)
       PROVE  StoppingInv'
  BY <1>30, <1>1
  DEF ForeignAdd, ForeignRemove, RemoveLink, script, kernel, procd
<1>31. ASSUME NEW c \in Configs, Commit(c) PROVE StoppingInv'
  BY <1>31, <1>1 DEF Commit, script, kernel
<1>32. CASE Reboot
  BY <1>32 DEF Reboot, StoppingInv, Inert
<1>33. CASE UNCHANGED vars
  BY <1>33, <1>1 DEF vars, script, kernel, procd
<1> QED
  BY <1>6, <1>7, <1>8, <1>9, <1>10, <1>11, <1>12, <1>13, <1>14, <1>15, <1>16,
     <1>17, <1>18, <1>19, <1>20, <1>21, <1>22, <1>23, <1>24, <1>25, <1>26,
     <1>27, <1>28, <1>29, <1>30, <1>31, <1>32, <1>33
  DEF Next, Command, InitStep, Environment

\* Once a stop has gone through, neither the ruleset nor the rule is left
\* (StoppedIsInert), even when the stop follows a failed start or races the
\* hotplug hook.
THEOREM StoppedInert == OneTable => (Spec => []StoppedIsInert)
<1> SUFFICES ASSUME OneTable PROVE Spec => []StoppedIsInert
    OBVIOUS
<1>1. Init => TypeInv /\ StoppingInv
  <2>1. Init => StoppingInv
    BY DEF Init, InitWith, RoutingInit, StoppingInv, StoppedIsInert, Inert, Procs,
           AttachLabels
  <2> QED BY <2>1, TypeInvInit
<1>2. TypeInv /\ StoppingInv /\ [Next]_vars => TypeInv' /\ StoppingInv'
  BY TypeInvStep, StoppingStep
<1>3. StoppingInv => StoppedIsInert
  BY DEF StoppingInv
<1> QED BY <1>1, <1>2, <1>3, PTL DEF Spec

(***************************************************************************)
(* One table in force.                                                     *)
(***************************************************************************)

\* Settings are committed when the former ones have taken effect, and start
\* is called when the service is down.
Orderly == ~FreeCommits /\ ~FreeStarts

NoFaultYet == chance["fault"] = Budget["fault"]

\* Nothing marks traffic; the rule alone is left by a failed `routing up`.
Bare ==
  /\ nft = None
  /\ NoFaultYet => rules = {}

\* A mark goes with the table the applied records name, the meter with their
\* proxy mode; so do the rules.
MarksApplied ==
  /\ nft \in Tables => records # None /\ ~records.proxy /\ nft = records.table
  /\ nft = Metered => records # None /\ records.proxy

OnlyApplied ==
  /\ MarksApplied
  /\ NoFaultYet =>
       \A t \in rules : records # None /\ ~records.proxy /\ t = records.table

StoppingLabels == {"downRoutes", "downZone", "downForget", "abandon"}

\* A start that keeps nothing begins with nothing.
TakenDown ==
  /\ pc["init"] \in StoppingLabels => Bare
  /\ /\ pc["init"] \in {"unsnap", "kill", "gate", "regen"}
     /\ "keep" \notin run /\ "reload" \notin run
     => Bare
  /\ /\ pc["init"] \in {"up", "ruleset"}
     /\ "keep" \notin run /\ "reload" \notin run
     => nft = None
  /\ InitIdle /\ svc # "instance" => Bare

\* A start that keeps the routing is for the same table and mode.
SameTable ==
  "keep" \in run \/ "reload" \in run =>
    records # None /\ uci.table = records.table /\ uci.proxy = records.proxy

\* Which part of the script each flag belongs to.
Stages ==
  /\ pc["init"] \in {"idle", "apply"} => run = {}
  /\ "keep" \in run => pc["init"] \notin {"down"} \cup StoppingLabels
  /\ "keep" \in run /\ pc["init"] \in {"unsnap", "kill"} => "restart" \in run
  /\ "reload" \in run =>
       /\ svc = "instance"
       /\ pc["init"] \in {"regen", "up", "ruleset", "reattach"} \cup AttachLabels
  /\ pc["init"] \in {"wait", "reattach"} \cup AttachLabels => svc = "instance"
  /\ pc["init"] \in {"up", "ruleset"} => ~records.proxy
  /\ pc["init"] = "ruleset" => arg["init"] = records
  /\ pc["init"] = "meter" => records.proxy

AppliedInv ==
  /\ chance["fault"] <= Budget["fault"]
  /\ OnlyApplied
  /\ TakenDown
  /\ SameTable
  /\ Stages

\* Every step keeps what diverts traffic to the applied records.
LEMMA AppliedStep ==
  ASSUME Orderly, TypeInv, AppliedInv, [Next]_vars
  PROVE  AppliedInv'
<1>1. /\ pc \in [Procs -> InitLabels \cup HookLabels]
      /\ arg \in [Procs -> Setting \cup {None}]
      /\ nft \in Tables \cup {None, Metered} /\ rules \subseteq Tables
      /\ records \in Setting \cup {None} /\ uci \in Setting
      /\ "init" \in Procs /\ "hook" \in Procs
  BY DEF TypeInv, TypeOK, RoutingTypeOK, ScriptTypeOK, WorldTypeOK, Procs
<1>2. /\ chance'["fault"] <= Budget["fault"]
      /\ NoFaultYet' => NoFaultYet
      /\ Spend("fault") => ~NoFaultYet'
  <2>1. /\ chance["fault"] \in Nat /\ chance'["fault"] \in Nat
        /\ Budget["fault"] \in Nat /\ chance'["fault"] <= chance["fault"]
    BY ChancesSpent, TypeInvStep, ServiceAssumption
    DEF TypeInv, TypeOK, WorldTypeOK, ServiceAssumption, Chances
  <2>2. Spend("fault") => chance'["fault"] = chance["fault"] - 1
    BY DEF Spend, TypeInv, TypeOK, WorldTypeOK, Chances
  <2> QED
    BY <2>1, <2>2 DEF AppliedInv, NoFaultYet
<1>3. None \notin Tables \cup Setting /\ Metered \notin Tables \cup {None}
  BY SettingsAssumption, RoutingAssumption
  DEF SettingsAssumption, RoutingAssumption
<1>4. OnlyApplied /\ TakenDown /\ SameTable /\ Stages
  BY DEF AppliedInv
<1> SUFFICES OnlyApplied' /\ TakenDown' /\ SameTable' /\ Stages'
  BY <1>2 DEF AppliedInv
\* What leaves the marks and the records alone leaves them in agreement.
<1>5. ASSUME UNCHANGED <<nft, rules, records>> PROVE OnlyApplied'
  BY <1>2, <1>4, <1>5 DEF OnlyApplied, MarksApplied
<1>6. ASSUME UNCHANGED <<nft, rules>>, Bare PROVE OnlyApplied' /\ Bare'
  BY <1>2, <1>3, <1>6 DEF OnlyApplied, MarksApplied, Bare
<1>7. records = None => Bare
  BY <1>1, <1>3, <1>4 DEF OnlyApplied, MarksApplied, Bare
\* Every other process, and the steps of this one that stay on course
<1>8. ASSUME UNCHANGED <<nft, rules, records, svc, uci, run>>,
             pc'["init"] = pc["init"], arg'["init"] = arg["init"]
      PROVE  OnlyApplied' /\ TakenDown' /\ SameTable' /\ Stages'
  BY <1>2, <1>4, <1>5, <1>8
  DEF TakenDown, SameTable, Stages, Bare, InitIdle
\* Restart, EndRun and AbortStart
<1>9. ASSUME UNCHANGED <<nft, rules, svc, uci>>, OnlyApplied', NEW flags,
             Restart(flags),
             "keep" \in flags =>
               /\ records' # None
               /\ uci.table = records'.table /\ uci.proxy = records'.proxy
      PROVE  OnlyApplied' /\ TakenDown' /\ SameTable' /\ Stages'
  <2>1. /\ pc'["init"] \in {"down", "unsnap"}
        /\ pc'["init"] = "unsnap" => "keep" \in flags \/ records = None
        /\ pc'["init"] = "down" => "keep" \notin flags
        /\ run' = (flags \ {"reload"}) \cup {"restart"}
    BY <1>1, <1>9 DEF Restart, StopLabel, Goto
  <2>2. records = None => Bare'
    BY <1>6, <1>7, <1>9
  <2>3. TakenDown'
    BY <2>1, <2>2 DEF TakenDown, StoppingLabels, InitIdle
  <2>4. SameTable'
    BY <1>9, <2>1 DEF SameTable
  <2> QED
    BY <1>9, <2>1, <2>3, <2>4 DEF Stages, StoppingLabels, AttachLabels
<1>10. ASSUME UNCHANGED <<nft, rules, uci>>, OnlyApplied', EndRun,
              svc' = "instance" \/ Bare
       PROVE  OnlyApplied' /\ TakenDown' /\ SameTable' /\ Stages'
  <2>1. pc'["init"] = "idle" /\ run' = {}
    BY <1>1, <1>10 DEF EndRun, Goto
  <2>2. Bare => Bare'
    BY <1>6, <1>10
  <2> QED
    BY <1>10, <2>1, <2>2
    DEF TakenDown, SameTable, Stages, StoppingLabels, AttachLabels, InitIdle
<1>11. ASSUME UNCHANGED <<nft, rules, svc, uci>>, OnlyApplied', AbortStart,
              "reload" \notin run, "keep" \notin run => Bare'
       PROVE  OnlyApplied' /\ TakenDown' /\ SameTable' /\ Stages'
  <2>1. /\ pc'["init"] = IF "keep" \in run THEN "down" ELSE "abandon"
        /\ run' = (run \ {"keep"}) \cup {"abort"}
    BY <1>1, <1>4, <1>11 DEF AbortStart, Goto, SameTable
  <2> QED
    BY <1>11, <2>1
    DEF TakenDown, SameTable, Stages, StoppingLabels, AttachLabels, InitIdle
\* The script moves on to another label, with what this label asks for.
<1>12. ASSUME UNCHANGED <<uci, run>>, OnlyApplied', NEW label,
              Goto("init", label),
              label \in {"gate", "regen", "up", "ruleset", "meter", "reattach",
                         "snap", "open", "wait", "unsnap", "kill"}
                          \cup StoppingLabels \cup AttachLabels,
              "keep" \in run \/ "reload" \in run => UNCHANGED records,
              label \in StoppingLabels => Bare' /\ "keep" \notin run,
              /\ label \in {"unsnap", "kill", "gate", "regen"}
              /\ "keep" \notin run /\ "reload" \notin run
              => Bare',
              /\ label \in {"up", "ruleset"}
              /\ "keep" \notin run /\ "reload" \notin run
              => nft' = None,
              "keep" \in run /\ label \in {"unsnap", "kill"}
                => "restart" \in run,
              "reload" \in run =>
                /\ UNCHANGED svc
                /\ label \in {"regen", "up", "ruleset", "reattach"}
                               \cup AttachLabels,
              label \in {"wait", "reattach"} \cup AttachLabels
                => svc' = "instance",
              label \in {"up", "ruleset"} => ~records'.proxy,
              label = "ruleset" => arg'["init"] = records',
              label = "meter" => records'.proxy
       PROVE  OnlyApplied' /\ TakenDown' /\ SameTable' /\ Stages'
  <2>1. pc'["init"] = label /\ label \notin {"idle", "apply", "down"}
    BY <1>1, <1>12 DEF Goto, StoppingLabels, AttachLabels
  <2>2. TakenDown' /\ SameTable'
    BY <1>4, <1>12, <2>1 DEF TakenDown, SameTable, InitIdle
  <2>3. Stages'
    BY <1>4, <1>12, <2>1 DEF Stages
  <2> QED
    BY <1>12, <2>2, <2>3
<1>13. CASE \E flags \in SUBSET {"now"} : CallStart(flags)
  <2>1. /\ InitIdle /\ Bare /\ "keep" \notin run' /\ "reload" \notin run'
        /\ UNCHANGED <<nft, rules, records, svc, uci>>
        /\ pc'["init"] = "gate"
    BY <1>1, <1>4, <1>13
    DEF CallStart, Call, TakenDown, Orderly, Goto, kernel, procd, quietScript
  <2> QED
    BY <1>5, <1>6, <2>1
    DEF TakenDown, SameTable, Stages, InitIdle, StoppingLabels, AttachLabels
<1>14. CASE \E flags \in SUBSET {"now"} : CallRestart(flags)
  BY <1>5, <1>9, <1>14 DEF CallRestart, kernel, procd, quietScript
<1>15. CASE CallStop
  <2>1. /\ UNCHANGED <<nft, rules, records, svc, uci>> /\ run' = {}
        /\ pc'["init"] = IF records # None THEN "down" ELSE "unsnap"
    BY <1>1, <1>15
    DEF CallStop, StopLabel, Goto, kernel, procd, quietScript
  <2> QED
    BY <1>5, <1>6, <1>7, <2>1
    DEF TakenDown, SameTable, Stages, InitIdle, StoppingLabels, AttachLabels
<1>16. CASE CallReload \/ FireTrigger
  <2>1. /\ UNCHANGED <<nft, rules, records, svc, uci>> /\ run' = {}
        /\ pc'["init"] = "apply"
    BY <1>1, <1>16 DEF CallReload, FireTrigger, Goto, kernel, procd, quietScript
  <2> QED
    BY <1>5, <2>1
    DEF TakenDown, SameTable, Stages, InitIdle, StoppingLabels, AttachLabels
<1>17. CASE ApplyFull
  BY <1>4, <1>5, <1>9, <1>17
  DEF ApplyFull, Stages, kernel, procd, quietScript
<1>18. CASE ApplyByClass
  <2>1. /\ svc = "instance" /\ run = {} /\ pc["init"] = "apply"
        /\ records # None
        /\ UNCHANGED <<nft, rules, records, svc, uci>>
    BY <1>4, <1>18 DEF ApplyByClass, Running, Stages, kernel, procd
  <2>2. ClassOf(records, uci) \in {"reload", "restart"} =>
          uci.table = records.table /\ uci.proxy = records.proxy
    BY DEF ClassOf
  <2>3. CASE EndRun
    BY <1>5, <1>10, <2>1, <2>3
  <2>4. CASE /\ ClassOf(records, uci) = "reload"
             /\ run' = run \cup {"reload"} /\ Goto("init", "regen")
    <3>1. pc'["init"] = "regen" /\ run' = {"reload"}
      BY <1>1, <2>1, <2>4 DEF Goto
    <3> QED
      BY <1>5, <2>1, <2>2, <2>4, <3>1
      DEF TakenDown, SameTable, Stages, InitIdle, StoppingLabels
  <2>5. CASE ClassOf(records, uci) = "restart" /\ Restart(run \cup {"keep"})
    BY <1>5, <1>9, <2>1, <2>2, <2>5
  <2>6. CASE Restart(run)
    BY <1>5, <1>9, <2>1, <2>6
  <2> QED
    BY <1>18, <2>3, <2>4, <2>5, <2>6 DEF ApplyByClass
<1>19. CASE Reattach
  <2>1. /\ svc = "instance" /\ pc["init"] = "reattach"
        /\ UNCHANGED <<nft, rules, records, svc, uci>>
    BY <1>4, <1>19 DEF Reattach, Stages, kernel, procd
  <2>2. CASE Goto("init", "attach") /\ UNCHANGED run
    BY <1>5, <1>12, <2>1, <2>2 DEF AttachLabels, StoppingLabels
  <2> QED
    BY <1>5, <1>10, <1>19, <2>1, <2>2 DEF Reattach
<1>20. CASE Down
  <2>1. nft' = None /\ (NoFaultYet => rules' = {})
    BY <1>1, <1>4, <1>20
    DEF Down, DownMarks, OnlyApplied, MarksApplied, Working, RecordLabels,
        TypeInv
  <2>2. Bare' /\ OnlyApplied'
    BY <1>2, <1>3, <2>1 DEF Bare, OnlyApplied, MarksApplied
  <2>3. /\ Goto("init", "downRoutes") /\ UNCHANGED <<records, run, svc, uci>>
        /\ "keep" \notin run /\ "reload" \notin run
    BY <1>4, <1>20 DEF Down, Stages, AttachLabels, procd
  <2> QED
    BY <1>12, <2>2, <2>3 DEF StoppingLabels, AttachLabels
<1>21. CASE DownRest
  <2>1. /\ Bare /\ UNCHANGED <<nft, rules, records, run, svc, uci>>
        /\ "keep" \notin run /\ "reload" \notin run
    BY <1>4, <1>21
    DEF DownRest, DownRoutes, ClearZone, ForgetDevice, TakenDown, Stages,
        StoppingLabels, AttachLabels, procd, quietScript
  <2>2. PICK label \in {"downZone", "downForget", "abandon", "unsnap"} :
          Goto("init", label)
    BY <1>21 DEF DownRest
  <2> QED
    BY <1>6, <1>12, <2>1, <2>2 DEF StoppingLabels, AttachLabels
<1>22. CASE Unsnap
  <2>1. /\ UNCHANGED <<nft, rules, records, run, svc, uci>>
        /\ Goto("init", "kill") /\ pc["init"] = "unsnap"
    BY <1>22 DEF Unsnap, kernel, procd
  <2>2. "keep" \notin run /\ "reload" \notin run => Bare
    BY <1>4, <2>1 DEF TakenDown
  <2> QED
    BY <1>4, <1>5, <1>6, <1>12, <2>1, <2>2
    DEF Stages, StoppingLabels, AttachLabels
<1>23. CASE Kill
  <2>1. /\ UNCHANGED <<nft, rules, records, uci>> /\ pc["init"] = "kill"
        /\ "reload" \notin run
    BY <1>4, <1>23 DEF Kill, Stages, AttachLabels, kernel
  <2>2. "keep" \notin run => Bare
    BY <1>4, <2>1 DEF TakenDown
  <2>3. CASE "restart" \in run
    <3>1. run' = run \ {"restart"} /\ pc'["init"] = "gate"
      BY <1>1, <1>23, <2>3 DEF Kill, Goto
    <3> QED
      BY <1>4, <1>5, <1>6, <2>1, <2>2, <3>1
      DEF TakenDown, SameTable, Stages, InitIdle, StoppingLabels, AttachLabels
  <2>4. CASE "restart" \notin run
    <3>1. "keep" \notin run
      BY <1>4, <2>1, <2>4 DEF Stages
    <3> QED
      BY <1>5, <1>10, <1>23, <2>1, <2>2, <2>4, <3>1 DEF Kill
  <2> QED
    BY <2>3, <2>4
<1>24. CASE StartGate
  <2>1. /\ UNCHANGED <<nft, rules, records, svc, uci>> /\ pc["init"] = "gate"
        /\ "reload" \notin run
    BY <1>4, <1>24
    DEF StartGate, Stages, AttachLabels, kernel, procd, quietScript
  <2>2. "keep" \notin run => Bare
    BY <1>4, <2>1 DEF TakenDown
  <2>3. CASE Goto("init", "regen") /\ UNCHANGED run
    BY <1>5, <1>6, <1>12, <2>1, <2>2, <2>3 DEF StoppingLabels, AttachLabels
  <2> QED
    BY <1>5, <1>6, <1>11, <1>24, <2>1, <2>2, <2>3 DEF StartGate
<1>25. CASE RegenConfig
  <2>1. /\ UNCHANGED <<nft, rules, svc, uci>> /\ pc["init"] = "regen"
        /\ records' = uci \/ UNCHANGED records
    BY <1>25 DEF RegenConfig, kernel, procd
  <2>2. "keep" \notin run /\ "reload" \notin run => Bare
    BY <1>4, <2>1 DEF TakenDown
  <2>3. "keep" \in run \/ "reload" \in run =>
          /\ records' # None
          /\ uci.table = records'.table /\ uci.proxy = records'.proxy
    BY <1>1, <1>3, <1>4, <2>1 DEF SameTable
  <2>4. OnlyApplied'
    <3>1. CASE "keep" \in run \/ "reload" \in run
      BY <1>2, <1>4, <2>1, <2>3, <3>1 DEF OnlyApplied, MarksApplied, SameTable
    <3>2. CASE "keep" \notin run /\ "reload" \notin run
      BY <1>6, <2>1, <2>2, <3>2
    <3> QED
      BY <3>1, <3>2
  <2>5. CASE BuildFailed
    <3>1. CASE "reload" \in run
      BY <1>9, <2>1, <2>3, <2>4, <2>5, <3>1 DEF BuildFailed
    <3>2. CASE "reload" \notin run
      BY <1>6, <1>11, <2>1, <2>2, <2>4, <2>5, <3>2 DEF BuildFailed
    <3> QED
      BY <3>1, <3>2
  <2>6. CASE EndRun /\ "reload" \in run
    BY <1>4, <1>10, <2>1, <2>4, <2>6 DEF Stages
  <2>7. CASE /\ records' = uci
             /\ Goto("init", IF uci.proxy THEN "meter" ELSE "up")
             /\ ~("reload" \in run /\ uci.proxy)
             /\ UNCHANGED run
    <3>1. /\ pc'["init"] = IF uci.proxy THEN "meter" ELSE "up"
          /\ uci.proxy \in BOOLEAN
      BY <1>1, <2>7 DEF Goto, Setting
    <3>2. TakenDown'
      BY <2>1, <2>2, <2>7, <3>1 DEF TakenDown, StoppingLabels, InitIdle, Bare
    <3>3. SameTable'
      BY <2>1, <2>3, <2>7 DEF SameTable
    <3>4. Stages'
      BY <1>4, <2>1, <2>7, <3>1 DEF Stages, StoppingLabels, AttachLabels
    <3> QED
      BY <2>4, <3>2, <3>3, <3>4
  <2> QED
    BY <1>25, <2>5, <2>6, <2>7 DEF RegenConfig
<1>26. CASE Meter
  <2>1. /\ UNCHANGED <<rules, records, run, svc, uci>>
        /\ nft' = Metered \/ UNCHANGED nft
        /\ Goto("init", "open") /\ pc["init"] = "meter"
    BY <1>26 DEF Meter, InstallMeter, kernel, procd, quietScript
  <2>2. records # None /\ records.proxy /\ "reload" \notin run
    BY <1>4, <2>1
    DEF Stages, AttachLabels, TypeInv, Working, RecordLabels
  <2>3. OnlyApplied'
    BY <1>2, <1>3, <1>4, <2>1, <2>2 DEF OnlyApplied, MarksApplied
  <2> QED
    BY <1>12, <2>1, <2>2, <2>3 DEF StoppingLabels, AttachLabels
<1>27. CASE Up
  <2>1. /\ UNCHANGED <<nft, records, run, svc, uci>>
        /\ rules' = rules \cup {records.table} /\ arg'["init"] = records
        /\ Goto("init", "ruleset") /\ pc["init"] = "up"
    BY <1>1, <1>27 DEF Up, UpRule, procd
  <2>2. records # None /\ ~records.proxy
    BY <1>4, <2>1 DEF Stages, TypeInv, Working, RecordLabels
  <2>3. OnlyApplied'
    BY <1>2, <1>4, <2>1, <2>2 DEF OnlyApplied, MarksApplied
  <2> QED
    BY <1>4, <1>12, <2>1, <2>2, <2>3
    DEF StoppingLabels, AttachLabels, Stages, TakenDown
<1>28. CASE Ruleset
  <2>1. /\ UNCHANGED <<rules, records, svc, uci>> /\ pc["init"] = "ruleset"
        /\ records # None /\ ~records.proxy /\ arg["init"] = records
    BY <1>4, <1>28
    DEF Ruleset, UpRuleset, Stages, TypeInv, Working, RecordLabels, kernel,
        procd, quietScript
  <2>2. CASE /\ nft' = records.table /\ UNCHANGED run
             /\ Goto("init", IF "reload" \in run THEN "reattach" ELSE "snap")
    <3>1. OnlyApplied'
      BY <1>1, <1>2, <1>3, <1>4, <2>1, <2>2
      DEF OnlyApplied, MarksApplied, Setting
    <3> QED
      BY <1>4, <1>12, <2>1, <2>2, <3>1
      DEF Stages, StoppingLabels, AttachLabels
  <2>3. CASE Spend("fault") /\ BuildFailed /\ UNCHANGED <<nft>>
    <3>1. CASE "reload" \in run
      BY <1>4, <1>5, <1>9, <2>1, <2>3, <3>1 DEF BuildFailed, SameTable
    <3>2. CASE "reload" \notin run
      <4>1. "keep" \notin run => Bare'
        BY <1>2, <1>4, <2>1, <2>3, <3>2 DEF TakenDown, Bare
      <4> QED
        BY <1>5, <1>11, <2>1, <2>3, <3>2, <4>1 DEF BuildFailed
    <3> QED
      BY <3>1, <3>2
  <2> QED
    BY <1>28, <2>1, <2>2, <2>3 DEF Ruleset, UpRuleset, kernel
<1>29. CASE Snapshot
  <2>1. /\ UNCHANGED <<nft, rules, records, run, svc, uci>>
        /\ Goto("init", "open") /\ pc["init"] = "snap"
    BY <1>29 DEF Snapshot, kernel, procd
  <2> QED
    BY <1>4, <1>5, <1>12, <2>1 DEF Stages, StoppingLabels, AttachLabels
<1>30. CASE OpenInstance
  <2>1. /\ UNCHANGED <<nft, rules, records, uci>> /\ svc' = "instance"
        /\ pc["init"] = "open" /\ "reload" \notin run
    BY <1>4, <1>30 DEF OpenInstance, Stages, AttachLabels, kernel
  <2>2. CASE Goto("init", "wait") /\ UNCHANGED run
    BY <1>5, <1>12, <2>1, <2>2 DEF StoppingLabels, AttachLabels
  <2> QED
    BY <1>5, <1>10, <1>30, <2>1, <2>2 DEF OpenInstance
<1>31. CASE Abandon
  <2>1. /\ UNCHANGED <<nft, rules, records, uci>> /\ Bare /\ EndRun
    BY <1>4, <1>31 DEF Abandon, TakenDown, StoppingLabels, kernel
  <2> QED
    BY <1>5, <1>10, <2>1
<1>32. CASE AttachClientTun
  <2>1. /\ UNCHANGED <<nft, rules, records, uci, svc>> /\ svc = "instance"
        /\ pc["init"] = "wait" /\ "reload" \notin run
    BY <1>4, <1>32 DEF AttachClientTun, Stages, AttachLabels, kernel, procd
  <2>2. CASE Goto("init", "attach") /\ UNCHANGED run
    BY <1>5, <1>12, <2>1, <2>2 DEF StoppingLabels, AttachLabels
  <2> QED
    BY <1>5, <1>10, <1>32, <2>1, <2>2 DEF AttachClientTun
<1>33. ASSUME NEW p \in Procs, AttachStep(p)
       PROVE  OnlyApplied' /\ TakenDown' /\ SameTable' /\ Stages'
  <2>1. UNCHANGED <<nft, rules, records, svc, uci>>
    BY <1>33
    DEF AttachStep, Attach, AttachRoute, AttachZone, AttachRecord, AttachHole,
        AttachDefault, SyncZone, RecordDevice, kernel, procd, quietScript
  <2>2. CASE p = "hook"
    <3>1. UNCHANGED run /\ pc'["init"] = pc["init"] /\ arg'["init"] = arg["init"]
      BY <1>1, <1>33, <2>2
      DEF AttachStep, Attach, AttachRoute, AttachZone, AttachRecord,
          AttachEnds, EndHook, Goto, quietScript
    <3> QED
      BY <1>8, <2>1, <3>1
  <2>3. CASE p = "init"
    <3>1. svc = "instance"
      BY <1>4, <1>33, <2>3
      DEF AttachStep, Attach, AttachRoute, AttachZone, AttachRecord,
          AttachLabels, Stages
    <3>2. ASSUME NEW label \in AttachLabels, Goto("init", label), UNCHANGED run
          PROVE  OnlyApplied' /\ TakenDown' /\ SameTable' /\ Stages'
      BY <1>5, <1>12, <2>1, <3>1, <3>2 DEF AttachLabels, StoppingLabels
    <3>3. CASE EndRun
      BY <1>5, <1>10, <2>1, <3>1, <3>3
    <3>4. CASE Restart(run)
      BY <1>4, <1>5, <1>9, <2>1, <3>4 DEF SameTable
    <3> QED
      BY <1>33, <2>3, <3>2, <3>3, <3>4
      DEF AttachStep, Attach, AttachRoute, AttachZone, AttachRecord,
          AttachEnds, AttachLabels
  <2> QED
    BY <2>2, <2>3 DEF Procs
<1>34. CASE HookStep
  <2>1. UNCHANGED <<nft, rules, records, svc, run, uci>>
    BY <1>34
    DEF HookStep, HookTake, HookCheck, Detach, DetachRest, DetachRoutes,
        ClearZone, ForgetDevice, kernel, hookQuiet, procd
  <2>2. pc'["init"] = pc["init"] /\ arg'["init"] = arg["init"]
    BY <1>1, <1>34
    DEF HookStep, HookTake, HookCheck, Detach, DetachRest, EndHook, Goto
  <2> QED
    BY <1>8, <2>1, <2>2
<1>35. CASE Spawn \/ CreateSomeTun
  BY <1>8, <1>35 DEF Spawn, CreateSomeTun, CreateTun, script, kernel, procd
<1>36. CASE Exit \/ DropTun \/ Crash
  BY <1>8, <1>36
  DEF Exit, DropTun, Crash, CloseTun, RemoveLink, script, kernel, procd
<1>37. ASSUME NEW d \in Devs, ForeignAdd(d) \/ ForeignRemove(d)
       PROVE  OnlyApplied' /\ TakenDown' /\ SameTable' /\ Stages'
  BY <1>8, <1>37
  DEF ForeignAdd, ForeignRemove, RemoveLink, script, kernel, procd
<1>38. ASSUME NEW c \in Configs, Commit(c)
       PROVE  OnlyApplied' /\ TakenDown' /\ SameTable' /\ Stages'
  <2>1. /\ UNCHANGED <<nft, rules, records, svc, run, pc, arg>>
        /\ InitIdle
    BY <1>38 DEF Commit, Orderly, script, kernel
  <2> QED
    BY <1>2, <1>4, <1>5, <2>1
    DEF TakenDown, SameTable, Stages, Bare, InitIdle, StoppingLabels,
        AttachLabels
<1>39. CASE Reboot
  <2>1. /\ nft' = None /\ rules' = {} /\ run' = {} /\ pc'["init"] = "idle"
    BY <1>39 DEF Reboot, Procs
  <2> QED
    BY <1>3, <2>1
    DEF OnlyApplied, MarksApplied, TakenDown, SameTable, Stages, Bare, InitIdle,
        StoppingLabels, AttachLabels
<1>40. CASE UNCHANGED vars
  BY <1>8, <1>40 DEF vars, script, kernel, procd
<1> QED
  BY <1>13, <1>14, <1>15, <1>16, <1>17, <1>18, <1>19, <1>20, <1>21, <1>22,
     <1>23, <1>24, <1>25, <1>26, <1>27, <1>28, <1>29, <1>30, <1>31, <1>32,
     <1>33, <1>34, <1>35, <1>36, <1>37, <1>38, <1>39, <1>40
  DEF Next, Command, InitStep, Environment

LEMMA AppliedInit ==
  ASSUME Init
  PROVE  AppliedInv
<1>1. chance["fault"] <= Budget["fault"]
  BY ServiceAssumption DEF Init, InitWith, ServiceAssumption, Chances
<1> QED
  BY <1>1, SettingsAssumption, RoutingAssumption
  DEF Init, InitWith, RoutingInit, AppliedInv, OnlyApplied, MarksApplied, TakenDown,
      SameTable, Stages, Bare, InitIdle, Procs, StoppingLabels, AttachLabels,
      SettingsAssumption, RoutingAssumption

\* What users and scripts rely on between two runs of the init script.
CleanBetweenRuns == OnlyAppliedTable /\ ModesExclusive /\ StoppedIsInert

\* The three of them at once.
LEMMA CleanRuns == Orderly => (Spec => [](NoFaultYet => CleanBetweenRuns))
<1> SUFFICES ASSUME Orderly PROVE Spec => [](NoFaultYet => CleanBetweenRuns)
  OBVIOUS
<1>1. Init => TypeInv /\ AppliedInv
  BY TypeInvInit, AppliedInit
<1>2. TypeInv /\ AppliedInv /\ [Next]_vars => TypeInv' /\ AppliedInv'
  BY TypeInvStep, AppliedStep
<1>3. TypeInv /\ AppliedInv => (NoFaultYet => CleanBetweenRuns)
  <2> SUFFICES ASSUME TypeInv, AppliedInv, NoFaultYet PROVE CleanBetweenRuns
    OBVIOUS
  <2>1. rules \subseteq Tables
    BY DEF TypeInv, TypeOK, RoutingTypeOK
  <2>2. OnlyAppliedTable /\ ModesExclusive
    BY <2>1
    DEF AppliedInv, OnlyApplied, MarksApplied, OnlyAppliedTable, ModesExclusive
  <2>3. StoppedIsInert
    BY DEF AppliedInv, TakenDown, Bare, StoppedIsInert
  <2> QED
    BY <2>2, <2>3 DEF CleanBetweenRuns
<1> QED
  BY <1>1, <1>2, <1>3, PTL DEF Spec

\* As long as no tool the scripts run has failed, the rule and the marks are
\* those of the applied records, with any number of tables: nothing of a former
\* table is left behind, across crashes, power losses and every class of Save &
\* Apply.
THEOREM OneTableInForce ==
  Orderly => (Spec => [](NoFaultYet => OnlyAppliedTable))
<1>1. (NoFaultYet => CleanBetweenRuns) => (NoFaultYet => OnlyAppliedTable)
  BY DEF CleanBetweenRuns
<1> QED
  BY <1>1, CleanRuns, PTL

\* In the same circumstances the meter of the proxy mode and the rule of the
\* tun mode never stand side by side, however often the mode is changed.
THEOREM OneModeInForce ==
  Orderly => (Spec => [](NoFaultYet => ModesExclusive))
<1>1. (NoFaultYet => CleanBetweenRuns) => (NoFaultYet => ModesExclusive)
  BY DEF CleanBetweenRuns
<1> QED
  BY <1>1, CleanRuns, PTL

\* And a stop leaves nothing behind, also when there are several tables.
THEOREM StoppedInertTables ==
  Orderly => (Spec => [](NoFaultYet => StoppedIsInert))
<1>1. (NoFaultYet => CleanBetweenRuns) => (NoFaultYet => StoppedIsInert)
  BY DEF CleanBetweenRuns
<1> QED
  BY <1>1, CleanRuns, PTL

\* Whatever fails, the ruleset in force is that of the applied records: a mark
\* always goes with the table the records name, the meter with the proxy mode.
THEOREM MarksFollowRecords == Orderly => (Spec => []MarksApplied)
<1> SUFFICES ASSUME Orderly PROVE Spec => []MarksApplied
  OBVIOUS
<1>1. Init => TypeInv /\ AppliedInv
  BY TypeInvInit, AppliedInit
<1>2. TypeInv /\ AppliedInv /\ [Next]_vars => TypeInv' /\ AppliedInv'
  BY TypeInvStep, AppliedStep
<1>3. AppliedInv => MarksApplied
  BY DEF AppliedInv, OnlyApplied, MarksApplied
<1> QED
  BY <1>1, <1>2, <1>3, PTL DEF Spec

(***************************************************************************)
(* One device, one record.                                                 *)
(***************************************************************************)

\* The client's device always comes back under the same name.
OneName == \A d, e \in Devs : d = e

\* No tool has failed, and nobody else's device has appeared.
Undisturbed == NoFaultYet /\ chance["foreign"] = Budget["foreign"]

\* The way of a stop, up to the moment the client is told to exit.
StoppingRun ==
  {"down", "downRoutes", "downZone", "downForget", "unsnap", "kill"}

Starting ==
  {"gate", "regen", "up", "ruleset", "meter", "snap", "open", "abandon"}

\* The only device is the client's, and a start begins without a client.
Supervised ==
  /\ \A d \in Devs : Exists(d) <=> ours = d
  /\ ours # None => client \in {"up", "term"} /\ ours \notin Persistent
  /\ client \in {"up", "wait"} => svc = "instance"
  /\ pc["init"] \in Starting /\ "reload" \notin run => svc # "instance"
  /\ "abort" \in run =>
       /\ svc # "instance"
       /\ pc["init"] \in
            {"down", "downRoutes", "downZone", "downForget", "abandon"}

\* The client runs in the mode of the records, and its device is newer than
\* the snapshot: the hook will follow it.
Followed ==
  /\ toml # None => records # None /\ toml.proxy = records.proxy
  /\ client = "up" /\ loaded # None =>
       records # None /\ loaded.proxy = records.proxy
  /\ client = "up" /\ ours # None => Concerned /\ ifindex[ours] > since

\* The last event says whether there is a device.
LastEvent ==
  events # <<>> => (events[Len(events)].action = "add" <=> ours # None)

\* The device is there, and the hook has seen all of its events.
Quiet == client = "up" /\ ours # None /\ events = <<>>

\* What the two processes hold while they work on a device.
InHand ==
  /\ pc["hook"] \in {"check"} \cup AttachLabels => dev["hook"] # None
  /\ pc["init"] \in AttachLabels => dev["init"] # None
  /\ pc["init"] = "attachRoute" => arg["init"] = records
  /\ Quiet => pc["hook"] \notin {"detach", "detachZone", "detachForget"}
  /\ Quiet /\ pc["hook"] = "attachRoute" =>
       arg["hook"].table = records.table

At(labels) == \E p \in Procs : pc[p] \in labels

\* Unless a stop is on its way, a recorded device has the route and the zone,
\* or the hook is about to give them to it.
Agreeing ==
  Quiet /\ pc["init"] \notin StoppingRun =>
    /\ /\ device # None \/ At({"attachZone", "attachRecord"})
       /\ pc["hook"] \notin {"check", "attach", "attachRoute"}
       => route[records.table] = ours
    /\ /\ device # None \/ At({"attachRecord"})
       /\ pc["hook"] \notin {"check", "attach", "attachRoute", "attachZone"}
       => zone = ours

Calm ==
  Counted /\ Supervised /\ Followed /\ LastEvent /\ InHand /\ Agreeing

AgreeInv ==
  /\ TypeInv /\ AppliedInv /\ Counted
  /\ chance["foreign"] <= Budget["foreign"]
  /\ Undisturbed => Calm

\* A calm step from a calm state.
CalmStep ==
  /\ Orderly /\ TypeInv /\ AppliedInv /\ Calm
  /\ TypeInv' /\ AppliedInv'
  /\ [Next]_vars /\ ~Spend("fault") /\ ~Spend("foreign")

\* The types the lemmas below keep needing.
LEMMA CalmTypes ==
  ASSUME TypeInv
  PROVE  /\ pc \in [Procs -> InitLabels \cup HookLabels]
         /\ arg \in [Procs -> Setting \cup {None}]
         /\ dev \in [Procs -> Devs \cup {None}]
         /\ "init" \in Procs /\ "hook" \in Procs /\ Procs = {"init", "hook"}
         /\ ifindex \in [Devs -> Nat] /\ lastIndex \in Nat /\ since \in Nat
         /\ ours \in Devs \cup {None} /\ device \in Devs \cup {None}
         /\ route \in [Tables -> Devs \cup {None}]
         /\ records \in Setting \cup {None} /\ uci \in Setting
         /\ events \in Seq(Event)
         /\ None \notin Devs /\ None \notin Setting
BY SettingsAssumption, RoutingAssumption
DEF TypeInv, TypeOK, RoutingTypeOK, ScriptTypeOK, WorldTypeOK, Procs,
    SettingsAssumption, RoutingAssumption

LEMMA SupervisedStep ==
  ASSUME CalmStep
  PROVE  Supervised'
<1>1. /\ [Next]_vars /\ ~Spend("fault") /\ ~Spend("foreign") /\ Orderly
      /\ Supervised /\ Stages
  BY DEF CalmStep, Calm, AppliedInv
<1>2. /\ pc \in [Procs -> InitLabels \cup HookLabels]
      /\ "init" \in Procs /\ "hook" \in Procs /\ Procs = {"init", "hook"}
      /\ ifindex \in [Devs -> Nat] /\ lastIndex \in Nat
      /\ ours \in Devs \cup {None} /\ None \notin Devs
  BY CalmTypes DEF CalmStep
\* The course of the script
<1>3. ASSUME UNCHANGED <<links, client>>, svc' = "instance" => svc = "instance",
             client \in {"up", "wait"} => svc' = "instance",
             pc'["init"] \in Starting /\ "reload" \notin run' => svc' # "instance",
             "abort" \in run' =>
               /\ svc' # "instance"
               /\ pc'["init"] \in
                    {"down", "downRoutes", "downZone", "downForget", "abandon"}
      PROVE  Supervised'
  BY <1>1, <1>3 DEF Supervised, links, Exists
<1>4. ASSUME UNCHANGED <<links, client, svc, run>>, pc'["init"] = pc["init"]
      PROVE  Supervised'
  BY <1>1, <1>3, <1>4 DEF Supervised
<1>5. ASSUME UNCHANGED <<links, client, svc>>, EndRun PROVE Supervised'
  <2>1. pc'["init"] = "idle" /\ run' = {}
    BY <1>2, <1>5 DEF EndRun, Goto
  <2> QED
    BY <1>1, <1>3, <1>5, <2>1 DEF Supervised, Starting
<1>6. ASSUME UNCHANGED <<links, client, svc>>, NEW flags, Restart(flags),
             "abort" \notin flags
      PROVE  Supervised'
  <2>1. pc'["init"] \in {"down", "unsnap"} /\ "abort" \notin run'
    BY <1>2, <1>6 DEF Restart, StopLabel, Goto
  <2> QED
    BY <1>1, <1>3, <1>6, <2>1 DEF Supervised, Starting
<1>7. ASSUME UNCHANGED <<links, client, svc>>, AbortStart, svc # "instance"
      PROVE  Supervised'
  <2>1. pc'["init"] \in {"down", "abandon"}
    BY <1>2, <1>7 DEF AbortStart, Goto
  <2> QED
    BY <1>1, <1>3, <1>7, <2>1 DEF Supervised, Starting
<1>8. ASSUME UNCHANGED <<links, client, svc, run>>, NEW label,
             Goto("init", label), "abort" \notin run,
             label \in Starting /\ "reload" \notin run => svc # "instance"
      PROVE  Supervised'
  <2>1. pc'["init"] = label
    BY <1>2, <1>8 DEF Goto
  <2> QED
    BY <1>1, <1>3, <1>8, <2>1 DEF Supervised
<1>9. ASSUME pc["init"] \notin
               {"down", "downRoutes", "downZone", "downForget", "abandon"}
      PROVE  "abort" \notin run
  BY <1>1, <1>9 DEF Supervised
\* The commands
<1>10. CASE \E flags \in SUBSET {"now"} : CallStart(flags)
  <2>1. /\ UNCHANGED <<links, client, svc>> /\ svc # "instance"
        /\ "abort" \notin run' /\ pc'["init"] = "gate"
    BY <1>1, <1>2, <1>10 DEF CallStart, Orderly, Goto, procd
  <2> QED
    BY <1>1, <1>3, <2>1 DEF Supervised
<1>11. CASE \E flags \in SUBSET {"now"} : CallRestart(flags)
  BY <1>6, <1>11 DEF CallRestart, procd
<1>12. CASE CallStop \/ CallReload \/ FireTrigger
  <2>1. /\ UNCHANGED <<links, client, svc>> /\ run' = {}
        /\ pc'["init"] \in {"down", "unsnap", "apply"}
    BY <1>2, <1>12
    DEF CallStop, CallReload, FireTrigger, StopLabel, Goto, procd
  <2> QED
    BY <1>1, <1>3, <2>1 DEF Supervised, Starting
\* The steps of the script
<1>13. CASE ApplyFull
  BY <1>6, <1>9, <1>13 DEF ApplyFull, procd
<1>14. CASE ApplyByClass
  <2>1. /\ UNCHANGED <<links, client, svc>> /\ "abort" \notin run
        /\ pc["init"] = "apply"
    BY <1>9, <1>14 DEF ApplyByClass, procd
  <2>2. CASE run' = run \cup {"reload"} /\ Goto("init", "regen")
    <3>1. pc'["init"] = "regen" /\ "abort" \notin run' /\ "reload" \in run'
      BY <1>2, <2>1, <2>2 DEF Goto
    <3> QED
      BY <1>1, <1>3, <2>1, <3>1 DEF Supervised
  <2> QED
    BY <1>5, <1>6, <1>14, <2>1, <2>2 DEF ApplyByClass
<1>15. CASE Reattach
  <2>1. UNCHANGED <<links, client, svc>> /\ "abort" \notin run
    BY <1>9, <1>15 DEF Reattach, procd
  <2> QED
    BY <1>5, <1>8, <1>15, <2>1 DEF Reattach, Starting
<1>16. CASE Down \/ DownRest
  <2>1. /\ UNCHANGED <<links, client, svc, run>>
        /\ pc'["init"] \in {"downRoutes", "downZone", "downForget", "abandon",
                            "unsnap"}
        /\ pc'["init"] = "unsnap" => "abort" \notin run
        /\ pc'["init"] = "abandon" => "abort" \in run
    BY <1>2, <1>16 DEF Down, DownRest, Goto, procd
  <2> QED
    BY <1>1, <1>3, <2>1 DEF Supervised, Starting
<1>17. CASE Unsnap
  BY <1>8, <1>9, <1>17 DEF Unsnap, Starting, procd
<1>18. CASE Kill
  <2>1. /\ UNCHANGED links /\ svc' = "none" /\ client' \notin {"up", "wait"}
        /\ client = "up" => client' = "term"
        /\ client \notin {"up", "wait"} => client' = client
        /\ "abort" \notin run'
    BY <1>9, <1>18 DEF Kill, DropInstance, EndRun
  <2> QED
    BY <1>1, <2>1 DEF Supervised, links, Exists
<1>19. CASE StartGate
  <2>1. /\ UNCHANGED <<links, client, svc>> /\ pc["init"] = "gate"
        /\ "reload" \notin run /\ svc # "instance" /\ "abort" \notin run
    BY <1>1, <1>9, <1>19 DEF StartGate, Stages, Supervised, Starting, AttachLabels, procd
  <2> QED
    BY <1>1, <1>7, <1>8, <1>19, <2>1 DEF StartGate
<1>20. ASSUME UNCHANGED <<links, client, svc>>, BuildFailed, pc["init"] \in Starting,
              "abort" \notin run
       PROVE  Supervised'
  BY <1>1, <1>6, <1>7, <1>20 DEF BuildFailed, Supervised
<1>21. CASE RegenConfig \/ Meter \/ Up \/ Ruleset \/ Snapshot
  <2>1. /\ UNCHANGED <<links, client, svc>> /\ pc["init"] \in Starting
        /\ "abort" \notin run
        /\ "reload" \notin run => svc # "instance"
    BY <1>1, <1>9, <1>21
    DEF RegenConfig, Meter, Up, Ruleset, Snapshot, Supervised, Starting, procd
  <2>2. ASSUME NEW label, Goto("init", label), UNCHANGED run PROVE Supervised'
    BY <1>8, <2>1, <2>2
  <2>3. BuildFailed => Supervised'
    BY <1>20, <2>1
  <2>4. CASE RegenConfig
    BY <1>5, <2>1, <2>2, <2>3, <2>4 DEF RegenConfig
  <2>5. CASE Ruleset
    BY <2>2, <2>3, <2>5 DEF Ruleset
  <2> QED
    BY <1>21, <2>2, <2>4, <2>5 DEF Meter, Up, Snapshot
<1>22. CASE OpenInstance
  <2>1. /\ UNCHANGED <<links, client>> /\ svc' = "instance"
        /\ pc'["init"] \in {"idle", "wait"} /\ "abort" \notin run'
    BY <1>2, <1>9, <1>22 DEF OpenInstance, EndRun, Goto
  <2> QED
    BY <1>1, <2>1 DEF Supervised, links, Exists, Starting
<1>23. CASE Abandon
  <2>1. /\ UNCHANGED links /\ svc' = "idle" /\ client' \notin {"up", "wait"}
        /\ client = "up" => client' = "term"
        /\ client \notin {"up", "wait"} => client' = client
        /\ "abort" \notin run'
    BY <1>23 DEF Abandon, DropInstance, EndRun
  <2> QED
    BY <1>1, <2>1 DEF Supervised, links, Exists
<1>24. CASE AttachClientTun
  <2>1. UNCHANGED <<links, client, svc>> /\ "abort" \notin run
    BY <1>9, <1>24 DEF AttachClientTun, procd
  <2> QED
    BY <1>5, <1>8, <1>24, <2>1 DEF AttachClientTun, Starting
<1>25. ASSUME NEW p \in Procs, AttachStep(p) PROVE Supervised'
  <2>1. UNCHANGED <<links, client, svc>>
    BY <1>25
    DEF AttachStep, Attach, AttachRoute, AttachZone, AttachRecord, procd
  <2>2. CASE p = "hook"
    BY <1>2, <1>4, <1>25, <2>1, <2>2
    DEF AttachStep, Attach, AttachRoute, AttachZone, AttachRecord, AttachEnds,
        EndHook, Goto, quietScript
  <2>3. CASE p = "init"
    <3>1. "abort" \notin run
      BY <1>9, <1>25, <2>3
      DEF AttachStep, Attach, AttachRoute, AttachZone, AttachRecord
    <3>2. CASE \E ok \in BOOLEAN : AttachEnds("init", ok)
      BY <1>5, <1>6, <2>1, <3>1, <3>2 DEF AttachEnds
    <3>3. CASE /\ \E label \in AttachLabels : Goto("init", label)
               /\ UNCHANGED run
      BY <1>8, <2>1, <3>1, <3>3 DEF AttachLabels, Starting
    <3> QED
      BY <1>25, <2>3, <3>2, <3>3
      DEF AttachStep, Attach, AttachRoute, AttachZone, AttachRecord,
          AttachLabels
  <2> QED
    BY <1>2, <2>2, <2>3
\* The hook, the client and the world
<1>26. CASE HookStep
  BY <1>2, <1>4, <1>26
  DEF HookStep, HookTake, HookCheck, Detach, DetachRest, EndHook, Goto,
      hookQuiet, procd
<1>27. CASE Spawn
  BY <1>1, <1>27 DEF Spawn, Supervised, script, links, Exists
<1>28. ASSUME NEW d \in Devs, CreateTun(d) PROVE Supervised'
  <2>1. /\ ours = None /\ ours' = d /\ client = "up" /\ d \notin Persistent
        /\ ifindex' = [ifindex EXCEPT ![d] = lastIndex + 1]
        /\ UNCHANGED <<pc, run, svc, client>>
    BY <1>28 DEF CreateTun, AddLink, script, procd
  <2>2. \A x \in Devs : Exists(x)' <=> ours' = x
    BY <1>1, <1>2, <2>1 DEF Supervised, Exists
  <2> QED
    BY <1>1, <2>1, <2>2 DEF Supervised
<1>29. CASE DropTun \/ Crash \/ Exit
  <2>1. /\ ours' = None /\ UNCHANGED <<pc, run, svc>>
        /\ client' \in {"up", "wait"} => client = "up"
    BY <1>29
    DEF DropTun, Crash, Exit, CloseTun, RemoveLink, script, procd, links
  <2>2. CASE ours = None
    BY <1>1, <1>29, <2>1, <2>2
    DEF DropTun, Crash, Exit, CloseTun, links, Supervised, Exists
  <2>3. CASE ours # None
    <3>1. ifindex' = [ifindex EXCEPT ![ours] = 0]
      BY <1>29, <2>3 DEF DropTun, Crash, Exit, CloseTun, RemoveLink
    <3>2. \A x \in Devs : ~Exists(x)'
      BY <1>1, <1>2, <2>3, <3>1 DEF Supervised, Exists
    <3> QED
      BY <1>1, <1>2, <2>1, <3>2 DEF Supervised
  <2> QED
    BY <2>2, <2>3
<1>30. CASE Reboot
  BY <1>2, <1>30 DEF Reboot, Supervised, Exists, Starting
<1>31. CASE \E d \in Devs : ForeignAdd(d) \/ ForeignRemove(d)
  BY <1>1, <1>31 DEF ForeignAdd, ForeignRemove, Supervised
<1>32. CASE \E c \in Configs : Commit(c)
  BY <1>4, <1>32 DEF Commit, script
<1>33. CASE UNCHANGED vars
  BY <1>4, <1>33 DEF vars, script, procd
<1> QED
  BY <1>1, <1>10, <1>11, <1>12, <1>13, <1>14, <1>15, <1>16, <1>17, <1>18,
     <1>19, <1>21, <1>22, <1>23, <1>24, <1>25, <1>26, <1>27, <1>28, <1>29,
     <1>30, <1>31, <1>32, <1>33
  DEF Next, Command, InitStep, CreateSomeTun, Environment

LEMMA FollowedStep ==
  ASSUME CalmStep
  PROVE  Followed'
<1>1. /\ [Next]_vars /\ ~Spend("fault") /\ Followed /\ Supervised /\ Counted
      /\ Stages /\ SameTable
  BY DEF CalmStep, Calm, AppliedInv
<1>2. /\ ifindex \in [Devs -> Nat] /\ lastIndex \in Nat /\ since \in Nat
      /\ ours \in Devs \cup {None} /\ None \notin Devs
      /\ uci \in Setting /\ None \notin Setting
  BY CalmTypes DEF CalmStep
<1>3. ASSUME UNCHANGED <<records, toml, since, client, loaded, links>>
      PROVE  Followed'
  BY <1>1, <1>3 DEF Followed, Concerned, links
<1>4. CASE Command \/ FireTrigger \/ HookStep \/ UNCHANGED vars
  BY <1>3, <1>4
  DEF Command, CallStart, CallRestart, CallStop, CallReload, FireTrigger,
      HookStep, HookTake, HookCheck, Detach, DetachRest, hookQuiet, vars,
      script, procd, quietScript
<1>5. CASE \E p \in Procs : AttachStep(p)
  BY <1>3, <1>5
  DEF AttachStep, Attach, AttachRoute, AttachZone, AttachRecord, procd,
      quietScript
<1>6. CASE InitStep
  <2>1. CASE ApplyFull \/ ApplyByClass \/ Reattach \/ Down \/ DownRest
    BY <1>3, <2>1
    DEF ApplyFull, ApplyByClass, Reattach, Down, DownRest, procd, quietScript
  <2>2. CASE StartGate \/ Meter \/ Up \/ Ruleset \/ AttachClientTun
    BY <1>3, <2>2
    DEF StartGate, Meter, Up, Ruleset, AttachClientTun, procd, quietScript
  <2>3. CASE OpenInstance
    BY <1>3, <2>3 DEF OpenInstance
  <2>4. CASE Unsnap
    <3>1. client = "up" /\ ours # None => ifindex[ours] > 0
      BY <1>1, <1>2 DEF Supervised, Exists
    <3> QED
      BY <1>1, <2>4, <3>1 DEF Unsnap, Followed, Concerned, procd, links
  <2>5. CASE Kill \/ Abandon
    BY <1>1, <2>5
    DEF Kill, Abandon, DropInstance, Followed, Concerned, links
  <2>6. CASE Snapshot
    <3>1. client # "up"
      BY <1>1, <2>6
      DEF Snapshot, Stages, Supervised, Starting, AttachLabels
    <3> QED
      BY <1>1, <2>6, <3>1 DEF Snapshot, Followed, procd
  <2>7. CASE RegenConfig
    <3>1. client = "up" => "reload" \in run
      BY <1>1, <2>7 DEF RegenConfig, Supervised, Starting
    <3>2. /\ records' = uci /\ toml' = Toml(uci)
          /\ UNCHANGED <<since, client, loaded, links>>
      BY <1>1, <2>7 DEF RegenConfig, procd
    <3>3. client = "up" => uci.proxy = records.proxy /\ records # None
      BY <1>1, <3>1 DEF SameTable
    <3>4. toml' # None => toml'.proxy = records'.proxy
      BY <3>2 DEF Toml
    <3> QED
      BY <1>1, <1>2, <3>2, <3>3, <3>4 DEF Followed, Concerned, links
  <2> QED
    BY <1>6, <2>1, <2>2, <2>3, <2>4, <2>5, <2>6, <2>7 DEF InitStep
<1>7. CASE Spawn
  BY <1>1, <1>7 DEF Spawn, Followed, Concerned, Supervised, script, links
<1>8. ASSUME NEW d \in Devs, CreateTun(d) PROVE Followed'
  <2>1. /\ client = "up" /\ loaded # None /\ ~loaded.proxy
        /\ ours' = d /\ ifindex'[d] = lastIndex + 1
        /\ UNCHANGED <<records, toml, since, client, loaded>>
    BY <1>2, <1>8 DEF CreateTun, AddLink, script, procd
  <2>2. since <= lastIndex
    BY <1>1 DEF Counted
  <2> QED
    BY <1>1, <1>2, <2>1, <2>2 DEF Followed, Concerned
<1>9. CASE DropTun \/ Crash \/ Exit
  <2>1. /\ ours' = None /\ UNCHANGED <<records, toml, since>>
        /\ client' = "up" => client = "up" /\ UNCHANGED loaded
    BY <1>9
    DEF DropTun, Crash, Exit, CloseTun, RemoveLink, script, procd, links
  <2> QED
    BY <1>1, <2>1 DEF Followed
<1>10. CASE Reboot
  BY <1>10 DEF Reboot, Followed
<1>11. CASE \E d \in Devs : ForeignAdd(d) \/ ForeignRemove(d)
  BY <1>1, <1>11 DEF ForeignAdd, ForeignRemove, Supervised, CalmStep
<1>12. CASE \E c \in Configs : Commit(c)
  BY <1>3, <1>12 DEF Commit, script
<1> QED
  BY <1>1, <1>4, <1>5, <1>6, <1>7, <1>8, <1>9, <1>10, <1>11, <1>12
  DEF Next, CreateSomeTun, Environment

\* What an event at the end of the queue says is what there is.
LEMMA LastOf ==
  ASSUME NEW s \in Seq(Event), NEW e \in Event
  PROVE  /\ Append(s, e) # <<>>
         /\ Append(s, e)[Len(Append(s, e))] = e
OBVIOUS

LEMMA LastOfTail ==
  ASSUME NEW s \in Seq(Event), s # <<>>
  PROVE  /\ Tail(s) # <<>> => Tail(s)[Len(Tail(s))] = s[Len(s)]
         /\ Tail(s) = <<>> => Head(s) = s[Len(s)]
<1>1. /\ Len(s) \in Nat /\ Len(s) > 0 /\ Len(Tail(s)) = Len(s) - 1
      /\ Tail(s) \in Seq(Event) /\ Head(s) = s[1]
  OBVIOUS
<1>2. \A i \in 1 .. Len(s) - 1 : Tail(s)[i] = s[i + 1]
  OBVIOUS
<1>3. ASSUME Tail(s) = <<>> PROVE Len(s) = 1
  <2>1. Len(<<>>) = 0
    OBVIOUS
  <2>2. Len(s) - 1 = 0
    BY <1>1, <1>3, <2>1
  <2>3. \A n \in Nat : n - 1 = 0 => n = 1
    OBVIOUS
  <2> QED
    BY <1>1, <2>2, <2>3
<1>4. ASSUME Tail(s) # <<>>
      PROVE  /\ Len(Tail(s)) \in 1 .. Len(s) - 1
             /\ Len(Tail(s)) + 1 = Len(s)
  <2>1. Len(Tail(s)) # 0
    BY <1>1, <1>4
  <2> QED
    BY <1>1, <2>1
<1>5. Tail(s) # <<>> => Tail(s)[Len(Tail(s))] = s[Len(Tail(s)) + 1]
  BY <1>2, <1>4
<1> QED
  BY <1>1, <1>3, <1>4, <1>5

LEMMA LastEventStep ==
  ASSUME CalmStep
  PROVE  LastEvent'
<1>1. /\ [Next]_vars /\ ~Spend("foreign") /\ LastEvent /\ Supervised
  BY DEF CalmStep, Calm
<1>2. events \in Seq(Event) /\ ours \in Devs \cup {None} /\ None \notin Devs
  BY CalmTypes DEF CalmStep
<1>3. ASSUME UNCHANGED <<ours, events>> PROVE LastEvent'
  BY <1>1, <1>3 DEF LastEvent
<1>4. CASE Command \/ FireTrigger \/ Spawn \/ UNCHANGED vars
  BY <1>3, <1>4
  DEF Command, CallStart, CallRestart, CallStop, CallReload, FireTrigger,
      Spawn, links, vars
<1>5. CASE \E p \in Procs : AttachStep(p)
  BY <1>3, <1>5
  DEF AttachStep, Attach, AttachRoute, AttachZone, AttachRecord, links
<1>6. CASE InitStep
  <2>1. UNCHANGED <<links, events>>
    <3>1. CASE ApplyFull \/ ApplyByClass \/ Reattach \/ Down \/ DownRest
      BY <3>1 DEF ApplyFull, ApplyByClass, Reattach, Down, DownRest
    <3>2. CASE Unsnap \/ Kill \/ StartGate \/ RegenConfig \/ Meter \/ Up
      BY <3>2 DEF Unsnap, Kill, StartGate, RegenConfig, Meter, Up
    <3>3. CASE Ruleset \/ Snapshot \/ OpenInstance \/ Abandon \/ AttachClientTun
      BY <3>3 DEF Ruleset, Snapshot, OpenInstance, Abandon, AttachClientTun
    <3> QED
      BY <1>6, <3>1, <3>2, <3>3 DEF InitStep
  <2> QED
    BY <1>3, <2>1 DEF links
<1>7. CASE HookStep
  <2>1. CASE HookTake
    <3>1. events # <<>> /\ events' = Tail(events) /\ ours' = ours
      BY <2>1 DEF HookTake, hookQuiet, links
    <3> QED
      BY <1>1, <1>2, <3>1, LastOfTail DEF LastEvent
  <2> QED
    BY <1>3, <1>7, <2>1
    DEF HookStep, HookCheck, Detach, DetachRest, hookQuiet, links
<1>8. ASSUME NEW d \in Devs, CreateTun(d) PROVE LastEvent'
  <2>1. ours' = d /\ events' = Append(events, [action |-> "add", dev |-> d])
    BY <1>8 DEF CreateTun, AddLink
  <2>2. [action |-> "add", dev |-> d] \in Event
    BY DEF Event
  <2> QED
    BY <1>2, <2>1, <2>2, LastOf DEF LastEvent
<1>9. CASE DropTun \/ Crash \/ Exit
  <2>1. CASE ours = None
    BY <1>3, <1>9, <2>1 DEF DropTun, Crash, Exit, CloseTun, links
  <2>2. CASE ours # None
    <3>1. /\ ours' = None
          /\ events' = Append(events, [action |-> "remove", dev |-> ours])
      BY <1>9, <2>2 DEF DropTun, Crash, Exit, CloseTun, RemoveLink
    <3>2. [action |-> "remove", dev |-> ours] \in Event
      BY <1>2, <2>2 DEF Event
    <3> QED
      BY <1>2, <3>1, <3>2, LastOf DEF LastEvent
  <2> QED
    BY <2>1, <2>2
<1>10. CASE Reboot
  BY <1>10 DEF Reboot, LastEvent
<1>11. CASE \E d \in Devs : ForeignAdd(d) \/ ForeignRemove(d)
  BY <1>1, <1>11 DEF ForeignAdd, ForeignRemove, Supervised
<1>12. CASE \E c \in Configs : Commit(c)
  BY <1>3, <1>12 DEF Commit, links
<1> QED
  BY <1>1, <1>4, <1>5, <1>6, <1>7, <1>8, <1>9, <1>10, <1>11, <1>12
  DEF Next, CreateSomeTun, Environment

\* The last event before the quiet brings the hook to the device.
LEMMA LastEventFollowed ==
  ASSUME CalmStep, OneName, HookTake, Quiet'
  PROVE  pc'["hook"] = "check"
<1>1. /\ LastEvent /\ Supervised /\ Followed
  BY DEF CalmStep, Calm
<1>2. /\ pc \in [Procs -> InitLabels \cup HookLabels] /\ "hook" \in Procs
      /\ events \in Seq(Event) /\ ours \in Devs \cup {None} /\ None \notin Devs
  BY CalmTypes DEF CalmStep
<1>3. /\ events # <<>> /\ Tail(events) = <<>> /\ client = "up" /\ ours # None
  BY DEF HookTake, hookQuiet, procd, links, Quiet
<1>4. Head(events) = events[Len(events)] /\ Head(events) \in Event
  BY <1>2, <1>3, LastOfTail
<1>5. Head(events).action = "add" /\ Head(events).dev \in Devs
  BY <1>1, <1>3, <1>4 DEF LastEvent, Event
<1>6. Head(events).dev = ours
  BY <1>2, <1>3, <1>5 DEF OneName
<1>7. Concerned /\ Exists(ours) /\ ours \notin Persistent /\ ~NotRunning
  BY <1>1, <1>2, <1>3 DEF Followed, Supervised, NotRunning
<1> QED
  BY <1>2, <1>5, <1>6, <1>7 DEF HookTake, Goto

\* The quiet is not broken without an event, and begins with the hook at work.
LEMMA QuietComes ==
  ASSUME CalmStep, OneName, Quiet'
  PROVE  /\ UNCHANGED <<links, client>> /\ records'.table = records.table
         /\ \/ Quiet /\ UNCHANGED events
            \/ pc'["hook"] = "check" /\ HookTake
<1>1. /\ [Next]_vars /\ ~Spend("fault") /\ ~Spend("foreign") /\ Supervised
      /\ SameTable
  BY DEF CalmStep, Calm, AppliedInv
<1>2. /\ events \in Seq(Event) /\ ours \in Devs \cup {None} /\ None \notin Devs
  BY CalmTypes DEF CalmStep
<1>3. client' = "up" /\ ours' # None /\ events' = <<>>
  BY DEF Quiet
<1>4. ASSUME UNCHANGED <<links, client, events, records>>
      PROVE  /\ UNCHANGED <<links, client>> /\ records'.table = records.table
             /\ Quiet /\ UNCHANGED events
  BY <1>3, <1>4 DEF links, Quiet
<1>5. CASE Command \/ FireTrigger \/ UNCHANGED vars
  BY <1>4, <1>5
  DEF Command, CallStart, CallRestart, CallStop, CallReload, FireTrigger,
      vars, script, procd, quietScript
<1>6. CASE \E p \in Procs : AttachStep(p)
  BY <1>4, <1>6
  DEF AttachStep, Attach, AttachRoute, AttachZone, AttachRecord, procd,
      quietScript
<1>7. CASE InitStep
  <2>1. CASE ApplyFull \/ ApplyByClass \/ Reattach \/ Down \/ DownRest
    BY <1>4, <2>1
    DEF ApplyFull, ApplyByClass, Reattach, Down, DownRest, procd, quietScript
  <2>2. CASE StartGate \/ Meter \/ Up \/ Ruleset \/ AttachClientTun
    BY <1>4, <2>2
    DEF StartGate, Meter, Up, Ruleset, AttachClientTun, procd, quietScript
  <2>3. CASE OpenInstance \/ Unsnap \/ Snapshot
    BY <1>4, <2>3 DEF OpenInstance, Unsnap, Snapshot, procd
  <2>4. CASE Kill \/ Abandon
    BY <1>3, <2>4 DEF Kill, Abandon, DropInstance
  <2>5. CASE RegenConfig
    <3>1. /\ records' = uci /\ UNCHANGED <<links, client, events>>
      BY <1>1, <2>5 DEF RegenConfig, procd
    <3>2. "reload" \in run
      BY <1>1, <1>3, <2>5, <3>1 DEF RegenConfig, Supervised, Starting
    <3>3. records'.table = records.table
      BY <1>1, <3>1, <3>2 DEF SameTable
    <3> QED
      BY <1>3, <3>1, <3>3 DEF links, Quiet
  <2> QED
    BY <1>7, <2>1, <2>2, <2>3, <2>4, <2>5 DEF InitStep
<1>8. CASE HookStep
  <2>1. CASE HookTake
    BY <2>1, LastEventFollowed DEF HookTake, hookQuiet, procd
  <2> QED
    BY <1>4, <1>8, <2>1
    DEF HookStep, HookCheck, Detach, DetachRest, hookQuiet, procd
<1>9. ~Spawn
  BY <1>1, <1>3 DEF Spawn, Supervised, links
<1>10. ASSUME NEW d \in Devs, CreateTun(d) PROVE FALSE
  <2>1. events' = Append(events, [action |-> "add", dev |-> d])
    BY <1>10 DEF CreateTun, AddLink
  <2>2. [action |-> "add", dev |-> d] \in Event
    BY DEF Event
  <2> QED
    BY <1>2, <1>3, <2>1, <2>2, LastOf
<1>11. ~(Crash \/ Exit \/ Reboot)
  BY <1>3 DEF Crash, Exit, Reboot
<1>12. ~DropTun
  BY <1>3 DEF DropTun, CloseTun
<1>13. ~\E d \in Devs : ForeignAdd(d) \/ ForeignRemove(d)
  BY <1>1 DEF ForeignAdd, ForeignRemove, Supervised
<1>14. CASE \E c \in Configs : Commit(c)
  BY <1>4, <1>14 DEF Commit, script
<1> QED
  BY <1>1, <1>5, <1>6, <1>7, <1>8, <1>9, <1>10, <1>11, <1>12, <1>13, <1>14
  DEF Next, CreateSomeTun, Environment

\* Where a process comes to a label of the hook or of attach, and with what.
LEMMA InHandStep ==
  ASSUME CalmStep, OneName
  PROVE  InHand'
<1>1. /\ [Next]_vars /\ ~Spend("fault") /\ ~Spend("foreign") /\ InHand
  BY DEF CalmStep, Calm
<1>2. /\ pc \in [Procs -> InitLabels \cup HookLabels]
      /\ arg \in [Procs -> Setting \cup {None}]
      /\ dev \in [Procs -> Devs \cup {None}]
      /\ "init" \in Procs /\ "hook" \in Procs /\ Procs = {"init", "hook"}
      /\ events \in Seq(Event) /\ None \notin Devs
  BY CalmTypes DEF CalmStep
<1>3. Quiet' =>
        /\ records'.table = records.table
        /\ \/ Quiet /\ events = <<>>
           \/ pc'["hook"] = "check"
  BY QuietComes DEF Quiet
<1> DEFINE HookHand ==
             /\ pc["hook"] \in {"check"} \cup AttachLabels => dev["hook"] # None
             /\ Quiet => pc["hook"] \notin {"detach", "detachZone", "detachForget"}
             /\ Quiet /\ pc["hook"] = "attachRoute" =>
                  arg["hook"].table = records.table
           InitHand ==
             /\ pc["init"] \in AttachLabels => dev["init"] # None
             /\ pc["init"] = "attachRoute" => arg["init"] = records
<1>4. InHand <=> HookHand /\ InitHand
  BY DEF InHand
<1>5. InHand' <=> HookHand' /\ InitHand'
  BY DEF InHand
<1>6. ASSUME pc'["hook"] = pc["hook"], dev'["hook"] = dev["hook"],
             arg'["hook"] = arg["hook"]
      PROVE  HookHand'
  BY <1>1, <1>3, <1>4, <1>6 DEF AttachLabels
<1>7. ASSUME pc'["init"] = pc["init"], dev'["init"] = dev["init"],
             arg'["init"] = arg["init"], UNCHANGED records
      PROVE  InitHand'
  BY <1>1, <1>4, <1>7
<1>8. ASSUME pc'["init"] \notin AttachLabels PROVE InitHand'
  BY <1>8 DEF AttachLabels
<1>9. CASE HookStep
  <2>1. InitHand'
    BY <1>2, <1>7, <1>9
    DEF HookStep, HookTake, HookCheck, Detach, DetachRest, EndHook, Goto,
        hookQuiet
  <2>2. CASE HookTake
    <3>1. pc'["hook"] = "check" => dev'["hook"] # None
      <4>1. events # <<>>
        BY <2>2 DEF HookTake
      <4>2. Head(events) \in Event
        BY <1>2, <4>1
      <4>3. Head(events).dev \in Devs
        BY <4>2 DEF Event
      <4> QED
        BY <1>2, <2>2, <4>3 DEF HookTake, Goto
    <3>2. pc'["hook"] \in {"idle", "check", "detach"}
      BY <1>2, <2>2 DEF HookTake, Goto
    <3>3. Quiet' => pc'["hook"] = "check"
      BY <2>2, LastEventFollowed
    <3> QED
      BY <2>1, <3>1, <3>2, <3>3, <1>5 DEF AttachLabels
  <2>3. CASE HookCheck
    <3>1. /\ pc["hook"] = "check"
          /\ \/ pc'["hook"] = "attach" /\ dev'["hook"] = dev["hook"]
             \/ pc'["hook"] = "idle"
      BY <1>2, <2>3 DEF HookCheck, EndHook, Goto
    <3> QED
      BY <1>1, <1>4, <1>5, <2>1, <3>1 DEF AttachLabels
  <2>4. CASE Detach \/ DetachRest
    <3>1. /\ pc["hook"] \in {"detach", "detachZone", "detachForget"}
          /\ pc'["hook"] \in {"detachZone", "detachForget", "idle"}
      BY <1>2, <2>4 DEF Detach, DetachRest, EndHook, Goto
    <3>2. ~Quiet'
      BY <1>1, <1>3, <1>4, <3>1 DEF AttachLabels
    <3> QED
      BY <1>5, <2>1, <3>1, <3>2 DEF AttachLabels
  <2> QED
    BY <1>9, <2>2, <2>3, <2>4 DEF HookStep
<1>10. CASE AttachStep("hook")
  <2>1. InitHand'
    BY <1>2, <1>7, <1>10
    DEF AttachStep, Attach, AttachRoute, AttachZone, AttachRecord, AttachEnds,
        EndHook, Goto, quietScript
  <2>2. CASE pc["hook"] = "attach" /\ pc'["hook"] = "attachRoute"
    <3>1. arg'["hook"] = records /\ UNCHANGED records /\ dev'["hook"] = dev["hook"]
      BY <1>2, <1>10, <2>2
      DEF AttachStep, Attach, AttachRoute, AttachZone, AttachRecord, AttachEnds,
          EndHook, Goto
    <3> QED
      BY <1>1, <1>4, <1>5, <2>1, <2>2, <3>1 DEF AttachLabels
  <2>3. CASE /\ pc["hook"] \in AttachLabels /\ dev'["hook"] = dev["hook"]
             /\ pc'["hook"] \in {"attachZone", "attachRecord"}
    BY <1>1, <1>4, <1>5, <2>1, <2>3 DEF AttachLabels
  <2>4. CASE pc'["hook"] = "idle"
    BY <1>5, <2>1, <2>4 DEF AttachLabels
  <2> QED
    BY <1>2, <1>10, <2>2, <2>3, <2>4
    DEF AttachStep, Attach, AttachRoute, AttachZone, AttachRecord, AttachEnds,
        EndHook, Goto, quietScript, AttachLabels
<1>11. CASE AttachStep("init")
  <2>1. HookHand'
    BY <1>2, <1>6, <1>11
    DEF AttachStep, Attach, AttachRoute, AttachZone, AttachRecord, AttachEnds,
        EndRun, Restart, Goto, quietScript
  <2>2. CASE pc["init"] = "attach" /\ pc'["init"] = "attachRoute"
    <3>1. arg'["init"] = records /\ UNCHANGED records /\ dev'["init"] = dev["init"]
      BY <1>2, <1>11, <2>2
      DEF AttachStep, Attach, AttachRoute, AttachZone, AttachRecord, AttachEnds,
          EndRun, Restart, StopLabel, Goto
    <3> QED
      BY <1>1, <1>4, <1>5, <2>1, <2>2, <3>1 DEF AttachLabels
  <2>3. CASE /\ pc["init"] \in AttachLabels /\ dev'["init"] = dev["init"]
             /\ pc'["init"] \in {"attachZone", "attachRecord"}
    BY <1>1, <1>4, <1>5, <2>1, <2>3 DEF AttachLabels
  <2>4. CASE pc'["init"] \in {"idle", "down", "unsnap"}
    BY <1>5, <1>8, <2>1, <2>4 DEF AttachLabels
  <2> QED
    BY <1>2, <1>11, <2>2, <2>3, <2>4
    DEF AttachStep, Attach, AttachRoute, AttachZone, AttachRecord, AttachEnds,
        EndRun, Restart, StopLabel, Goto, quietScript, AttachLabels
<1>12. CASE Command \/ FireTrigger
  <2>1. /\ UNCHANGED <<dev, arg>> /\ pc'["hook"] = pc["hook"]
        /\ pc'["init"] \notin AttachLabels
    BY <1>2, <1>12
    DEF Command, CallStart, CallRestart, CallStop, CallReload, FireTrigger,
        Restart, StopLabel, Goto, quietScript, AttachLabels
  <2> QED
    BY <1>5, <1>6, <1>8, <2>1
<1>13. CASE InitStep
  <2>1. /\ pc'["hook"] = pc["hook"] /\ dev'["hook"] = dev["hook"]
        /\ arg'["hook"] = arg["hook"]
    <3>1. CASE ApplyFull \/ ApplyByClass \/ Reattach \/ Down \/ DownRest
      BY <1>2, <3>1
      DEF ApplyFull, ApplyByClass, Reattach, Down, DownRest, EndRun, Restart,
          Goto, quietScript
    <3>2. CASE Unsnap \/ Kill \/ StartGate \/ RegenConfig \/ Meter \/ Up
      BY <1>2, <3>2
      DEF Unsnap, Kill, StartGate, RegenConfig, Meter, Up, BuildFailed, EndRun,
          Restart, AbortStart, Goto, quietScript
    <3>3. CASE Ruleset \/ Snapshot \/ OpenInstance \/ Abandon \/ AttachClientTun
      BY <1>2, <3>3
      DEF Ruleset, Snapshot, OpenInstance, Abandon, AttachClientTun,
          BuildFailed, EndRun, Restart, AbortStart, Goto, quietScript
    <3> QED
      BY <1>13, <3>1, <3>2, <3>3 DEF InitStep
  <2>2. HookHand'
    BY <1>6, <2>1
  <2>3. CASE Reattach
    <3>1. \/ pc'["init"] = "attach" /\ dev'["init"] # None
          \/ pc'["init"] = "idle"
      BY <1>2, <2>3 DEF Reattach, EndRun, Goto
    <3> QED
      BY <1>5, <2>2, <3>1 DEF AttachLabels
  <2>4. CASE AttachClientTun
    <3>1. \/ pc'["init"] = "attach" /\ dev'["init"] \in Devs
          \/ pc'["init"] = "idle"
      BY <1>2, <2>4 DEF AttachClientTun, FreshTuns, EndRun, Goto
    <3> QED
      BY <1>2, <1>5, <2>2, <3>1 DEF AttachLabels
  <2>5. CASE ApplyFull \/ ApplyByClass \/ Down \/ DownRest \/ Unsnap \/ Kill
    <3>1. pc'["init"] \notin AttachLabels
      BY <1>2, <2>5
      DEF ApplyFull, ApplyByClass, Down, DownRest, Unsnap, Kill, EndRun,
          Restart, StopLabel, Goto, AttachLabels
    <3> QED
      BY <1>5, <1>8, <2>2, <3>1
  <2>6. CASE \/ StartGate \/ RegenConfig \/ Meter \/ Up \/ Ruleset \/ Snapshot
             \/ OpenInstance \/ Abandon
    <3>1. pc'["init"] \notin AttachLabels
      BY <1>2, <2>6
      DEF StartGate, RegenConfig, Meter, Up, Ruleset, Snapshot, OpenInstance,
          Abandon, BuildFailed, AbortStart, EndRun, Restart, StopLabel, Goto,
          AttachLabels
    <3> QED
      BY <1>5, <1>8, <2>2, <3>1
  <2> QED
    BY <1>13, <2>3, <2>4, <2>5, <2>6 DEF InitStep
<1>14. CASE Spawn \/ Exit \/ DropTun \/ Crash \/ UNCHANGED vars
  BY <1>5, <1>6, <1>7, <1>14 DEF Spawn, Exit, DropTun, Crash, vars, script
<1>15. CASE \E d \in Devs : CreateTun(d) \/ ForeignAdd(d) \/ ForeignRemove(d)
  BY <1>5, <1>6, <1>7, <1>15 DEF CreateTun, ForeignAdd, ForeignRemove, script
<1>16. CASE \E c \in Configs : Commit(c)
  BY <1>5, <1>6, <1>7, <1>16 DEF Commit, script
<1>17. CASE Reboot
  <2>1. pc'["init"] = "idle" /\ pc'["hook"] = "idle"
    BY <1>2, <1>17 DEF Reboot
  <2> QED
    BY <1>5, <2>1 DEF AttachLabels
<1> QED
  BY <1>1, <1>2, <1>9, <1>10, <1>11, <1>12, <1>13, <1>14, <1>15, <1>16, <1>17
  DEF Next, CreateSomeTun, Environment

LEMMA AgreeingStep ==
  ASSUME CalmStep, OneName
  PROVE  Agreeing'
<1> DEFINE Route ==
             /\ device # None \/ At({"attachZone", "attachRecord"})
             /\ pc["hook"] \notin {"check", "attach", "attachRoute"}
             => route[records.table] = ours
           Zone ==
             /\ device # None \/ At({"attachRecord"})
             /\ pc["hook"] \notin {"check", "attach", "attachRoute", "attachZone"}
             => zone = ours
<1> SUFFICES ASSUME Quiet', pc'["init"] \notin StoppingRun
             PROVE  Route' /\ Zone'
  BY DEF Agreeing
<1>1. /\ [Next]_vars /\ ~Spend("fault") /\ ~Spend("foreign") /\ InHand
      /\ Supervised /\ Followed
      /\ Quiet /\ pc["init"] \notin StoppingRun => Route /\ Zone
  BY DEF CalmStep, Calm, Agreeing
<1>2. /\ pc \in [Procs -> InitLabels \cup HookLabels]
      /\ arg \in [Procs -> Setting \cup {None}]
      /\ dev \in [Procs -> Devs \cup {None}]
      /\ "init" \in Procs /\ "hook" \in Procs /\ Procs = {"init", "hook"}
      /\ ours \in Devs \cup {None} /\ device \in Devs \cup {None}
      /\ route \in [Tables -> Devs \cup {None}]
      /\ records \in Setting \cup {None} /\ None \notin Devs
  BY CalmTypes DEF CalmStep
<1>3. /\ ours' = ours /\ client' = client /\ records'.table = records.table
      /\ client = "up" /\ ours \in Devs /\ ours' # None
      /\ \/ Quiet /\ UNCHANGED events
         \/ pc'["hook"] = "check" /\ HookTake
  BY <1>2, QuietComes DEF Quiet, links
<1>4. CASE pc'["hook"] = "check" /\ HookTake
  BY <1>4
<1>5. SUFFICES ASSUME Quiet, UNCHANGED events PROVE Route' /\ Zone'
  BY <1>3, <1>4
<1>6. /\ svc = "instance" /\ "abort" \notin run /\ events = <<>>
      /\ records \in Setting /\ records.table \in Tables
      /\ Exists(ours) /\ (since = 0 \/ ifindex[ours] > since)
      /\ \A d \in Devs : d = ours
  BY <1>1, <1>2, <1>3, <1>5
  DEF Supervised, Followed, Concerned, Quiet, OneName, Setting
\* Steps that leave route, zone and record alone
<1>7. ASSUME UNCHANGED <<route, zone, device>>, pc'["hook"] = pc["hook"],
             pc["init"] \notin StoppingRun,
             pc'["init"] \in {"attachZone", "attachRecord"} => pc'["init"] = pc["init"]
      PROVE  Route' /\ Zone'
  BY <1>1, <1>2, <1>3, <1>5, <1>7 DEF At
<1>8. CASE Command \/ FireTrigger
  <2>1. /\ UNCHANGED <<route, zone, device>> /\ pc'["hook"] = pc["hook"]
        /\ pc["init"] = "idle"
        /\ pc'["init"] \in {"gate", "down", "unsnap", "apply"}
    BY <1>2, <1>8
    DEF Command, CallStart, CallRestart, CallStop, CallReload, FireTrigger,
        Call, InitIdle, Restart, StopLabel, Goto, kernel
  <2> QED
    BY <1>7, <2>1 DEF StoppingRun
<1>9. CASE InitStep
  <2>1. ~(Down \/ DownRest \/ Unsnap)
    BY <1>2, <1>6 DEF Down, DownRest, Unsnap, Goto, StoppingRun
  <2>2. ~(Kill \/ Abandon)
    BY <1>3 DEF Kill, Abandon, DropInstance
  <2>3. ASSUME UNCHANGED kernel, pc["init"] \notin StoppingRun, pc'["hook"] = pc["hook"],
               pc'["init"] \notin {"attachZone", "attachRecord"}
        PROVE  Route' /\ Zone'
    BY <1>7, <2>3 DEF kernel
  <2>4. CASE ApplyFull \/ ApplyByClass \/ Reattach \/ AttachClientTun
    BY <1>2, <2>3, <2>4
    DEF ApplyFull, ApplyByClass, Reattach, AttachClientTun, EndRun, Restart,
        StopLabel, Goto, StoppingRun
  <2>5. CASE StartGate \/ RegenConfig \/ Snapshot \/ OpenInstance
    BY <1>2, <2>3, <2>5
    DEF StartGate, RegenConfig, Snapshot, OpenInstance, BuildFailed, EndRun,
        Restart, AbortStart, StopLabel, Goto, StoppingRun
  <2>6. CASE Meter \/ Up \/ Ruleset
    <3>1. /\ UNCHANGED <<route, zone, device>> /\ pc'["hook"] = pc["hook"]
          /\ pc["init"] \notin StoppingRun
          /\ pc'["init"] \notin {"attachZone", "attachRecord"}
      BY <1>2, <2>6
      DEF Meter, Up, Ruleset, InstallMeter, UpRule, UpRuleset, BuildFailed,
          Restart, AbortStart, StopLabel, Goto, StoppingRun, kernel
    <3> QED
      BY <1>7, <3>1
  <2> QED
    BY <1>9, <2>1, <2>2, <2>4, <2>5, <2>6 DEF InitStep
<1>10. CASE HookStep
  <2>1. ~HookTake
    BY <1>6 DEF HookTake
  <2>2. ~(Detach \/ DetachRest)
    BY <1>1, <1>5 DEF InHand, Detach, DetachRest
  <2>3. HookCheck
    BY <1>10, <2>1, <2>2 DEF HookStep
  <2>4. dev["hook"] = ours
    BY <1>1, <1>2, <1>6, <2>3 DEF HookCheck, InHand
  <2>5. Attachable(dev["hook"])
    BY <1>2, <1>6, <2>4 DEF Attachable
  <2> QED
    BY <1>2, <2>3, <2>5 DEF HookCheck, Goto
<1>11. ASSUME NEW p \in Procs, AttachStep(p) PROVE Route' /\ Zone'
  <2>1. pc[p] \in AttachLabels /\ dev[p] = ours /\ dev[p] # None
    <3>1. pc[p] \in AttachLabels
      BY <1>11
      DEF AttachStep, Attach, AttachRoute, AttachZone, AttachRecord, AttachLabels
    <3> QED
      BY <1>1, <1>2, <1>6, <3>1 DEF InHand
  <2>2. pc["init"] \notin StoppingRun
    <3>1. CASE p = "init"
      BY <2>1, <3>1 DEF AttachLabels, StoppingRun
    <3>2. CASE p = "hook"
      <4>1. pc'["init"] = pc["init"]
        BY <1>2, <1>11, <3>2
        DEF AttachStep, Attach, AttachRoute, AttachZone, AttachRecord,
            AttachEnds, EndHook, Goto
      <4> QED
        BY <4>1
    <3> QED
      BY <1>2, <3>1, <3>2
  <2>3. Route /\ Zone
    BY <1>1, <1>5, <2>2
  <2>4. CASE Attach(p)
    <3>1. /\ UNCHANGED <<route, zone, device>>
          /\ pc' = [pc EXCEPT ![p] = "attachRoute"] /\ pc[p] = "attach"
      BY <1>6, <2>1, <2>4 DEF Attach, AttachHole, Goto
    <3> QED
      BY <1>2, <1>3, <2>3, <3>1 DEF At
  <2>5. CASE AttachRoute(p)
    <3>1. /\ route' = [route EXCEPT ![arg[p].table] = ours]
          /\ UNCHANGED <<zone, device>>
          /\ pc' = [pc EXCEPT ![p] = "attachZone"] /\ pc[p] = "attachRoute"
      BY <1>1, <1>6, <2>1, <2>5 DEF AttachRoute, AttachDefault, Goto
    <3>2. arg[p].table = records.table
      BY <1>1, <1>2, <1>5, <3>1 DEF InHand
    <3>3. Route'
      BY <1>2, <1>3, <1>6, <3>1, <3>2
    <3>4. Zone'
      BY <1>2, <1>3, <2>3, <3>1 DEF At
    <3> QED
      BY <3>3, <3>4
  <2>6. CASE AttachZone(p)
    <3>1. /\ zone' = ours /\ UNCHANGED <<route, device>>
          /\ pc' = [pc EXCEPT ![p] = "attachRecord"] /\ pc[p] = "attachZone"
      BY <1>1, <2>1, <2>6 DEF AttachZone, SyncZone, Goto
    <3> QED
      BY <1>2, <1>3, <2>3, <3>1 DEF At
  <2>7. CASE AttachRecord(p)
    <3>1. /\ UNCHANGED <<route, zone>> /\ pc[p] = "attachRecord"
      BY <2>7 DEF AttachRecord, RecordDevice
    <3>2. \/ p = "hook" /\ pc' = [pc EXCEPT !["hook"] = "idle"]
          \/ p = "init" /\ pc' = [pc EXCEPT !["init"] = pc'["init"]]
      BY <1>2, <2>7
      DEF AttachRecord, AttachEnds, EndHook, EndRun, Restart, Goto
    <3>3. At({"attachRecord"}) /\ At({"attachZone", "attachRecord"})
      BY <3>1 DEF At
    <3>4. pc'["hook"] = pc["hook"] \/ (p = "hook" /\ pc["hook"] = "attachRecord")
      BY <1>2, <3>1, <3>2
    <3> QED
      BY <1>3, <2>3, <3>1, <3>3, <3>4
  <2> QED
    BY <1>11, <2>4, <2>5, <2>6, <2>7 DEF AttachStep
<1>12. ~(Spawn \/ Crash \/ Exit \/ Reboot \/ DropTun)
  BY <1>3 DEF Spawn, Crash, Exit, Reboot, DropTun, CloseTun
<1>13. ~\E d \in Devs : CreateTun(d) \/ ForeignAdd(d) \/ ForeignRemove(d)
  BY <1>1, <1>3 DEF CreateTun, ForeignAdd, ForeignRemove, Supervised
<1>14. CASE (\E c \in Configs : Commit(c)) \/ UNCHANGED vars
  <2>1. UNCHANGED <<pc, route, zone, device>>
    BY <1>14 DEF Commit, vars, script, kernel
  <2> QED
    BY <1>7, <2>1
<1> QED
  BY <1>1, <1>2, <1>8, <1>9, <1>10, <1>11, <1>12, <1>13, <1>14
  DEF Next, CreateSomeTun, Environment

LEMMA AgreeInit == Init => AgreeInv
<1> SUFFICES ASSUME Init PROVE AgreeInv
  OBVIOUS
<1>1. TypeInv /\ AppliedInv
  BY TypeInvInit, AppliedInit
<1>2. Counted /\ chance["foreign"] <= Budget["foreign"]
  BY ServiceAssumption
  DEF Init, InitWith, Counted, ServiceAssumption, Chances
<1>3. Supervised /\ Followed /\ LastEvent
  BY CalmTypes, <1>1
  DEF Init, InitWith, Supervised, Followed, LastEvent, Exists, Procs, Starting
<1>4. InHand /\ Agreeing
  BY DEF Init, InitWith, InHand, Agreeing, Quiet, AttachLabels, Procs
<1> QED
  BY <1>1, <1>2, <1>3, <1>4 DEF AgreeInv, Calm

LEMMA AgreeStep ==
  ASSUME Orderly, OneName, AgreeInv, [Next]_vars
  PROVE  AgreeInv'
<1>1. TypeInv' /\ AppliedInv' /\ Counted'
  BY TypeInvStep, AppliedStep, CountedStep DEF AgreeInv
<1>2. /\ chance \in [Chances -> Nat] /\ chance' \in [Chances -> Nat]
      /\ Budget \in [Chances -> Nat] /\ "fault" \in Chances /\ "foreign" \in Chances
  BY <1>1, ServiceAssumption
  DEF AgreeInv, TypeInv, TypeOK, WorldTypeOK, ServiceAssumption, Chances
<1>3. /\ chance'["fault"] <= chance["fault"] /\ chance'["foreign"] <= chance["foreign"]
      /\ chance["fault"] <= Budget["fault"] /\ chance["foreign"] <= Budget["foreign"]
  BY <1>2, ChancesSpent DEF AgreeInv, AppliedInv
<1>4. chance'["foreign"] <= Budget["foreign"]
  BY <1>2, <1>3
<1>5. ASSUME Undisturbed' PROVE CalmStep
  <2>1. chance'["fault"] = Budget["fault"] /\ chance'["foreign"] = Budget["foreign"]
    BY <1>5 DEF Undisturbed, NoFaultYet
  <2>2. Undisturbed
    BY <1>2, <1>3, <2>1 DEF Undisturbed, NoFaultYet
  <2>3. ~Spend("fault") /\ ~Spend("foreign")
    BY <1>2, <1>3, <2>1 DEF Spend
  <2> QED
    BY <1>1, <2>2, <2>3 DEF AgreeInv, CalmStep
<1>6. Undisturbed' => Calm'
  BY <1>1, <1>5, SupervisedStep, FollowedStep, LastEventStep, InHandStep,
     AgreeingStep
  DEF Calm
<1> QED
  BY <1>1, <1>4, <1>6 DEF AgreeInv

\* With a client whose device keeps its name, and as long as no tool has failed
\* and no other tun device has come up: whatever starts, stops, edits, crashes,
\* reconnects and power losses went before, and however the hook and the init
\* script took turns, a recorded device that is there has the route of the
\* applied table and the zone once both of them rest.
THEOREM OneRecord ==
  Orderly /\ OneName => (Spec => [](Undisturbed => AttachmentAgrees))
<1> SUFFICES ASSUME Orderly, OneName
             PROVE  Spec => [](Undisturbed => AttachmentAgrees)
  OBVIOUS
<1>1. AgreeInv /\ [Next]_vars => AgreeInv'
  BY AgreeStep
<1>2. AgreeInv => (Undisturbed => AttachmentAgrees)
  <2> SUFFICES ASSUME AgreeInv, Undisturbed, Settled, device # None, Exists(device)
               PROVE  route[records.table] = device /\ zone = device
    BY DEF AttachmentAgrees
  <2>1. Supervised /\ Agreeing /\ device \in Devs
    BY CalmTypes DEF AgreeInv, Calm
  <2>2. ours = device /\ Quiet
    BY <2>1 DEF Supervised, Settled, Quiet
  <2>3. pc["init"] = "idle" /\ pc["hook"] = "idle"
    BY DEF Settled, InitIdle
  <2> QED
    BY <2>1, <2>2, <2>3 DEF Agreeing, StoppingRun
<1> QED
  BY <1>1, <1>2, AgreeInit, PTL DEF Spec
=============================================================================
