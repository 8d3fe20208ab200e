------------------------ MODULE TunnelService_proofs ------------------------
(***************************************************************************)
(* Proofs about TunnelService, for every value of its constants: every     *)
(* variable keeps to its type, and the tunnel is not routed to a device    *)
(* that is older than the client.                                          *)
(*                                                                         *)
(* The second needs the ages of all devices the scripts have in hand: what *)
(* a snapshot, an event, a record or a helper names is newer than the      *)
(* client or is not routed to.  A restart that overtakes the hotplug hook  *)
(* between its look at the snapshot and the route it adds breaks that; a   *)
(* single command after boot cannot.                                       *)
(***************************************************************************)
EXTENDS TunnelService, TLAPS

(***************************************************************************)
(* The labels at which the init script relies on the records being there.  *)
(***************************************************************************)
RecordLabels ==
  {"down", "downRoutes", "downZone", "downForget", "up", "ruleset", "meter",
   "reattach", "snap", "open", "wait"} \cup AttachLabels

Working ==
  /\ pc["init"] \in RecordLabels => records # None
  /\ pc["hook"] # "idle" => records # None
  /\ pc["init"] \in {"downRoutes", "ruleset"} => arg["init"] # None
  /\ pc["hook"] = "detach" => arg["hook"] # None

\* The inductive invariant behind TypeOK.
TypeInv == TypeOK /\ Working

-----------------------------------------------------------------------------
(* The state of the scripts *)

ScriptInv == ScriptTypeOK /\ Working

\* Files are replaced by files: the records, once written, stay.
Steady ==
  /\ records' \in Setting \cup {None}
  /\ toml' \in ClientConfig \cup {None}
  /\ since' \in Nat
  /\ records # None => records' # None

\* The four ways a run of a script changes course keep its state in order.
LEMMA EndRunOK ==
  ASSUME ScriptInv, Steady, EndRun PROVE ScriptInv'
BY DEF ScriptInv, ScriptTypeOK, Working, Steady, EndRun, RecordLabels,
       InitLabels, HookLabels, AttachLabels, Procs, Flags, Goto

LEMMA EndHookOK ==
  ASSUME ScriptInv, Steady, EndHook, UNCHANGED run PROVE ScriptInv'
BY DEF ScriptInv, ScriptTypeOK, Working, Steady, EndHook, RecordLabels,
       InitLabels, HookLabels, AttachLabels, Procs, Flags, Goto

LEMMA RestartOK ==
  ASSUME ScriptInv, Steady, NEW flags \in SUBSET Flags, Restart(flags),
         UNCHANGED <<arg, dev>>
  PROVE  ScriptInv'
BY DEF ScriptInv, ScriptTypeOK, Working, Steady, Restart, StopLabel,
       RecordLabels, InitLabels, HookLabels, AttachLabels, Procs, Flags, Goto

LEMMA AbortOK ==
  ASSUME ScriptInv, Steady, AbortStart, UNCHANGED <<arg, dev>>
  PROVE  ScriptInv'
BY DEF ScriptInv, ScriptTypeOK, Working, Steady, AbortStart, RecordLabels,
       InitLabels, HookLabels, AttachLabels, Procs, Flags, Goto

\* Every step keeps the state of the scripts in order.
LEMMA ScriptStep == TypeInv /\ [Next]_vars => ScriptInv'
<1> SUFFICES ASSUME TypeInv, [Next]_vars PROVE ScriptInv'
    OBVIOUS
<1> uci \in Setting
  BY DEF TypeInv, TypeOK, WorldTypeOK
<1> ScriptInv
  BY DEF TypeInv, TypeOK, ScriptInv
<1> device \in Devs \cup {None} /\ events \in Seq(Event)
  BY DEF TypeInv, TypeOK, RoutingTypeOK, WorldTypeOK
<1> USE SettingsAssumption DEF SettingsAssumption
<1> USE DEF ScriptInv, ScriptTypeOK, Working, RecordLabels, Steady, InitLabels,
            HookLabels, AttachLabels, Procs, Flags, Goto, quietScript,
            hookQuiet
<1>1. ASSUME NEW flags \in SUBSET {"now"}, CallStart(flags)
      PROVE  ScriptInv'
  BY <1>1 DEF CallStart, Call
<1>2. ASSUME NEW flags \in SUBSET {"now"}, CallRestart(flags)
      PROVE  ScriptInv'
  BY <1>2, RestartOK DEF CallRestart, Call
<1>3. CASE CallStop
  BY <1>3 DEF CallStop, StopLabel, Call
<1>4. CASE CallReload \/ FireTrigger
  BY <1>4 DEF CallReload, FireTrigger, Call
<1>5. CASE ApplyFull
  BY <1>5, RestartOK DEF ApplyFull
<1>6. CASE ApplyByClass
  <2>1. UNCHANGED <<records, toml, since>>
    BY <1>6 DEF ApplyByClass
  <2>2. CASE EndRun
    BY <2>1, <2>2, EndRunOK
  <2>3. CASE /\ run' = run \cup {"reload"}
             /\ pc' = [pc EXCEPT !["init"] = "regen"]
             /\ UNCHANGED <<arg, dev>>
    BY <2>1, <2>3
  <2>4. CASE Restart(run \cup {"keep"}) /\ UNCHANGED <<arg, dev>>
    <3>1. run \cup {"keep"} \in SUBSET Flags
      OBVIOUS
    <3> QED BY <2>1, <2>4, <3>1, RestartOK
  <2>5. CASE Restart(run) /\ UNCHANGED <<arg, dev>>
    BY <2>1, <2>5, RestartOK
  <2> QED BY <1>6, <2>2, <2>3, <2>4, <2>5 DEF ApplyByClass
<1>7. CASE Reattach
  <2>1. CASE device # None /\ Exists(device)
    <3>1. /\ dev' = [dev EXCEPT !["init"] = device]
          /\ pc' = [pc EXCEPT !["init"] = "attach"]
          /\ UNCHANGED <<records, toml, since, arg, run>>
      BY <1>7, <2>1 DEF Reattach
    <3>2. records # None
      BY <1>7 DEF Reattach
    <3> QED BY <3>1, <3>2
  <2>2. CASE ~(device # None /\ Exists(device))
    BY <1>7, <2>2, EndRunOK DEF Reattach
  <2> QED BY <2>1, <2>2
<1>8. CASE Down
  BY <1>8 DEF Down, DownMarks
<1>9. CASE DownRest
  BY <1>9 DEF DownRest, DownRoutes, ClearZone, ForgetDevice
<1>10. CASE Unsnap
  BY <1>10 DEF Unsnap
<1>11. CASE Kill
  <2>1. CASE "restart" \in run
    <3>1. run' \subseteq Flags
      BY <1>11, <2>1 DEF Kill
    <3>2. /\ pc' = [pc EXCEPT !["init"] = "gate"]
          /\ UNCHANGED <<records, toml, since, arg, dev>>
      BY <1>11, <2>1 DEF Kill
    <3> QED BY <3>1, <3>2
  <2>2. CASE "restart" \notin run
    BY <1>11, <2>2, EndRunOK DEF Kill
  <2> QED BY <2>1, <2>2
<1>12. CASE StartGate
  <2>1. CASE AbortStart
    BY <1>12, <2>1, AbortOK DEF StartGate
  <2>2. CASE Goto("init", "regen") /\ UNCHANGED run
    BY <1>12, <2>2 DEF StartGate
  <2> QED BY <1>12, <2>1, <2>2 DEF StartGate
<1>13. CASE RegenConfig
  BY <1>13, EndRunOK, RestartOK, AbortOK
  DEF RegenConfig, BuildFailed, Toml, ClientConfig, Setting
<1>14. CASE Meter
  BY <1>14 DEF Meter, InstallMeter
<1>15. CASE Up
  BY <1>15 DEF Up, UpRule, Setting
<1>16. CASE Ruleset
  <2>1. UNCHANGED <<records, toml, since, arg, dev>>
    BY <1>16 DEF Ruleset
  <2>2. CASE /\ pc' = [pc EXCEPT !["init"] =
                         IF "reload" \in run THEN "reattach" ELSE "snap"]
             /\ UNCHANGED run
    <3>1. records # None
      BY <1>16 DEF Ruleset
    <3> QED BY <2>1, <2>2, <3>1
  <2>3. CASE Restart(run)
    BY <2>1, <2>3, RestartOK
  <2>4. CASE AbortStart
    BY <2>1, <2>4, AbortOK
  <2> QED BY <1>16, <2>2, <2>3, <2>4 DEF Ruleset, BuildFailed
<1>17. CASE Snapshot
  BY <1>17 DEF Snapshot, Indexes
<1>18. CASE OpenInstance
  <2>1. records # None /\ UNCHANGED <<records, toml, since>>
    BY <1>18 DEF OpenInstance
  <2>2. CASE EndRun
    BY <2>1, <2>2, EndRunOK
  <2>3. CASE /\ pc' = [pc EXCEPT !["init"] = "wait"]
             /\ UNCHANGED <<run, arg, dev>>
    BY <2>1, <2>3
  <2> QED BY <1>18, <2>2, <2>3 DEF OpenInstance
<1>19. CASE Abandon
  BY <1>19, EndRunOK DEF Abandon
<1>20. CASE AttachClientTun
  <2>1. CASE EndRun
    BY <1>20, <2>1, EndRunOK DEF AttachClientTun
  <2>2. ASSUME NEW d \in FreshTuns, dev' = [dev EXCEPT !["init"] = d],
               Goto("init", "attach"), UNCHANGED <<run, arg>>
        PROVE  ScriptInv'
    BY <1>20, <2>2 DEF AttachClientTun, FreshTuns
  <2> QED BY <1>20, <2>1, <2>2 DEF AttachClientTun
<1>21. ASSUME NEW p \in Procs, Attach(p) PROVE ScriptInv'
  <2>1. CASE Exists(dev[p])
    <3>1. /\ pc' = [pc EXCEPT ![p] = "attachRoute"]
          /\ arg' = [arg EXCEPT ![p] = records]
          /\ UNCHANGED <<records, toml, since, run, dev>>
      BY <1>21, <2>1 DEF Attach
    <3>2. records # None
      BY <1>21 DEF Attach
    <3> QED BY <3>1, <3>2
  <2>2. CASE ~Exists(dev[p])
    BY <1>21, <2>2, EndRunOK, EndHookOK, RestartOK DEF Attach, AttachEnds
  <2> QED BY <2>1, <2>2
<1>22. ASSUME NEW p \in Procs, AttachRoute(p) PROVE ScriptInv'
  <2>1. CASE pc' = [pc EXCEPT ![p] = "attachZone"] /\ UNCHANGED <<arg, dev, run>>
    BY <1>22, <2>1 DEF AttachRoute
  <2>2. CASE AttachEnds(p, FALSE)
    BY <1>22, <2>2, EndRunOK, EndHookOK, RestartOK DEF AttachRoute, AttachEnds
  <2> QED BY <1>22, <2>1, <2>2 DEF AttachRoute, Goto
<1>23. ASSUME NEW p \in Procs, AttachZone(p) PROVE ScriptInv'
  BY <1>23 DEF AttachZone, SyncZone
<1>24. ASSUME NEW p \in Procs, AttachRecord(p) PROVE ScriptInv'
  BY <1>24, EndRunOK, EndHookOK, RestartOK DEF AttachRecord, AttachEnds
<1>25. CASE HookTake
  <2> DEFINE d == Head(events).dev
  <2>0. d \in Devs
    <3>1. Head(events) \in Event
      BY <1>25 DEF HookTake
    <3> QED BY <3>1 DEF Event
  <2>1. CASE /\ Concerned
             /\ Goto("hook", "check")
             /\ dev' = [dev EXCEPT !["hook"] = d]
             /\ UNCHANGED arg
    BY <1>25, <2>0, <2>1 DEF HookTake, Concerned
  <2>2. CASE /\ Concerned
             /\ Goto("hook", "detach")
             /\ arg' = [arg EXCEPT !["hook"] = records]
             /\ UNCHANGED dev
    BY <1>25, <2>0, <2>2 DEF HookTake, Concerned
  <2>3. CASE UNCHANGED <<pc, arg, dev>>
    BY <1>25, <2>3 DEF HookTake
  <2> QED BY <1>25, <2>1, <2>2, <2>3 DEF HookTake
<1>26. CASE HookCheck
  BY <1>26 DEF HookCheck, EndHook
<1>27. CASE Detach
  BY <1>27 DEF Detach, DetachRoutes
<1>28. CASE DetachRest
  BY <1>28 DEF DetachRest, ClearZone, ForgetDevice, EndHook
<1>29. CASE Spawn
  BY <1>29 DEF Spawn, script
<1>30. ASSUME NEW d \in Devs, CreateTun(d) PROVE ScriptInv'
  BY <1>30 DEF CreateTun, AddLink, Event, script
<1>31. CASE DropTun
  BY <1>31 DEF DropTun, CloseTun, RemoveLink, Event, script
<1>32. CASE Crash
  BY <1>32 DEF Crash, CloseTun, RemoveLink, Event, script
<1>33. CASE Exit
  BY <1>33 DEF Exit, CloseTun, RemoveLink, Event, script
<1>34. ASSUME NEW d \in Devs, ForeignAdd(d) PROVE ScriptInv'
  BY <1>34 DEF ForeignAdd, AddLink, Event, script
<1>35. ASSUME NEW d \in Devs, ForeignRemove(d) PROVE ScriptInv'
  BY <1>35 DEF ForeignRemove, RemoveLink, Event, script
<1>36. ASSUME NEW c \in Configs, Commit(c) PROVE ScriptInv'
  BY <1>36 DEF Commit, script
<1>37. CASE Reboot
  BY <1>37 DEF Reboot
<1>38. CASE UNCHANGED vars
  BY <1>38 DEF vars, script
<1> QED
  BY <1>1, <1>2, <1>3, <1>4, <1>5, <1>6, <1>7, <1>8, <1>9, <1>10,
     <1>11, <1>12, <1>13, <1>14, <1>15, <1>16, <1>17, <1>18, <1>19, <1>20,
     <1>21, <1>22, <1>23, <1>24, <1>25, <1>26, <1>27, <1>28, <1>29, <1>30,
     <1>31, <1>32, <1>33, <1>34, <1>35, <1>36, <1>37, <1>38
  DEF Next, Command, InitStep, AttachStep, HookStep, CreateSomeTun,
      Environment

-----------------------------------------------------------------------------
(* The kernel state *)

\* A step that leaves the kernel alone keeps its types.
LEMMA KernelKept ==
  ASSUME RoutingTypeOK, UNCHANGED <<ifindex, kernel>> PROVE RoutingTypeOK'
BY DEF RoutingTypeOK, kernel

\* So do the commands of the routing helper on tables and marks, ...
LEMMA KernelTables ==
  ASSUME RoutingTypeOK, UNCHANGED ifindex, NEW s \in Setting,
         \/ UpRule(s) \/ UpRuleset(s) \/ InstallMeter \/ AttachHole(s)
         \/ DetachRoutes(s) \/ DownMarks(s) \/ DownRoutes(s)
  PROVE  RoutingTypeOK'
BY DEF RoutingTypeOK, UpRule, UpRuleset, InstallMeter, AttachHole, Setting,
       DetachRoutes, DownMarks, DownRoutes

\* ... its commands on devices, ...
LEMMA KernelDevices ==
  ASSUME RoutingTypeOK, UNCHANGED ifindex, NEW s, NEW d \in Devs \cup {None},
         \/ AttachDefault(s, d) \/ SyncZone(d) \/ RecordDevice(d)
         \/ ClearZone \/ ForgetDevice
  PROVE  RoutingTypeOK'
BY DEF RoutingTypeOK, AttachDefault, SyncZone, RecordDevice, ClearZone,
       ForgetDevice

\* ... and devices that go or come.
LEMMA KernelRemoveLink ==
  ASSUME RoutingTypeOK, NEW d \in Devs, RemoveLink(d) PROVE RoutingTypeOK'
<1>1. ifindex' \in [Devs -> Nat]
  BY DEF RoutingTypeOK, RemoveLink
<1>2. route' \in [Tables -> Devs \cup {None}]
  BY DEF RoutingTypeOK, RemoveLink
<1> QED BY <1>1, <1>2 DEF RoutingTypeOK, RemoveLink

LEMMA KernelAddLink ==
  ASSUME RoutingTypeOK, lastIndex \in Nat, NEW d \in Devs, AddLink(d),
         UNCHANGED kernel
  PROVE  RoutingTypeOK'
<1>1. ifindex' \in [Devs -> Nat]
  BY DEF RoutingTypeOK, AddLink
<1> QED BY <1>1 DEF RoutingTypeOK, kernel

LEMMA KernelCloseTun ==
  ASSUME RoutingTypeOK, ours \in Devs \cup {None}, CloseTun
  PROVE  RoutingTypeOK'
BY KernelRemoveLink, KernelKept DEF CloseTun, links

\* Every step keeps the types of the kernel state.
LEMMA KernelStep == TypeInv /\ [Next]_vars => RoutingTypeOK'
<1> SUFFICES ASSUME TypeInv, [Next]_vars PROVE RoutingTypeOK'
    OBVIOUS
<1> RoutingTypeOK
  BY DEF TypeInv, TypeOK
<1> /\ lastIndex \in Nat
    /\ ours \in Devs \cup {None}
    /\ records \in Setting \cup {None}
    /\ arg \in [Procs -> Setting \cup {None}]
    /\ dev \in [Procs -> Devs \cup {None}]
    /\ Working
  BY DEF TypeInv, TypeOK, WorldTypeOK, ScriptTypeOK
<1>1. CASE \E flags \in SUBSET {"now"} : CallStart(flags) \/ CallRestart(flags)
  BY <1>1, KernelKept DEF CallStart, CallRestart, links
<1>2. CASE CallStop \/ CallReload \/ FireTrigger
  BY <1>2, KernelKept DEF CallStop, CallReload, FireTrigger, links
<1>3. CASE ApplyFull \/ ApplyByClass \/ Reattach
  BY <1>3, KernelKept DEF ApplyFull, ApplyByClass, Reattach, links
<1>4. CASE Down
  BY <1>4, KernelTables DEF Down, links, Working, RecordLabels
<1>5. CASE DownRest
  <2>1. UNCHANGED ifindex
    BY <1>5 DEF DownRest, links
  <2>2. CASE pc["init"] = "downRoutes" /\ DownRoutes(arg["init"])
    <3>1. arg["init"] \in Setting
      BY <2>2 DEF Working, Procs
    <3> QED BY <2>1, <2>2, <3>1, KernelTables
  <2>3. CASE ClearZone \/ ForgetDevice
    BY <2>1, <2>3, KernelDevices
  <2> QED BY <1>5, <2>2, <2>3 DEF DownRest
<1>6. CASE Unsnap \/ Kill \/ StartGate \/ RegenConfig
  BY <1>6, KernelKept DEF Unsnap, Kill, StartGate, RegenConfig, links
<1>7. CASE Meter
  BY <1>7, KernelKept, KernelTables DEF Meter, links, Working, RecordLabels
<1>8. CASE Up
  BY <1>8, KernelTables DEF Up, links, Working, RecordLabels
<1>9. CASE Ruleset
  BY <1>9, KernelKept, KernelTables DEF Ruleset, links, Working, Procs
<1>10. CASE Snapshot \/ OpenInstance \/ Abandon \/ AttachClientTun
  BY <1>10, KernelKept
  DEF Snapshot, OpenInstance, Abandon, AttachClientTun, links
<1>11. ASSUME NEW p \in Procs, Attach(p) PROVE RoutingTypeOK'
  BY <1>11, KernelKept, KernelTables
  DEF Attach, links, Working, RecordLabels, AttachLabels, Procs
<1>12. ASSUME NEW p \in Procs, AttachRoute(p) PROVE RoutingTypeOK'
  BY <1>12, KernelKept, KernelDevices DEF AttachRoute, links
<1>13. ASSUME NEW p \in Procs, AttachZone(p) PROVE RoutingTypeOK'
  BY <1>13, KernelKept, KernelDevices DEF AttachZone, links
<1>14. ASSUME NEW p \in Procs, AttachRecord(p) PROVE RoutingTypeOK'
  BY <1>14, KernelDevices DEF AttachRecord, links
<1>15. CASE HookTake \/ HookCheck
  BY <1>15, KernelKept DEF HookTake, HookCheck, hookQuiet, links
<1>16. CASE Detach
  BY <1>16, KernelTables DEF Detach, hookQuiet, links, Working, Procs
<1>17. CASE DetachRest
  BY <1>17, KernelDevices DEF DetachRest, hookQuiet, links
<1>18. CASE Spawn
  BY <1>18, KernelKept DEF Spawn, links
<1>19. ASSUME NEW d \in Devs, CreateTun(d) \/ ForeignAdd(d)
       PROVE  RoutingTypeOK'
  BY <1>19, KernelAddLink DEF CreateTun, ForeignAdd
<1>20. ASSUME NEW d \in Devs, ForeignRemove(d) PROVE RoutingTypeOK'
  BY <1>20, KernelRemoveLink DEF ForeignRemove
<1>21. CASE DropTun \/ Crash \/ Exit
  BY <1>21, KernelCloseTun DEF DropTun, Crash, Exit
<1>22. ASSUME NEW c \in Configs, Commit(c) PROVE RoutingTypeOK'
  BY <1>22, KernelKept DEF Commit, links
<1>23. CASE Reboot
  BY <1>23 DEF Reboot, RoutingTypeOK
<1>24. CASE UNCHANGED vars
  BY <1>24, KernelKept DEF vars, links
<1> QED
  BY <1>1, <1>2, <1>3, <1>4, <1>5, <1>6, <1>7, <1>8, <1>9, <1>10, <1>11,
     <1>12, <1>13, <1>14, <1>15, <1>16, <1>17, <1>18, <1>19, <1>20, <1>21,
     <1>22, <1>23, <1>24
  DEF Next, Command, InitStep, AttachStep, HookStep, CreateSomeTun,
      Environment

-----------------------------------------------------------------------------
(* The world outside the scripts *)

\* What is left of the budget never goes below nothing.
LEMMA SpendType ==
  ASSUME chance \in [Chances -> Nat], NEW c \in Chances, Spend(c)
  PROVE  chance' \in [Chances -> Nat]
BY DEF Spend

\* The steps of the scripts leave the world alone, save what is left of the
\* budget.
ScriptsOnly ==
  /\ UNCHANGED <<procd, links, uci, events>>
  /\ UNCHANGED chance \/ \E c \in Chances : Spend(c)

\* Such steps keep the types of the world.
LEMMA WorldKept == ASSUME WorldTypeOK, ScriptsOnly PROVE WorldTypeOK'
<1>1. chance' \in [Chances -> Nat]
  BY SpendType DEF WorldTypeOK, ScriptsOnly
<1> QED BY <1>1 DEF WorldTypeOK, ScriptsOnly, procd, links

\* The queue of hotplug events holds events.
LEMMA EventAppended ==
  ASSUME events \in Seq(Event), NEW d \in Devs, NEW a \in {"add", "remove"},
         events' = Append(events, [action |-> a, dev |-> d])
  PROVE  events' \in Seq(Event)
<1>1. [action |-> a, dev |-> d] \in Event
  BY DEF Event
<1> QED BY <1>1

\* The device of the client disappears in good order.
LEMMA WorldCloseTun ==
  ASSUME WorldTypeOK, CloseTun
  PROVE  /\ ours' \in Devs \cup {None}
         /\ lastIndex' \in Nat
         /\ events' \in Seq(Event)
BY EventAppended DEF WorldTypeOK, CloseTun, RemoveLink, links

\* Every step keeps the types of the world.
LEMMA WorldStep == TypeInv /\ [Next]_vars => WorldTypeOK'
<1> SUFFICES ASSUME TypeInv, [Next]_vars PROVE WorldTypeOK'
    OBVIOUS
<1> WorldTypeOK
  BY DEF TypeInv, TypeOK
<1> toml \in ClientConfig \cup {None}
  BY DEF TypeInv, TypeOK, ScriptTypeOK
<1> {"call", "commit", "fault", "crash", "recreate", "foreign", "reboot"}
      \subseteq Chances
  BY DEF Chances
<1>1. CASE \E flags \in SUBSET {"now"} : CallStart(flags) \/ CallRestart(flags)
  BY <1>1, WorldKept DEF CallStart, CallRestart, Call, ScriptsOnly
<1>2. CASE CallStop \/ CallReload
  BY <1>2, WorldKept DEF CallStop, CallReload, Call, ScriptsOnly
<1>3. CASE FireTrigger
  BY <1>3 DEF FireTrigger, WorldTypeOK, links
<1>4. CASE ApplyFull \/ ApplyByClass \/ Reattach \/ Down \/ DownRest \/ Unsnap
  BY <1>4, WorldKept
  DEF ApplyFull, ApplyByClass, Reattach, Down, DownRest, Unsnap, ScriptsOnly
<1>5. CASE Kill
  BY <1>5 DEF Kill, DropInstance, WorldTypeOK, links
<1>6. CASE StartGate \/ RegenConfig \/ Meter \/ Up \/ Ruleset \/ Snapshot
  BY <1>6, WorldKept
  DEF StartGate, RegenConfig, Meter, Up, Ruleset, Snapshot, ScriptsOnly
<1>7. CASE OpenInstance
  BY <1>7 DEF OpenInstance, WorldTypeOK, links
<1>8. CASE Abandon
  BY <1>8 DEF Abandon, DropInstance, WorldTypeOK, links
<1>9. CASE AttachClientTun
  BY <1>9, WorldKept DEF AttachClientTun, ScriptsOnly
<1>10. ASSUME NEW p \in Procs, AttachStep(p) PROVE WorldTypeOK'
  BY <1>10, WorldKept
  DEF AttachStep, Attach, AttachRoute, AttachZone, AttachRecord, ScriptsOnly
<1>11. CASE HookTake
  BY <1>11 DEF HookTake, hookQuiet, WorldTypeOK, procd, links
<1>12. CASE HookCheck \/ Detach \/ DetachRest
  BY <1>12, WorldKept
  DEF HookCheck, Detach, DetachRest, hookQuiet, ScriptsOnly
<1>13. CASE Spawn
  BY <1>13 DEF Spawn, WorldTypeOK, links
<1>14. ASSUME NEW d \in Devs, CreateTun(d) PROVE WorldTypeOK'
  <2>1. events' \in Seq(Event)
    BY <1>14, EventAppended DEF CreateTun, AddLink, WorldTypeOK
  <2> QED BY <1>14, <2>1 DEF CreateTun, AddLink, WorldTypeOK, procd
<1>15. ASSUME NEW d \in Devs, ForeignAdd(d) PROVE WorldTypeOK'
  <2>1. events' \in Seq(Event)
    BY <1>15, EventAppended DEF ForeignAdd, AddLink, WorldTypeOK
  <2>2. chance' \in [Chances -> Nat]
    BY <1>15, SpendType DEF ForeignAdd, WorldTypeOK
  <2> QED BY <1>15, <2>1, <2>2 DEF ForeignAdd, AddLink, WorldTypeOK, procd
<1>16. ASSUME NEW d \in Devs, ForeignRemove(d) PROVE WorldTypeOK'
  BY <1>16, EventAppended DEF ForeignRemove, RemoveLink, WorldTypeOK, procd
<1>17. CASE DropTun
  BY <1>17, WorldCloseTun, SpendType DEF DropTun, WorldTypeOK, procd
<1>18. CASE Crash
  BY <1>18, WorldCloseTun, SpendType DEF Crash, WorldTypeOK
<1>19. CASE Exit
  BY <1>19, WorldCloseTun DEF Exit, WorldTypeOK
<1>20. ASSUME NEW c \in Configs, Commit(c) PROVE WorldTypeOK'
  BY <1>20, SettingsAssumption, SpendType
  DEF Commit, SettingsAssumption, WorldTypeOK, links
<1>21. CASE Reboot
  <2>1. chance' \in [Chances -> Nat]
    BY <1>21, SpendType DEF Reboot, WorldTypeOK
  <2>2. events' \in Seq(Event)
    BY <1>21 DEF Reboot
  <2> QED BY <1>21, <2>1, <2>2 DEF Reboot, WorldTypeOK
<1>22. CASE UNCHANGED vars
  BY <1>22, WorldKept DEF vars, ScriptsOnly
<1> QED
  BY <1>1, <1>2, <1>3, <1>4, <1>5, <1>6, <1>7, <1>8, <1>9, <1>10, <1>11,
     <1>12, <1>13, <1>14, <1>15, <1>16, <1>17, <1>18, <1>19, <1>20, <1>21,
     <1>22
  DEF Next, Command, InitStep, HookStep, CreateSomeTun, Environment

-----------------------------------------------------------------------------
(* Type correctness *)

\* The invariant holds to begin with, and every step keeps it.
LEMMA TypeInvInit == Init => TypeInv
<1> SUFFICES ASSUME Init PROVE TypeInv
    OBVIOUS
<1>1. RoutingTypeOK
  BY DEF Init, InitWith, RoutingInit, RoutingTypeOK
<1>2. WorldTypeOK
  <2>1. events \in Seq(Event)
    BY DEF Init, InitWith
  <2>2. uci \in Setting /\ chance \in [Chances -> Nat]
    BY SettingsAssumption, ServiceAssumption
    DEF Init, InitWith, SettingsAssumption, ServiceAssumption
  <2> QED BY <2>1, <2>2 DEF Init, InitWith, WorldTypeOK
<1>3. ScriptTypeOK /\ Working
  BY DEF Init, InitWith, ScriptTypeOK, Working, RecordLabels, InitLabels, HookLabels,
         AttachLabels, Procs
<1> QED BY <1>1, <1>2, <1>3 DEF TypeInv, TypeOK

LEMMA TypeInvStep == TypeInv /\ [Next]_vars => TypeInv'
BY ScriptStep, KernelStep, WorldStep DEF TypeInv, TypeOK, ScriptInv

\* Types: whatever the interleaving, every variable stays in its domain; in
\* particular no helper runs on records, or on a device, that are not there.
THEOREM TypeCorrect == Spec => []TypeOK
<1>1. TypeInv => TypeOK
  BY DEF TypeInv
<1> QED BY TypeInvInit, TypeInvStep, <1>1, PTL DEF Spec

-----------------------------------------------------------------------------
(* Budgets *)

\* What a step costs: no budget ever grows.
LEMMA ChancesSpent ==
  ASSUME TypeInv, [Next]_vars
  PROVE  \A c \in Chances : chance'[c] <= chance[c]
<1> DEFINE Cheap == UNCHANGED chance \/ \E c \in Chances : Spend(c)
<1>1. chance \in [Chances -> Nat]
  BY DEF TypeInv, TypeOK, WorldTypeOK
<1>2. SUFFICES Cheap
  BY <1>1 DEF Spend
<1>3. CASE InitStep
  <2>1. CASE ApplyFull \/ ApplyByClass \/ Reattach \/ Down \/ DownRest
    BY <2>1 DEF ApplyFull, ApplyByClass, Reattach, Down, DownRest, Chances
  <2>2. CASE Unsnap \/ Kill \/ StartGate \/ RegenConfig \/ Meter
    BY <2>2 DEF Unsnap, Kill, StartGate, RegenConfig, Meter, Chances
  <2>3. CASE Up \/ Ruleset \/ Snapshot \/ OpenInstance \/ Abandon
    BY <2>3 DEF Up, Ruleset, Snapshot, OpenInstance, Abandon, Chances
  <2> QED
    BY <1>3, <2>1, <2>2, <2>3 DEF InitStep, AttachClientTun
<1>4. CASE HookStep
  BY <1>4 DEF HookStep, HookTake, HookCheck, Detach, DetachRest, hookQuiet
<1>5. CASE \E p \in Procs : AttachStep(p)
  BY <1>5
  DEF AttachStep, Attach, AttachRoute, AttachZone, AttachRecord, Chances
<1>6. CASE FireTrigger \/ Spawn \/ Exit \/ CreateSomeTun
  BY <1>6 DEF FireTrigger, Spawn, Exit, CreateSomeTun, CreateTun
<1>7. CASE Environment
  BY <1>7
  DEF Environment, DropTun, Crash, Reboot, ForeignAdd, ForeignRemove, Commit,
      Chances
<1>8. CASE UNCHANGED vars
  BY <1>8 DEF vars
<1>9. CASE Command
  BY <1>9
  DEF Command, CallStart, CallRestart, CallStop, CallReload, Call, Chances
<1> QED
  BY <1>3, <1>4, <1>5, <1>6, <1>7, <1>8, <1>9 DEF Next

-----------------------------------------------------------------------------
(* Devices that were there before the client started *)

\* The interface indexes are counted upwards, and the snapshot is one of them.
Counted ==
  /\ since <= lastIndex /\ 1 <= lastIndex
  /\ \A d \in Devs : ifindex[d] <= lastIndex

LEMMA CountedStep ==
  ASSUME TypeInv, Counted, [Next]_vars
  PROVE  Counted'
<1>1. /\ since \in Nat /\ lastIndex \in Nat /\ ifindex \in [Devs -> Nat]
      /\ ours \in Devs \cup {None}
  BY DEF TypeInv, TypeOK, ScriptTypeOK, WorldTypeOK, RoutingTypeOK
<1>2. CASE UNCHANGED <<since, links>>
  BY <1>2 DEF Counted, links
<1>3. ASSUME NEW d \in Devs, RemoveLink(d), UNCHANGED since PROVE Counted'
  BY <1>1, <1>3 DEF Counted, RemoveLink
<1>4. ASSUME NEW d \in Devs, AddLink(d), UNCHANGED since PROVE Counted'
  BY <1>1, <1>4 DEF Counted, AddLink
<1>5. CASE Command \/ FireTrigger \/ Spawn \/ UNCHANGED vars
  BY <1>2, <1>5
  DEF Command, CallStart, CallRestart, CallStop, CallReload, FireTrigger,
      Spawn, quietScript, script, vars
<1>6. CASE InitStep
  <2>1. CASE Unsnap
    BY <1>1, <2>1 DEF Unsnap, Counted, links
  <2>2. CASE Snapshot
    BY <1>1, <2>2 DEF Snapshot, Indexes, Counted, links
  <2> QED
    BY <1>2, <1>6, <2>1, <2>2
    DEF InitStep, ApplyFull, ApplyByClass, Reattach, Down, DownRest, Kill,
        StartGate, RegenConfig, Meter, Up, Ruleset, OpenInstance, Abandon,
        AttachClientTun, quietScript
<1>7. CASE HookStep \/ \E p \in Procs : AttachStep(p)
  BY <1>2, <1>7
  DEF HookStep, HookTake, HookCheck, Detach, DetachRest, AttachStep, Attach,
      AttachRoute, AttachZone, AttachRecord, hookQuiet, quietScript
<1>8. CASE Exit \/ DropTun \/ Crash
  BY <1>1, <1>2, <1>3, <1>8 DEF Exit, DropTun, Crash, CloseTun, script
<1>9. ASSUME NEW d \in Devs, CreateTun(d) \/ ForeignAdd(d) \/ ForeignRemove(d)
      PROVE  Counted'
  BY <1>3, <1>4, <1>9 DEF CreateTun, ForeignAdd, ForeignRemove, script
<1>10. ASSUME NEW c \in Configs, Commit(c) PROVE Counted'
  BY <1>2, <1>10 DEF Commit, script
<1>11. CASE Reboot
  BY <1>11 DEF Reboot, Counted
<1> QED
  BY <1>5, <1>6, <1>7, <1>8, <1>9, <1>10, <1>11
  DEF Next, Environment, CreateSomeTun

\* With no commit in the budget the records are the committed settings, and
\* no run of the script keeps the routing or reloads.
Unchanging ==
  /\ chance["commit"] = 0 /\ ~trigger
  /\ records \in {None, uci}
  /\ "keep" \notin run /\ "reload" \notin run
  /\ pc["init"] # "reattach"
  /\ pc["init"] = "downRoutes" => arg["init"] = uci
  /\ \A p \in Procs : pc[p] = "attachRoute" => arg[p] = uci

LEMMA UnchangingStep ==
  ASSUME TypeInv, Unchanging, [Next]_vars
  PROVE  Unchanging' /\ uci' = uci
<1>1. /\ pc \in [Procs -> InitLabels \cup HookLabels]
      /\ pc["init"] \in InitLabels /\ pc["hook"] \in HookLabels
      /\ arg \in [Procs -> Setting \cup {None}]
      /\ uci \in Setting /\ None \notin Setting /\ Working
  BY SettingsAssumption
  DEF TypeInv, TypeOK, ScriptTypeOK, WorldTypeOK, SettingsAssumption
<1>2. chance'["commit"] = 0 /\ ~Spend("commit")
  <2>1. chance["commit"] = 0 /\ chance'["commit"] \in Nat
    BY TypeInvStep DEF TypeInv, TypeOK, WorldTypeOK, Chances, Unchanging
  <2>2. chance'["commit"] <= chance["commit"]
    BY ChancesSpent DEF Chances
  <2> QED
    BY <2>1, <2>2 DEF Spend
<1> DEFINE Goal == Unchanging' /\ uci' = uci
\* The course of the init script
<1>3. ASSUME UNCHANGED <<uci, trigger>>, records' \in {records, uci},
             EndRun \/ AbortStart \/ Restart(run), UNCHANGED arg \/ EndRun
      PROVE  Goal
  BY <1>1, <1>2, <1>3
  DEF EndRun, AbortStart, Restart, StopLabel, Goto, Unchanging, Procs
<1>4. ASSUME UNCHANGED <<uci, trigger, records, arg>>,
             run' \subseteq run \cup {"now", "restart"}, NEW label,
             Goto("init", label),
             label \notin {"reattach", "downRoutes", "attachRoute"}
      PROVE  Goal
  BY <1>1, <1>2, <1>4 DEF Goto, Unchanging, Procs
<1>5. CASE Command \/ FireTrigger
  BY <1>1, <1>2, <1>5
  DEF Command, CallStart, CallRestart, CallStop, CallReload, FireTrigger,
      Restart, StopLabel, Goto, Unchanging, Procs, procd, quietScript
<1>6. CASE InitStep
  <2>1. CASE ApplyFull
    BY <1>3, <2>1 DEF ApplyFull, procd, quietScript
  <2>2. CASE ApplyByClass
    <3>1. records = uci
      BY <2>2 DEF ApplyByClass, Unchanging
    <3>2. EndRun
      BY <2>2, <3>1 DEF ApplyByClass, ClassOf
    <3> QED
      BY <1>3, <2>2, <3>2 DEF ApplyByClass, procd
  <2>3. CASE Down
    <3>1. records = uci
      BY <1>1, <2>3 DEF Down, Unchanging, Working, RecordLabels
    <3> QED
      BY <1>1, <1>2, <2>3, <3>1 DEF Down, Goto, Unchanging, Procs, procd
  <2>4. CASE DownRest \/ Unsnap \/ Snapshot \/ Meter
    BY <1>4, <2>4 DEF DownRest, Unsnap, Snapshot, Meter, procd, quietScript
  <2>5. CASE Kill
    <3>1. ~trigger'
      BY <2>5 DEF Kill, Unchanging
    <3>2. UNCHANGED <<uci, records>>
      BY <2>5 DEF Kill
    <3>3. \/ /\ pc' = [pc EXCEPT !["init"] = "gate"]
             /\ run' = run \ {"restart"} /\ UNCHANGED arg
          \/ EndRun
      BY <2>5 DEF Kill, Goto
    <3> QED
      BY <1>1, <1>2, <3>1, <3>2, <3>3 DEF EndRun, Goto, Unchanging, Procs
  <2>6. CASE StartGate
    BY <1>3, <1>4, <2>6 DEF StartGate, procd, quietScript
  <2>7. CASE RegenConfig
    <3>1. UNCHANGED <<uci, trigger>> /\ records' \in {records, uci}
      BY <2>7 DEF RegenConfig, procd
    <3>2. CASE BuildFailed /\ UNCHANGED arg
      BY <1>3, <3>1, <3>2 DEF BuildFailed
    <3>3. CASE EndRun
      BY <1>3, <3>1, <3>3
    <3>4. CASE /\ Goto("init", IF uci.proxy THEN "meter" ELSE "up")
               /\ UNCHANGED <<run, arg>>
      BY <1>1, <1>2, <3>1, <3>4 DEF Goto, Unchanging, Procs
    <3> QED
      BY <2>7, <3>2, <3>3, <3>4 DEF RegenConfig
  <2>8. CASE Up
    BY <1>1, <1>2, <2>8 DEF Up, Goto, Unchanging, Procs, procd
  <2>9. CASE Ruleset
    <3>1. /\ UNCHANGED <<uci, trigger, records, arg>> /\ "reload" \notin run
      BY <2>9 DEF Ruleset, Unchanging, procd, quietScript
    <3> QED
      BY <1>3, <1>4, <2>9, <3>1 DEF Ruleset, BuildFailed
  <2>10. CASE OpenInstance
    BY <1>3, <1>4, <2>10 DEF OpenInstance
  <2>11. CASE Abandon
    BY <1>3, <2>11 DEF Abandon
  <2>12. CASE AttachClientTun
    BY <1>3, <1>4, <2>12 DEF AttachClientTun, procd
  <2>13. ~Reattach
    BY DEF Reattach, Unchanging
  <2> QED
    BY <1>6, <2>1, <2>2, <2>3, <2>4, <2>5, <2>6, <2>7, <2>8, <2>9, <2>10,
       <2>11, <2>12, <2>13
    DEF InitStep
<1>7. ASSUME NEW p \in Procs, AttachStep(p) PROVE Goal
  <2>1. UNCHANGED <<uci, trigger, records>> /\ "reload" \notin run
    BY <1>7
    DEF AttachStep, Attach, AttachRoute, AttachZone, AttachRecord, procd,
        quietScript, Unchanging
  <2>2. CASE /\ pc[p] = "attach" /\ pc' = [pc EXCEPT ![p] = "attachRoute"]
             /\ arg' = [arg EXCEPT ![p] = records] /\ UNCHANGED run
    <3>1. records = uci
      BY <1>1, <2>2
      DEF Unchanging, Working, RecordLabels, AttachLabels, Procs
    <3> QED
      BY <1>1, <1>2, <2>1, <2>2, <3>1 DEF Unchanging, Procs
  <2>3. CASE /\ \/ pc' = [pc EXCEPT ![p] = "attachZone"]
                \/ pc' = [pc EXCEPT ![p] = "attachRecord"]
             /\ UNCHANGED <<arg, run>>
    BY <1>1, <1>2, <2>1, <2>3 DEF Unchanging, Procs
  <2>4. CASE AttachEnds(p, TRUE) \/ AttachEnds(p, FALSE)
    BY <1>1, <1>2, <1>3, <2>1, <2>4
    DEF AttachEnds, EndHook, Goto, Unchanging, Procs
  <2> QED
    <3>1. CASE Attach(p)
      BY <2>2, <2>4, <3>1 DEF Attach, Goto
    <3>2. CASE AttachRoute(p)
      BY <2>3, <2>4, <3>2 DEF AttachRoute, Goto
    <3>3. CASE AttachZone(p)
      BY <2>3, <3>3 DEF AttachZone, Goto, quietScript
    <3>4. CASE AttachRecord(p)
      BY <2>4, <3>4 DEF AttachRecord
    <3> QED
      BY <1>7, <3>1, <3>2, <3>3, <3>4 DEF AttachStep
<1>8. CASE HookStep
  <2>1. UNCHANGED <<uci, trigger, records, run>>
    BY <1>8 DEF HookStep, HookTake, HookCheck, Detach, DetachRest, hookQuiet,
           procd
  <2>2. /\ pc'["init"] = pc["init"] /\ arg'["init"] = arg["init"]
        /\ pc'["hook"] # "attachRoute" \/ UNCHANGED <<pc, arg>>
    <3>1. CASE HookTake
      BY <1>1, <3>1 DEF HookTake, Goto, Procs
    <3>2. CASE HookCheck \/ Detach \/ DetachRest
      BY <1>1, <3>2 DEF HookCheck, Detach, DetachRest, EndHook, Goto, Procs
    <3> QED
      BY <1>8, <3>1, <3>2 DEF HookStep
  <2> QED
    BY <1>1, <1>2, <2>1, <2>2 DEF Unchanging, Procs
<1>9. CASE UNCHANGED <<script, uci, trigger>>
  BY <1>2, <1>9 DEF script, Unchanging
<1>10. CASE Spawn \/ Exit \/ CreateSomeTun \/ DropTun \/ Crash
  BY <1>9, <1>10
  DEF Spawn, Exit, CreateSomeTun, CreateTun, DropTun, Crash, procd
<1>11. ASSUME NEW d \in Devs, ForeignAdd(d) \/ ForeignRemove(d) PROVE Goal
  BY <1>9, <1>11 DEF ForeignAdd, ForeignRemove, procd
<1>12. CASE Reboot
  BY <1>2, <1>12 DEF Reboot, Unchanging, Procs
<1>13. CASE UNCHANGED vars
  BY <1>9, <1>13 DEF vars, procd
<1> QED
  BY <1>2, <1>5, <1>6, <1>7, <1>8, <1>10, <1>11, <1>12, <1>13
  DEF Next, Environment, Commit

\* A route that stays goes through a device that stays; only attach adds one.
LEMMA RouteMoves ==
  ASSUME TypeInv, [Next]_vars, ~\E p \in Procs : AttachRoute(p),
         NEW t \in Tables, route'[t] # None
  PROVE  /\ route'[t] = route[t]
         /\ Exists(route[t]) => Exists(route[t])'
         /\ records # None => records' # None
<1>1. /\ route \in [Tables -> Devs \cup {None}] /\ ifindex \in [Devs -> Nat]
      /\ ours \in Devs \cup {None} /\ uci \in Setting /\ None \notin Setting
      /\ None \notin Devs /\ lastIndex \in Nat
  BY SettingsAssumption, RoutingAssumption
  DEF TypeInv, TypeOK, RoutingTypeOK, WorldTypeOK, SettingsAssumption,
      RoutingAssumption
<1>2. CASE UNCHANGED <<route, ifindex, records>>
  BY <1>2 DEF Exists
<1>3. ASSUME NEW d \in Devs, RemoveLink(d), UNCHANGED records
      PROVE  /\ route'[t] = route[t]
             /\ Exists(route[t]) => Exists(route[t])'
             /\ records # None => records' # None
  BY <1>1, <1>3 DEF RemoveLink, Exists
<1>4. ASSUME NEW d \in Devs, AddLink(d), UNCHANGED <<records, route>>
      PROVE  /\ route'[t] = route[t]
             /\ Exists(route[t]) => Exists(route[t])'
             /\ records # None => records' # None
  BY <1>1, <1>4 DEF AddLink, Exists
<1>5. CASE Command \/ FireTrigger \/ Spawn \/ UNCHANGED vars
  BY <1>2, <1>5
  DEF Command, CallStart, CallRestart, CallStop, CallReload, FireTrigger,
      Spawn, quietScript, script, vars, kernel, links
<1>6. CASE InitStep
  <2>1. CASE DownRest
    BY <1>1, <2>1
    DEF DownRest, DownRoutes, ClearZone, ForgetDevice, quietScript, links,
        Exists
  <2>2. CASE RegenConfig
    BY <1>1, <2>2 DEF RegenConfig, kernel, links, Exists
  <2>3. CASE Down \/ Meter \/ Up \/ Ruleset
    BY <1>2, <2>3
    DEF Down, DownMarks, Meter, InstallMeter, Up, UpRule, Ruleset, UpRuleset,
        kernel, links, quietScript
  <2>4. CASE ApplyFull \/ ApplyByClass \/ Reattach \/ Unsnap \/ Kill
    BY <1>2, <2>4
    DEF ApplyFull, ApplyByClass, Reattach, Unsnap, Kill, kernel, links,
        quietScript
  <2>5. CASE \/ StartGate \/ Snapshot \/ OpenInstance \/ Abandon
             \/ AttachClientTun
    BY <1>2, <2>5
    DEF StartGate, Snapshot, OpenInstance, Abandon, AttachClientTun, kernel,
        links, quietScript
  <2> QED
    BY <1>6, <2>1, <2>2, <2>3, <2>4, <2>5 DEF InitStep
<1>7. CASE HookStep
  <2>1. CASE HookTake \/ HookCheck
    BY <1>2, <2>1 DEF HookTake, HookCheck, kernel, hookQuiet, links
  <2>2. CASE Detach \/ DetachRest
    BY <1>1, <2>2
    DEF Detach, DetachRoutes, DetachRest, ClearZone, ForgetDevice, hookQuiet,
        links, Exists
  <2> QED
    BY <1>7, <2>1, <2>2 DEF HookStep
<1>8. ASSUME NEW p \in Procs, AttachStep(p)
      PROVE  UNCHANGED <<route, ifindex, records>>
  BY <1>8
  DEF AttachStep, Attach, AttachHole, AttachZone, SyncZone, AttachRecord,
      RecordDevice, kernel, quietScript, links
<1>9. CASE Exit \/ DropTun \/ Crash
  BY <1>1, <1>2, <1>3, <1>9
  DEF Exit, DropTun, Crash, CloseTun, script, kernel, links
<1>10. ASSUME NEW d \in Devs, CreateTun(d) \/ ForeignAdd(d)
       PROVE  /\ route'[t] = route[t]
              /\ Exists(route[t]) => Exists(route[t])'
              /\ records # None => records' # None
  BY <1>4, <1>10 DEF CreateTun, ForeignAdd, script, kernel
<1>11. ASSUME NEW d \in Devs, ForeignRemove(d)
       PROVE  /\ route'[t] = route[t]
              /\ Exists(route[t]) => Exists(route[t])'
              /\ records # None => records' # None
  BY <1>3, <1>11 DEF ForeignRemove, script
<1>12. ASSUME NEW c \in Configs, Commit(c)
       PROVE  UNCHANGED <<route, ifindex, records>>
  BY <1>12 DEF Commit, script, kernel, links
<1>13. ~Reboot
  BY DEF Reboot
<1> QED
  BY <1>2, <1>5, <1>6, <1>7, <1>8, <1>9, <1>10, <1>11, <1>12, <1>13
  DEF Next, Environment, CreateSomeTun

\* A restart overtakes the hook between its look at the snapshot and the
\* route it then adds: nothing in the two scripts excludes that.
Attaching == {"check", "attach", "attachRoute"}

RestartLabels ==
  {"down", "downRoutes", "downZone", "downForget", "unsnap", "kill", "gate",
   "regen", "up", "ruleset", "meter", "snap", "abandon"}

Overtaken == pc["hook"] \in Attaching /\ pc["init"] \in RestartLabels

\* From the flush of the table to the next instance there is no route.
NoRoutes == \A t \in Tables : route[t] = None

Detached ==
  /\ pc["init"] \in RestartLabels \ {"down", "downRoutes"} => NoRoutes
  /\ InitIdle /\ svc # "instance" => NoRoutes /\ pc["hook"] \notin Attaching
  /\ pc["init"] \in {"wait"} \cup AttachLabels => svc = "instance"

\* Routed, or about to be routed, are devices newer than the snapshot.
Newer(d) == d \in Devs /\ (since # 0 /\ Exists(d) => ifindex[d] > since)

RoutesNewer ==
  \A t \in Tables :
    route[t] # None =>
      /\ Exists(route[t]) /\ Newer(route[t])
      /\ t = uci.table /\ records # None

WorksOnNewer ==
  /\ \A p \in Procs : pc[p] \in {"attach", "attachRoute"} => Newer(dev[p])
  /\ pc["hook"] = "check" => dev["hook"] \in Devs

AgeInv ==
  /\ TypeInv /\ Counted /\ Unchanging
  /\ Detached /\ RoutesNewer /\ WorksOnNewer

\* A device newer than the snapshot stays so until the next snapshot.
LEMMA NewerStays ==
  ASSUME TypeInv, Counted, [Next]_vars, ~Snapshot, NEW d, Newer(d)
  PROVE  Newer(d)'
<1>1. /\ since \in Nat /\ lastIndex \in Nat /\ ifindex \in [Devs -> Nat]
      /\ ours \in Devs \cup {None} /\ d \in Devs
  BY DEF TypeInv, TypeOK, ScriptTypeOK, WorldTypeOK, RoutingTypeOK, Newer
<1>2. CASE UNCHANGED <<since, ifindex>>
  BY <1>2 DEF Newer, Exists
<1>3. ASSUME NEW e \in Devs, RemoveLink(e) \/ AddLink(e), UNCHANGED since
      PROVE  Newer(d)'
  BY <1>1, <1>3 DEF RemoveLink, AddLink, Newer, Exists, Counted
<1>4. CASE since' = 0
  BY <1>1, <1>4 DEF Newer
<1>5. CASE Command \/ FireTrigger \/ Spawn \/ UNCHANGED vars
  BY <1>2, <1>5
  DEF Command, CallStart, CallRestart, CallStop, CallReload, FireTrigger,
      Spawn, quietScript, script, vars, links
<1>6. CASE InitStep
  BY <1>2, <1>4, <1>6
  DEF InitStep, ApplyFull, ApplyByClass, Reattach, Down, DownRest, Unsnap, Kill,
      StartGate, RegenConfig, Meter, Up, Ruleset, OpenInstance, Abandon,
      AttachClientTun, quietScript, links
<1>7. CASE HookStep \/ \E p \in Procs : AttachStep(p)
  BY <1>2, <1>7
  DEF HookStep, HookTake, HookCheck, Detach, DetachRest, AttachStep, Attach,
      AttachRoute, AttachZone, AttachRecord, hookQuiet, quietScript, links
<1>8. CASE Exit \/ DropTun \/ Crash
  BY <1>1, <1>2, <1>3, <1>8 DEF Exit, DropTun, Crash, CloseTun, script, links
<1>9. ASSUME NEW e \in Devs, CreateTun(e) \/ ForeignAdd(e) \/ ForeignRemove(e)
      PROVE  Newer(d)'
  BY <1>3, <1>9 DEF CreateTun, ForeignAdd, ForeignRemove, script
<1>10. ASSUME NEW c \in Configs, Commit(c) PROVE Newer(d)'
  BY <1>2, <1>10 DEF Commit, script, links
<1>11. CASE Reboot
  BY <1>4, <1>11 DEF Reboot
<1> QED
  BY <1>5, <1>6, <1>7, <1>8, <1>9, <1>10, <1>11
  DEF Next, Environment, CreateSomeTun

\* How a process comes to work on a device: the init script picks a fresh
\* one, the hook checks the one the event names.
DeviceMoves ==
  /\ \A p \in Procs :
       pc'[p] \in {"attach", "attachRoute"} =>
         \/ pc[p] \in {"attach", "attachRoute"} /\ dev'[p] = dev[p]
         \/ p = "init" /\ AttachClientTun /\ dev'[p] \in FreshTuns
         \/ /\ p = "hook" /\ HookCheck /\ pc[p] = "check"
            /\ Attachable(dev[p]) /\ dev'[p] = dev[p]
  /\ pc'["hook"] = "check" =>
       \/ pc["hook"] = "check" /\ dev'["hook"] = dev["hook"]
       \/ dev'["hook"] \in Devs /\ svc = "instance" /\ UNCHANGED svc

LEMMA DeviceStep ==
  ASSUME TypeInv, Unchanging, [Next]_vars
  PROVE  DeviceMoves
<1>1. /\ pc \in [Procs -> InitLabels \cup HookLabels]
      /\ dev \in [Procs -> Devs \cup {None}] /\ events \in Seq(Event)
  BY DEF TypeInv, TypeOK, ScriptTypeOK, WorldTypeOK
<1> USE DEF Procs
<1>2. CASE UNCHANGED <<pc, dev>>
  BY <1>2 DEF DeviceMoves
\* the init script off to another part, or at its end
<1>3. ASSUME UNCHANGED dev, NEW label, pc' = [pc EXCEPT !["init"] = label],
             label \notin {"attach", "attachRoute"}
      PROVE  DeviceMoves
  BY <1>1, <1>3 DEF DeviceMoves
<1>4. CASE EndRun
  BY <1>1, <1>4 DEF DeviceMoves, EndRun, Goto
<1>5. ASSUME NEW flags, Restart(flags), UNCHANGED dev PROVE DeviceMoves
  BY <1>1, <1>5 DEF DeviceMoves, Restart, StopLabel, Goto
<1>6. CASE AbortStart /\ UNCHANGED dev
  BY <1>1, <1>6 DEF DeviceMoves, AbortStart, Goto
<1>7. CASE Command \/ FireTrigger
  BY <1>3, <1>5, <1>7
  DEF Command, CallStart, CallRestart, CallStop, CallReload, FireTrigger,
      StopLabel, Goto, quietScript
<1>8. CASE InitStep
  <2>1. CASE ApplyFull \/ ApplyByClass
    <3>1. ClassOf(records, uci) = "reload" => ~ApplyByClass
      BY DEF ApplyByClass, ClassOf, Unchanging
    <3> QED
      BY <1>4, <1>5, <2>1, <3>1 DEF ApplyFull, ApplyByClass, quietScript
  <2>2. CASE Down \/ DownRest \/ Unsnap
    BY <1>3, <2>2 DEF Down, DownRest, Unsnap, Goto, quietScript
  <2>3. CASE Kill \/ StartGate \/ Abandon
    BY <1>3, <1>4, <1>6, <2>3 DEF Kill, StartGate, Abandon, Goto, quietScript
  <2>4. CASE RegenConfig
    BY <1>3, <1>4, <1>5, <1>6, <2>4 DEF RegenConfig, BuildFailed, Goto
  <2>5. CASE Meter \/ Up \/ Snapshot
    BY <1>3, <2>5 DEF Meter, Up, Snapshot, Goto, quietScript
  <2>6. CASE Ruleset
    BY <1>3, <1>5, <1>6, <2>6 DEF Ruleset, BuildFailed, Goto, quietScript
  <2>7. CASE OpenInstance
    BY <1>3, <1>4, <2>7 DEF OpenInstance, Goto
  <2>8. CASE AttachClientTun
    <3>1. ASSUME NEW d \in FreshTuns, dev' = [dev EXCEPT !["init"] = d],
                 Goto("init", "attach")
          PROVE  DeviceMoves
      BY <1>1, <2>8, <3>1 DEF DeviceMoves, Goto
    <3> QED
      BY <1>4, <2>8, <3>1 DEF AttachClientTun
  <2>9. ~Reattach
    BY DEF Reattach, Unchanging
  <2> QED
    BY <1>8, <2>1, <2>2, <2>3, <2>4, <2>5, <2>6, <2>7, <2>8, <2>9 DEF InitStep
<1>9. ASSUME NEW p \in Procs, AttachStep(p) PROVE DeviceMoves
  <2>1. CASE EndHook
    BY <1>1, <2>1 DEF DeviceMoves, EndHook, Goto
  <2>2. CASE AttachEnds(p, TRUE) \/ AttachEnds(p, FALSE)
    BY <1>4, <1>5, <2>1, <2>2 DEF AttachEnds
  <2>3. CASE Attach(p)
    <3>1. CASE Goto(p, "attachRoute") /\ UNCHANGED dev
      BY <1>1, <2>3, <3>1 DEF Attach, DeviceMoves, Goto
    <3> QED
      BY <2>2, <2>3, <3>1 DEF Attach
  <2>4. CASE AttachRoute(p)
    <3>1. CASE Goto(p, "attachZone") /\ UNCHANGED dev
      BY <1>1, <3>1 DEF DeviceMoves, Goto
    <3> QED
      BY <2>2, <2>4, <3>1 DEF AttachRoute
  <2>5. CASE AttachZone(p)
    BY <1>1, <2>5 DEF AttachZone, DeviceMoves, Goto, quietScript
  <2>6. CASE AttachRecord(p)
    BY <2>2, <2>6 DEF AttachRecord
  <2> QED
    BY <1>9, <2>3, <2>4, <2>5, <2>6 DEF AttachStep
<1>10. CASE HookTake
  <2>1. events # <<>> => Head(events).dev \in Devs
    <3>1. events # <<>> => Head(events) \in Event
      BY <1>1
    <3> QED
      BY <3>1 DEF Event
  <2>2. /\ Running => svc = "instance"
        /\ UNCHANGED svc
    BY <1>10 DEF Running, HookTake, hookQuiet, procd
  <2> QED
    BY <1>1, <1>10, <2>1, <2>2 DEF HookTake, DeviceMoves, Goto
<1>11. CASE HookCheck
  BY <1>1, <1>11 DEF HookCheck, DeviceMoves, EndHook, Goto
<1>12. CASE Detach \/ DetachRest
  BY <1>1, <1>12 DEF Detach, DetachRest, DeviceMoves, EndHook, Goto
<1>13. CASE Spawn \/ Exit \/ CreateSomeTun \/ DropTun \/ Crash
  BY <1>2, <1>13
  DEF Spawn, Exit, CreateSomeTun, CreateTun, DropTun, Crash, script
<1>14. ASSUME NEW d \in Devs, ForeignAdd(d) \/ ForeignRemove(d)
       PROVE  DeviceMoves
  BY <1>2, <1>14 DEF ForeignAdd, ForeignRemove, script
<1>15. ASSUME NEW c \in Configs, Commit(c) PROVE DeviceMoves
  BY <1>2, <1>15 DEF Commit, script
<1>16. CASE Reboot
  BY <1>16 DEF Reboot, DeviceMoves
<1>17. CASE UNCHANGED vars
  BY <1>2, <1>17 DEF vars, script
<1> QED
  BY <1>7, <1>8, <1>9, <1>10, <1>11, <1>12, <1>13, <1>14, <1>15, <1>16, <1>17
  DEF Next, HookStep, Environment

\* The labels of the init script and the instance, step by step: what it
\* takes for no route to be left while the service is down.
LEMMA DetachedStep ==
  ASSUME ~FreeStarts, AgeInv, ~Overtaken, [Next]_vars
  PROVE  Detached'
<1>1. /\ pc \in [Procs -> InitLabels \cup HookLabels]
      /\ route \in [Tables -> Devs \cup {None}]
      /\ "init" \in Procs /\ "hook" \in Procs
      /\ Unchanging /\ Detached /\ RoutesNewer /\ TypeInv
  BY DEF AgeInv, TypeInv, TypeOK, ScriptTypeOK, RoutingTypeOK, Procs
<1>2. (~\E p \in Procs : AttachRoute(p)) => (NoRoutes => NoRoutes')
  BY <1>1, RouteMoves DEF NoRoutes
<1>3. records = None => NoRoutes
  BY <1>1 DEF RoutesNewer, NoRoutes
<1>4. pc'["hook"] \in Attaching =>
        pc["hook"] \in Attaching \/ (svc = "instance" /\ UNCHANGED svc)
  <2>1. DeviceMoves
    BY <1>1, DeviceStep
  <2>2. pc'["hook"] \in {"attach", "attachRoute"} => pc["hook"] \in Attaching
    BY <1>1, <2>1 DEF DeviceMoves, Attaching
  <2>3. pc'["hook"] = "check" =>
          pc["hook"] = "check" \/ (svc = "instance" /\ UNCHANGED svc)
    BY <2>1 DEF DeviceMoves
  <2> QED
    BY <2>2, <2>3 DEF Attaching
\* The init script stays where it is, ...
<1>5. ASSUME UNCHANGED svc, pc'["init"] = pc["init"],
             ~\E p \in Procs : AttachRoute(p)
      PROVE  Detached'
  BY <1>1, <1>2, <1>4, <1>5 DEF Detached, InitIdle
\* ... goes to a label at which there are no routes, or no demand on them, ...
<1>6. ASSUME NEW label, pc' = [pc EXCEPT !["init"] = label], label # "idle",
             label \in RestartLabels \ {"down", "downRoutes"} => NoRoutes',
             label \in {"wait"} \cup AttachLabels => svc' = "instance"
      PROVE  Detached'
  BY <1>1, <1>6 DEF Detached, InitIdle
\* ... or ends.
<1>7. ASSUME EndRun,
             \/ svc' = "instance"
             \/ NoRoutes' /\ pc["init"] \in RestartLabels
      PROVE  Detached'
  BY <1>1, <1>7
  DEF Detached, InitIdle, EndRun, Goto, Overtaken, RestartLabels, AttachLabels
<1>8. ASSUME NEW flags, Restart(flags), "keep" \notin flags,
             ~\E p \in Procs : AttachRoute(p)
      PROVE  Detached'
  <2>1. CASE records # None
    BY <1>1, <1>8, <2>1
    DEF Restart, StopLabel, Goto, Detached, InitIdle, RestartLabels,
        AttachLabels
  <2>2. CASE records = None
    BY <1>1, <1>2, <1>3, <1>8, <2>2
    DEF Restart, StopLabel, Goto, Detached, InitIdle, RestartLabels,
        AttachLabels
  <2> QED
    BY <2>1, <2>2
<1>9. CASE AbortStart /\ NoRoutes'
  BY <1>1, <1>9
  DEF AbortStart, Goto, Unchanging, Detached, InitIdle, RestartLabels,
      AttachLabels
<1>10. ASSUME NEW p \in Procs, AttachRoute(p)
       PROVE  Detached'
  <2>1. UNCHANGED svc /\ pc[p] = "attachRoute"
    BY <1>10 DEF AttachRoute, procd
  <2>2. CASE p = "hook"
    <3>1. /\ pc'["init"] = pc["init"] /\ pc'["hook"] \notin Attaching
          /\ pc["hook"] \in Attaching
      BY <1>1, <1>10, <2>1, <2>2
      DEF AttachRoute, AttachEnds, EndHook, Goto, Attaching
    <3> QED
      BY <1>1, <2>1, <3>1 DEF Detached, InitIdle, Overtaken
  <2>3. CASE p = "init"
    <3>1. svc = "instance"
      BY <1>1, <2>1, <2>3 DEF Detached, AttachLabels
    <3>2. CASE Goto(p, "attachZone")
      BY <1>6, <2>1, <2>3, <3>1, <3>2 DEF Goto, RestartLabels
    <3>3. CASE EndRun
      BY <1>7, <2>1, <3>1, <3>3
    <3> QED
      BY <1>1, <1>10, <2>3, <3>2, <3>3 DEF AttachRoute, AttachEnds, Unchanging
  <2> QED
    BY <2>2, <2>3 DEF Procs
<1>11. CASE \E p \in Procs : AttachRoute(p)
  BY <1>10, <1>11
<1> SUFFICES ASSUME ~\E p \in Procs : AttachRoute(p) PROVE Detached'
  BY <1>11
<1>12. NoRoutes => NoRoutes'
  BY <1>2
<1>13. CASE Command \/ FireTrigger
  <2>1. ASSUME NEW flags \in SUBSET {"now"}, CallStart(flags) PROVE Detached'
    BY <1>1, <1>6, <1>12, <2>1 DEF CallStart, Call, Detached, Goto, AttachLabels
  <2>2. CASE CallStop
    <3>1. CASE records # None
      <4>1. Goto("init", "down")
        BY <2>2, <3>1 DEF CallStop, StopLabel
      <4> QED
        BY <1>6, <4>1 DEF Goto, RestartLabels, AttachLabels
    <3>2. CASE records = None
      <4>1. Goto("init", "unsnap")
        BY <2>2, <3>2 DEF CallStop, StopLabel
      <4> QED
        BY <1>3, <1>6, <1>12, <3>2, <4>1 DEF Goto, RestartLabels, AttachLabels
    <3> QED
      BY <3>1, <3>2
  <2>3. ASSUME NEW flags \in SUBSET {"now"}, CallRestart(flags) PROVE Detached'
    BY <1>8, <2>3 DEF CallRestart
  <2>4. CASE CallReload \/ FireTrigger
    BY <1>6, <2>4
    DEF CallReload, FireTrigger, Goto, RestartLabels, AttachLabels
  <2> QED
    BY <1>13, <2>1, <2>2, <2>3, <2>4 DEF Command
<1>14. CASE InitStep
  <2>1. CASE ApplyFull
    BY <1>1, <1>8, <2>1 DEF ApplyFull, Unchanging
  <2>2. CASE ApplyByClass
    <3>1. svc' = "instance" /\ EndRun
      BY <1>1, <2>2
      DEF ApplyByClass, ClassOf, Unchanging, Running, procd
    <3> QED
      BY <1>7, <3>1
  <2>3. CASE Down
    BY <1>6, <2>3 DEF Down, Goto, RestartLabels, AttachLabels
  <2>4. CASE DownRest
    <3>1. NoRoutes'
      <4>1. CASE pc["init"] = "downRoutes"
        <5>1. DownRoutes(uci)
          BY <1>1, <2>4, <4>1 DEF DownRest, Unchanging
        <5> QED
          BY <1>1, <5>1 DEF DownRoutes, NoRoutes, RoutesNewer
      <4>2. CASE pc["init"] # "downRoutes"
        BY <1>1, <1>12, <2>4, <4>2 DEF DownRest, Detached, RestartLabels
      <4> QED
        BY <4>1, <4>2
    <3>2. PICK label \in {"downZone", "downForget", "abandon", "unsnap"} :
            Goto("init", label)
      BY <2>4 DEF DownRest
    <3> QED
      BY <1>6, <3>1, <3>2 DEF Goto, AttachLabels
  <2>5. CASE pc["init"] \in RestartLabels \ {"down", "downRoutes"}
    <3>1. NoRoutes'
      BY <1>1, <1>12, <2>5 DEF Detached
    <3>2. ASSUME NEW label, Goto("init", label),
                 label \notin {"idle", "wait"} \cup AttachLabels
          PROVE  Detached'
      BY <1>6, <3>1, <3>2 DEF Goto
    <3>3. CASE EndRun
      BY <1>7, <2>5, <3>1, <3>3
    <3>4. CASE Unsnap \/ Snapshot \/ Meter \/ Up
      BY <3>2, <3>4 DEF Unsnap, Snapshot, Meter, Up, AttachLabels
    <3>5. CASE Kill \/ Abandon
      BY <3>2, <3>3, <3>5 DEF Kill, Abandon, AttachLabels
    <3>6. CASE StartGate
      BY <1>9, <3>1, <3>2, <3>6 DEF StartGate, AttachLabels
    <3>7. CASE Ruleset
      BY <1>1, <1>9, <3>1, <3>2, <3>7
      DEF Ruleset, BuildFailed, Unchanging, AttachLabels
    <3>8. CASE RegenConfig
      <4>1. CASE Goto("init", IF uci.proxy THEN "meter" ELSE "up")
        BY <3>2, <4>1 DEF AttachLabels
      <4> QED
        BY <1>1, <1>9, <3>1, <3>3, <3>8, <4>1
        DEF RegenConfig, BuildFailed, Unchanging
    <3> QED
      BY <1>14, <2>1, <2>2, <2>3, <2>4, <2>5, <3>4, <3>5, <3>6, <3>7, <3>8
      DEF InitStep, Reattach, OpenInstance, AttachClientTun, RestartLabels
  <2>6. CASE OpenInstance
    BY <1>6, <1>7, <2>6 DEF OpenInstance, Goto, RestartLabels, AttachLabels
  <2>7. CASE AttachClientTun
    <3>1. svc' = "instance"
      BY <1>1, <2>7 DEF AttachClientTun, Detached, procd
    <3>2. CASE Goto("init", "attach")
      BY <1>6, <3>1, <3>2 DEF Goto, RestartLabels
    <3> QED
      BY <1>7, <2>7, <3>1, <3>2 DEF AttachClientTun
  <2>8. ~Reattach
    BY <1>1 DEF Reattach, Unchanging
  <2> QED
    BY <1>14, <2>1, <2>2, <2>3, <2>4, <2>5, <2>6, <2>7, <2>8
    DEF InitStep, Unsnap, Kill, StartGate, RegenConfig, Meter, Up, Ruleset,
        Snapshot, Abandon, RestartLabels
<1>15. ASSUME NEW p \in Procs, AttachStep(p) PROVE Detached'
  <2>1. UNCHANGED svc
    BY <1>15 DEF AttachStep, Attach, AttachZone, AttachRecord, procd
  <2>2. CASE p = "hook"
    <3>1. pc'["init"] = pc["init"]
      BY <1>1, <1>15, <2>2
      DEF AttachStep, Attach, AttachZone, AttachRecord, AttachEnds, EndHook,
          Goto
    <3> QED
      BY <1>5, <2>1, <3>1
  <2>3. CASE p = "init"
    <3>1. svc' = "instance"
      BY <1>1, <1>15, <2>1, <2>3
      DEF AttachStep, Attach, AttachZone, AttachRecord, Detached, AttachLabels
    <3>2. ASSUME NEW label \in AttachLabels, Goto("init", label)
          PROVE  Detached'
      BY <1>6, <3>1, <3>2 DEF Goto, RestartLabels, AttachLabels
    <3>3. CASE EndRun
      BY <1>7, <3>1, <3>3
    <3> QED
      BY <1>1, <1>15, <2>3, <3>2, <3>3
      DEF AttachStep, Attach, AttachZone, AttachRecord, AttachEnds,
          AttachLabels, Unchanging
  <2> QED
    BY <2>2, <2>3 DEF Procs
<1>16. CASE HookStep
  <2>1. UNCHANGED svc
    BY <1>16
    DEF HookStep, HookTake, HookCheck, Detach, DetachRest, hookQuiet, procd
  <2>2. pc'["init"] = pc["init"]
    BY <1>1, <1>16
    DEF HookStep, HookTake, HookCheck, Detach, DetachRest, EndHook, Goto
  <2> QED
    BY <1>5, <2>1, <2>2
<1>17. CASE Spawn \/ Exit \/ CreateSomeTun \/ DropTun \/ Crash
  BY <1>5, <1>17
  DEF Spawn, Exit, CreateSomeTun, CreateTun, DropTun, Crash, script, procd
<1>18. ASSUME NEW d \in Devs, ForeignAdd(d) \/ ForeignRemove(d)
       PROVE  Detached'
  BY <1>5, <1>18 DEF ForeignAdd, ForeignRemove, script, procd
<1>19. ASSUME NEW c \in Configs, Commit(c) PROVE Detached'
  BY <1>5, <1>19 DEF Commit, script
<1>20. CASE Reboot
  BY <1>20
  DEF Reboot, Detached, NoRoutes, Attaching, Procs, RestartLabels, AttachLabels
<1>21. CASE UNCHANGED vars
  BY <1>5, <1>21 DEF vars, script, procd
<1> QED
  BY <1>13, <1>14, <1>15, <1>16, <1>17, <1>18, <1>19, <1>20, <1>21
  DEF Next, Environment

LEMMA WorksOnNewerStep ==
  ASSUME AgeInv, ~Overtaken, [Next]_vars
  PROVE  WorksOnNewer'
<1>1. /\ TypeInv /\ Unchanging /\ Counted /\ WorksOnNewer
      /\ pc \in [Procs -> InitLabels \cup HookLabels]
      /\ "init" \in Procs /\ "hook" \in Procs
  BY DEF AgeInv, TypeInv, TypeOK, ScriptTypeOK, Procs
<1>2. DeviceMoves
  BY <1>1, DeviceStep
<1>3. ASSUME NEW p \in Procs, pc'[p] \in {"attach", "attachRoute"}
      PROVE  Newer(dev[p])'
  <2>1. CASE pc[p] \in {"attach", "attachRoute"} /\ dev'[p] = dev[p]
    <3>1. Newer(dev[p])
      BY <1>1, <2>1 DEF WorksOnNewer
    <3>2. ~Snapshot
      <4>1. ASSUME Snapshot PROVE FALSE
        <5>1. pc["init"] = "snap" /\ pc'["init"] = "open"
          BY <1>1, <4>1 DEF Snapshot, Goto
        <5>2. p = "hook"
          BY <1>3, <5>1 DEF Procs
        <5> QED
          BY <2>1, <5>1, <5>2 DEF Overtaken, Attaching, RestartLabels
      <4> QED
        BY <4>1
    <3> DEFINE d == dev[p]
    <3>3. Newer(d)
      BY <3>1
    <3> HIDE DEF d
    <3>4. d \in Devs /\ (since' # 0 /\ ifindex'[d] # 0 => ifindex'[d] > since')
      BY <1>1, <3>2, <3>3, NewerStays DEF Newer, Exists
    <3> QED
      BY <2>1, <3>4 DEF d, Newer, Exists
  <2>2. CASE p = "init" /\ AttachClientTun /\ dev'[p] \in FreshTuns
    <3>1. UNCHANGED <<since, ifindex>>
      BY <2>2 DEF AttachClientTun, links
    <3> QED
      BY <2>2, <3>1 DEF FreshTuns, Newer, Exists
  <2>3. CASE /\ p = "hook" /\ HookCheck /\ pc[p] = "check"
             /\ Attachable(dev[p]) /\ dev'[p] = dev[p]
    <3>1. UNCHANGED <<since, ifindex>>
      BY <2>3 DEF HookCheck, hookQuiet, links
    <3>2. dev[p] \in Devs
      BY <1>1, <2>3 DEF WorksOnNewer
    <3> QED
      BY <2>3, <3>1, <3>2 DEF Attachable, Newer, Exists
  <2> QED
    BY <1>2, <1>3, <2>1, <2>2, <2>3 DEF DeviceMoves
<1>4. pc'["hook"] = "check" => dev'["hook"] \in Devs
  BY <1>1, <1>2 DEF DeviceMoves, WorksOnNewer
<1> QED
  BY <1>3, <1>4 DEF WorksOnNewer

LEMMA RoutesNewerStep ==
  ASSUME AgeInv, [Next]_vars
  PROVE  RoutesNewer'
<1>1. /\ TypeInv /\ Unchanging /\ Counted /\ WorksOnNewer /\ RoutesNewer
      /\ uci' = uci /\ Detached
  BY UnchangingStep DEF AgeInv
<1>2. /\ arg \in [Procs -> Setting \cup {None}] /\ None \notin Devs
      /\ route \in [Tables -> Devs \cup {None}]
  BY RoutingAssumption
  DEF TypeInv, TypeOK, ScriptTypeOK, RoutingTypeOK, RoutingAssumption, AgeInv
<1> SUFFICES ASSUME NEW t \in Tables, route'[t] # None
             PROVE  /\ Exists(route[t])' /\ Newer(route[t])'
                    /\ t = uci'.table /\ records' # None
  BY DEF RoutesNewer
<1> DEFINE d == route'[t]
<1>3. CASE ~\E p \in Procs : AttachRoute(p)
  <2>1. /\ d = route[t] /\ d # None
        /\ records # None => records' # None
        /\ Exists(route[t]) => Exists(route[t])'
    BY <1>1, <1>3, RouteMoves
  <2>2. Exists(route[t]) /\ Newer(route[t]) /\ t = uci.table /\ records # None
    BY <1>1, <2>1 DEF RoutesNewer
  <2>3. ~Snapshot
    BY <1>1, <2>1 DEF Snapshot, Detached, RestartLabels, NoRoutes
  <2>4. Newer(route[t])'
    <3> DEFINE e == route[t]
    <3>1. Newer(e)
      BY <2>2
    <3> HIDE DEF e
    <3>2. e \in Devs /\ (since' # 0 /\ ifindex'[e] # 0 => ifindex'[e] > since')
      BY <1>1, <2>3, <3>1, NewerStays DEF Newer, Exists
    <3> QED
      BY <2>1, <3>2 DEF e, Newer, Exists
  <2> QED
    BY <1>1, <2>1, <2>2, <2>4
<1>4. ASSUME NEW p \in Procs, AttachRoute(p)
      PROVE  /\ Exists(route[t])' /\ Newer(route[t])'
             /\ t = uci'.table /\ records' # None
  <2>1. UNCHANGED <<since, ifindex, records>> /\ pc[p] = "attachRoute"
    BY <1>4
    DEF AttachRoute, AttachDefault, links, quietScript, AttachEnds, EndHook
  <2>2. CASE route'[t] = route[t]
    BY <1>1, <2>1, <2>2 DEF RoutesNewer, Newer, Exists
  <2>3. CASE route'[t] # route[t]
    <3>1. /\ Exists(dev[p]) /\ arg[p] = uci
          /\ t = uci.table /\ route'[t] = dev[p]
      BY <1>1, <1>2, <1>4, <2>1, <2>3
      DEF AttachRoute, AttachDefault, Unchanging, kernel
    <3>2. Newer(dev[p])
      BY <1>1, <2>1 DEF WorksOnNewer
    <3>3. records # None
      BY <1>1, <2>1
      DEF TypeInv, Working, RecordLabels, AttachLabels, Procs
    <3> QED
      BY <1>1, <2>1, <3>1, <3>2, <3>3 DEF Newer, Exists
  <2> QED
    BY <2>2, <2>3
<1> QED
  BY <1>3, <1>4

LEMMA AgeInit ==
  ASSUME Budget["commit"] = 0, Init
  PROVE  AgeInv
BY TypeInvInit, ServiceAssumption
DEF Init, InitWith, RoutingInit, AgeInv, Counted, Unchanging, Detached, RoutesNewer,
    WorksOnNewer, NoRoutes, Procs, RestartLabels, AttachLabels, Attaching

LEMMA AgeStep ==
  ASSUME ~FreeStarts, AgeInv, ~Overtaken, [Next]_vars
  PROVE  AgeInv'
BY TypeInvStep, CountedStep, UnchangingStep, DetachedStep, WorksOnNewerStep,
   RoutesNewerStep
DEF AgeInv

\* With the settings left alone and start called on a stopped service only,
\* any number of restarts, faults, crashes, reconnects, foreign devices and
\* power losses never routes the tunnel to a device older than the client,
\* unless a restart overtakes the hook: that is the one way left, and the
\* scripts do not close it.
THEOREM OlderStaysOut ==
  ASSUME Budget["commit"] = 0, ~FreeStarts
  PROVE  Spec /\ []~Overtaken => []NoOlderDevice
<1>1. Init => AgeInv
  BY AgeInit
<1>2. AgeInv /\ ~Overtaken /\ [Next]_vars => AgeInv'
  BY AgeStep
<1>3. AgeInv => NoOlderDevice
  BY DEF AgeInv, RoutesNewer, Newer, NoOlderDevice
<1> QED
  BY <1>1, <1>2, <1>3, PTL DEF Spec

\* With one command to give, no restart meets a hook at work: until that
\* command has registered an instance the hook follows nothing.
Single ==
  /\ chance["call"] <= 1
  /\ chance["call"] = 1 =>
       InitIdle /\ svc # "instance" /\ pc["hook"] \notin Attaching
  /\ pc["init"] \in {"apply"} \cup RestartLabels =>
       svc # "instance" /\ pc["hook"] \notin Attaching

LEMMA SingleStep ==
  ASSUME TypeInv, Unchanging, Single, [Next]_vars
  PROVE  Single'
<1>1. /\ pc \in [Procs -> InitLabels \cup HookLabels]
      /\ "init" \in Procs /\ "hook" \in Procs
  BY DEF TypeInv, TypeOK, ScriptTypeOK, Procs
<1>2. /\ chance["call"] \in {0, 1} /\ chance'["call"] \in Nat
      /\ chance'["call"] <= chance["call"]
      /\ Spend("call") => chance["call"] = 1 /\ chance'["call"] = 0
  <2>1. /\ chance \in [Chances -> Nat] /\ chance' \in [Chances -> Nat]
        /\ "call" \in Chances
    BY TypeInvStep DEF TypeInv, TypeOK, WorldTypeOK, Chances
  <2> QED
    BY <2>1, ChancesSpent DEF Spend, Single
<1>3. pc'["hook"] \in Attaching =>
        pc["hook"] \in Attaching \/ (svc = "instance" /\ UNCHANGED svc)
  <2>1. DeviceMoves
    BY DeviceStep
  <2>2. pc'["hook"] \in {"attach", "attachRoute"} => pc["hook"] \in Attaching
    BY <1>1, <2>1 DEF DeviceMoves, Attaching
  <2>3. pc'["hook"] = "check" =>
          pc["hook"] = "check" \/ (svc = "instance" /\ UNCHANGED svc)
    BY <2>1 DEF DeviceMoves
  <2> QED
    BY <2>2, <2>3 DEF Attaching
\* Every other process
<1>4. ASSUME UNCHANGED svc, pc'["init"] = pc["init"] PROVE Single'
  BY <1>2, <1>3, <1>4 DEF Single, InitIdle
<1>5. CASE Command
  <2>1. InitIdle /\ UNCHANGED svc /\ Spend("call")
    BY <1>5
    DEF Command, CallStart, CallRestart, CallStop, CallReload, Call, procd
  <2> QED
    BY <1>2, <1>3, <2>1 DEF Single
<1>6. CASE InitStep
  <2>1. ~InitIdle
    BY <1>6
    DEF InitStep, ApplyFull, ApplyByClass, Reattach, Down, DownRest, Unsnap,
        Kill, StartGate, RegenConfig, Meter, Up, Ruleset, Snapshot,
        OpenInstance, Abandon, AttachClientTun, InitIdle
  <2>2. chance'["call"] = 0
    BY <1>2, <2>1 DEF Single
  <2>3. CASE pc["init"] \in {"apply"} \cup RestartLabels
    <3>1. svc' = svc \/ svc' # "instance"
      BY <1>6, <2>3
      DEF InitStep, ApplyFull, ApplyByClass, Reattach, Down, DownRest, Unsnap,
          Kill, StartGate, RegenConfig, Meter, Up, Ruleset, Snapshot,
          OpenInstance, Abandon, AttachClientTun, DropInstance, procd,
          RestartLabels
    <3> QED
      BY <1>3, <2>2, <2>3, <3>1 DEF Single
  <2>4. CASE OpenInstance
    <3>1. pc'["init"] \in {"idle", "wait"}
      BY <1>1, <2>4 DEF OpenInstance, EndRun, Goto
    <3> QED
      BY <2>2, <3>1 DEF Single, RestartLabels
  <2>5. CASE AttachClientTun
    <3>1. pc'["init"] \in {"idle", "attach"}
      BY <1>1, <2>5 DEF AttachClientTun, EndRun, Goto
    <3> QED
      BY <2>2, <3>1 DEF Single, RestartLabels
  <2>6. ~Reattach
    BY DEF Reattach, Unchanging
  <2> QED
    BY <1>6, <2>3, <2>4, <2>5, <2>6
    DEF InitStep, ApplyFull, ApplyByClass, Down, DownRest, Unsnap, Kill,
        StartGate, RegenConfig, Meter, Up, Ruleset, Snapshot, Abandon,
        RestartLabels
<1>7. ASSUME NEW p \in Procs, AttachStep(p) PROVE Single'
  <2>1. UNCHANGED svc
    BY <1>7
    DEF AttachStep, Attach, AttachRoute, AttachZone, AttachRecord, procd
  <2>2. CASE p = "hook"
    <3>1. pc'["init"] = pc["init"]
      BY <1>1, <1>7, <2>2
      DEF AttachStep, Attach, AttachRoute, AttachZone, AttachRecord,
          AttachEnds, EndHook, Goto
    <3> QED
      BY <1>4, <2>1, <3>1
  <2>3. CASE p = "init"
    <3>1. /\ pc["init"] # "idle"
          /\ pc'["init"] \in {"idle"} \cup AttachLabels
      BY <1>1, <1>7, <2>3
      DEF AttachStep, Attach, AttachRoute, AttachZone, AttachRecord,
          AttachEnds, EndRun, Goto, AttachLabels, Unchanging
    <3> QED
      BY <1>2, <3>1 DEF Single, InitIdle, AttachLabels, RestartLabels
  <2> QED
    BY <2>2, <2>3 DEF Procs
<1>8. CASE HookStep
  <2>1. UNCHANGED svc
    BY <1>8
    DEF HookStep, HookTake, HookCheck, Detach, DetachRest, hookQuiet, procd
  <2>2. pc'["init"] = pc["init"]
    BY <1>1, <1>8
    DEF HookStep, HookTake, HookCheck, Detach, DetachRest, EndHook, Goto
  <2> QED
    BY <1>4, <2>1, <2>2
<1>9. CASE Spawn \/ Exit \/ CreateSomeTun \/ DropTun \/ Crash
  BY <1>4, <1>9
  DEF Spawn, Exit, CreateSomeTun, CreateTun, DropTun, Crash, script, procd
<1>10. ASSUME NEW d \in Devs, ForeignAdd(d) \/ ForeignRemove(d) PROVE Single'
  BY <1>4, <1>10 DEF ForeignAdd, ForeignRemove, script, procd
<1>11. ASSUME NEW c \in Configs, Commit(c) PROVE Single'
  BY <1>4, <1>11 DEF Commit, script
<1>12. CASE Reboot
  BY <1>2, <1>12
  DEF Reboot, Single, InitIdle, Attaching, Procs, RestartLabels
<1>13. CASE UNCHANGED vars
  BY <1>4, <1>13 DEF vars, script, procd
<1>14. ~FireTrigger
  BY DEF FireTrigger, Unchanging
<1> QED
  BY <1>5, <1>6, <1>7, <1>8, <1>9, <1>10, <1>11, <1>12, <1>13, <1>14
  DEF Next, Environment

\* The same for a single command after boot, whatever then happens to the
\* client and to the devices, and at any moment of that command: nothing
\* older than the client is routed to.
THEOREM FirstRunKeepsOlderOut ==
  ASSUME Budget["call"] <= 1, Budget["commit"] = 0, ~FreeStarts
  PROVE  Spec => []NoOlderDevice
<1>1. Init => AgeInv /\ Single
  <2>1. Init => Single
    BY DEF Init, InitWith, Single, InitIdle, Attaching, Procs, RestartLabels
  <2> QED
    BY <2>1, AgeInit
<1>2. AgeInv /\ Single => ~Overtaken
  BY DEF Single, Overtaken
<1>3. AgeInv /\ Single /\ [Next]_vars => AgeInv' /\ Single'
  BY <1>2, AgeStep, SingleStep DEF AgeInv
<1>4. AgeInv => NoOlderDevice
  BY DEF AgeInv, RoutesNewer, Newer, NoOlderDevice
<1> QED
  BY <1>1, <1>3, <1>4, PTL DEF Spec

=============================================================================
