---------------------------- MODULE TunnelService ----------------------------
(***************************************************************************)
(* The life of the tunnel service: the init script (start, stop, restart   *)
(* and Save & Apply), the net hotplug hook, procd with the client it       *)
(* supervises, and the tun devices, all stepping concurrently on the       *)
(* kernel state of module Routing.                                         *)
(*                                                                         *)
(* Two processes run the scripts.  rc.common holds a lock for a whole run  *)
(* of the init script, so there is one "init" process.  netifd runs the    *)
(* hotplug events one after the other, so there is one "hook" process.     *)
(* Nothing orders the two: each label below is a place where the other one *)
(* may run.  Waiting for the clock, the default route and DNS changes no   *)
(* state and is left out.                                                  *)
(***************************************************************************)
EXTENDS Routing, Sequences

CONSTANTS
  MaxIndex,     \* bound: the interface indexes the kernel hands out
  Budget,       \* bound: how often each thing the scripts do not control
                \* may happen, see Chances
  FreeCommits,  \* settings may be committed while the init script runs
  FreeStarts    \* start may be called while the service is running

Procs == {"init", "hook"}

Chances ==
  {"call",     \* a command given to the init script
   "commit",   \* a commit of new settings
   "fault",    \* a tool the scripts run fails
   "crash",    \* the client exits on its own
   "recreate", \* the client drops its device and carries on
   "foreign",  \* somebody else's tun device appears
   "reboot"}   \* power loss

ASSUME ServiceAssumption ==
  /\ MaxIndex \in Nat
  /\ Budget \in [Chances -> Nat]
  /\ FreeCommits \in BOOLEAN
  /\ FreeStarts \in BOOLEAN

VARIABLES
  uci,       \* the committed settings
  records,   \* settings.tsv, the applied settings, or None
  toml,      \* client.toml, or None when missing or truncated
  since,     \* $OUTDIR/tun_since, 0 when the file is absent
  pc,        \* where each process stands
  arg,       \* the records the routing helper of a process has loaded
  dev,       \* the device a process is working on
  run,       \* the flags set in the run of the init script, see Flags
  svc,       \* the service at procd: none, idle (no instance) or instance
  client,    \* the client process: off, up, term (told to exit), wait
  loaded,    \* the configuration the client process has read
  ours,      \* the tun device of the client, or None
  lastIndex, \* the last interface index handed out
  events,    \* the net hotplug events not yet handled
  trigger,   \* a config change procd has not yet turned into a reload
  chance     \* what is left of Budget

script == <<records, toml, since, pc, arg, dev, run>>
procd == <<svc, client, loaded, trigger>>
links == <<ifindex, ours, lastIndex>>
vars == <<kernel, script, procd, links, uci, events, chance>>

-----------------------------------------------------------------------------
(* Vocabulary *)

Event == [action : {"add", "remove"}, dev : Devs]

AttachLabels == {"attach", "attachRoute", "attachZone", "attachRecord"}

InitLabels ==
  {"idle", "apply", "down", "downRoutes", "downZone", "downForget", "unsnap",
   "kill", "gate", "regen", "up", "ruleset", "meter", "reattach", "snap",
   "open", "wait", "abandon"} \cup AttachLabels

HookLabels == {"idle", "check", "detach", "detachZone", "detachForget"}
                \cup AttachLabels

\* now: TT_START_NOW, keep: _TT_KEEP_ROUTING, restart: a start follows the
\* stop, reload: inside the reload branch of apply_config, abort: the start
\* has failed.
Flags == {"now", "keep", "restart", "reload", "abort"}

InitIdle == pc["init"] = "idle"

\* `init.d running` may answer yes, and may answer no: both while the client
\* of a registered instance is on its way out.
Running == svc = "instance" /\ client \in {"up", "term"}
NotRunning == svc # "instance" \/ client # "up"

Spend(c) == chance[c] > 0 /\ chance' = [chance EXCEPT ![c] = @ - 1]

Goto(p, label) == pc' = [pc EXCEPT ![p] = label]

\* The end of a run of the init script: its local variables are gone.
EndRun ==
  /\ Goto("init", "idle")
  /\ run' = {}
  /\ arg' = [arg EXCEPT !["init"] = None]
  /\ dev' = [dev EXCEPT !["init"] = None]

EndHook ==
  /\ Goto("hook", "idle")
  /\ arg' = [arg EXCEPT !["hook"] = None]
  /\ dev' = [dev EXCEPT !["hook"] = None]

\* stop_service: the routing goes unless this is a keep-routing restart.
StopLabel(flags) ==
  IF "keep" \notin flags /\ records # None THEN "down" ELSE "unsnap"

\* restart: stop, then start, in the same process.
Restart(flags) ==
  /\ run' = (flags \ {"reload"}) \cup {"restart"}
  /\ Goto("init", StopLabel(flags))

\* A slip on the way out of a start that aborts: nothing is torn down.
AbortStartHanging ==
  /\ run' = (run \ {"keep"}) \cup {"abort"}
  /\ Goto("init", "abandon")

\* teardown_hanging_routing, on the way out of a start that aborts: only an
\* interrupted keep-routing restart is torn down.
AbortStart ==
  /\ run' = (run \ {"keep"}) \cup {"abort"}
  /\ Goto("init", IF "keep" \in run /\ records # None
                     THEN "down" ELSE "abandon")

-----------------------------------------------------------------------------
(* The commands of the init script *)

Call == InitIdle /\ Spend("call")

quietScript == <<records, toml, since, arg, dev>>

CallStart(flags) ==
  /\ Call
  /\ FreeStarts \/ svc # "instance"
  /\ run' = flags
  /\ Goto("init", "gate")
  /\ UNCHANGED <<kernel, quietScript, procd, links, uci, events>>

CallStop ==
  /\ Call
  /\ run' = {}
  /\ Goto("init", StopLabel({}))
  /\ UNCHANGED <<kernel, quietScript, procd, links, uci, events>>

\* The Restart button (now), or the wan-up trigger (no flag).
CallRestart(flags) ==
  /\ Call
  /\ Restart(flags)
  /\ UNCHANGED <<kernel, quietScript, procd, links, uci, events>>

CallReload ==
  /\ Call
  /\ run' = {}
  /\ Goto("init", "apply")
  /\ UNCHANGED <<kernel, quietScript, procd, links, uci, events>>

\* procd turns a config change into a reload of the script.
FireTrigger ==
  /\ InitIdle
  /\ trigger
  /\ trigger' = FALSE
  /\ run' = {}
  /\ Goto("init", "apply")
  /\ UNCHANGED <<kernel, quietScript, svc, client, loaded, links, uci,
                 events, chance>>

-----------------------------------------------------------------------------
(* Save & Apply: apply_config *)

\* Nothing to compare with, or no running client, or no export: restart.
ApplyFull ==
  /\ pc["init"] = "apply"
  /\ \/ (records = None \/ NotRunning) /\ UNCHANGED chance
     \/ Spend("fault")
  /\ Restart(run)
  /\ UNCHANGED <<kernel, quietScript, procd, links, uci, events>>

\* The class of the difference between the applied records and a fresh
\* export picks the branch.
ApplyByClass ==
  /\ pc["init"] = "apply"
  /\ records # None /\ Running
  /\ LET class == ClassOf(records, uci) IN
     \/ class = "noop" /\ EndRun
     \/ /\ class = "reload"
        /\ run' = run \cup {"reload"}
        /\ Goto("init", "regen")
        /\ UNCHANGED <<arg, dev>>
     \/ /\ class = "restart"
        /\ Restart(run \cup {"keep"})
        /\ UNCHANGED <<arg, dev>>
     \/ /\ class = "full"
        /\ Restart(run)
        /\ UNCHANGED <<arg, dev>>
  /\ UNCHANGED <<kernel, records, toml, since, procd, links, uci, events,
                 chance>>

\* The reload branch re-arms the recorded device if it still exists.
Reattach ==
  /\ pc["init"] = "reattach"
  /\ IF device # None /\ Exists(device)
       THEN /\ dev' = [dev EXCEPT !["init"] = device]
            /\ Goto("init", "attach")
            /\ UNCHANGED <<run, arg>>
       ELSE EndRun
  /\ UNCHANGED <<kernel, records, toml, since, procd, links, uci, events,
                 chance>>

-----------------------------------------------------------------------------
(* Stopping: stop_service with routing down, then procd_kill *)

\* The records name the table and the mark to take down.
Down ==
  /\ pc["init"] = "down"
  /\ DownMarks(records)
  /\ arg' = [arg EXCEPT !["init"] = records]
  /\ Goto("init", "downRoutes")
  /\ UNCHANGED <<records, toml, since, dev, run, procd, links, uci, events,
                 chance>>

DownRest ==
  /\ \/ /\ pc["init"] = "downRoutes"
        /\ DownRoutes(arg["init"])
        /\ Goto("init", "downZone")
     \/ /\ pc["init"] = "downZone"
        /\ ClearZone
        /\ Goto("init", "downForget")
     \/ /\ pc["init"] = "downForget"
        /\ ForgetDevice
        /\ Goto("init", IF "abort" \in run THEN "abandon" ELSE "unsnap")
  /\ UNCHANGED <<quietScript, run, procd, links, uci, events, chance>>

\* rm -f tun_since
Unsnap ==
  /\ pc["init"] = "unsnap"
  /\ since' = 0
  /\ Goto("init", "kill")
  /\ UNCHANGED <<kernel, records, toml, arg, dev, run, procd, links, uci,
                 events, chance>>

\* procd drops an instance: a live client is told to exit.
DropInstance(state) ==
  /\ svc' = state
  /\ client' = IF client = "up" THEN "term"
               ELSE IF client = "wait" THEN "off" ELSE client

\* procd_kill removes the service with its reload trigger; a reload already
\* under way waits for the script's lock and survives.
Kill ==
  /\ pc["init"] = "kill"
  /\ DropInstance("none")
  /\ trigger' \in {FALSE, trigger}
  /\ IF "restart" \in run
       THEN /\ run' = run \ {"restart"}
            /\ Goto("init", "gate")
            /\ UNCHANGED <<arg, dev>>
       ELSE EndRun
  /\ UNCHANGED <<kernel, records, toml, since, loaded, links, uci, events,
                 chance>>

-----------------------------------------------------------------------------
(* Starting: start_service *)

\* main.enabled gates the automatic starts, TT_START_NOW overrides it; a
\* missing client binary or CA bundle aborts.
StartGate ==
  /\ pc["init"] = "gate"
  /\ \/ /\ uci.enabled \/ "now" \in run
        /\ Goto("init", "regen")
        /\ UNCHANGED <<run, chance>>
     \/ /\ ~uci.enabled /\ "now" \notin run
        /\ AbortStart
        /\ UNCHANGED chance
     \/ Spend("fault") /\ AbortStart
  /\ UNCHANGED <<kernel, quietScript, procd, links, uci, events>>

\* What follows a failed regen_config or routing up.
BuildFailed ==
  IF "reload" \in run THEN Restart(run) ELSE AbortStart

\* regen_config: a fresh export replaces the records, then gen-config
\* rewrites client.toml and may refuse; a failed export replaces nothing.
RegenConfig ==
  /\ pc["init"] = "regen"
  /\ \/ /\ records' = uci
        /\ toml' = Toml(uci)
        /\ UNCHANGED chance
        /\ IF uci.client \in Broken
             THEN BuildFailed /\ UNCHANGED <<arg, dev>>
             ELSE IF "reload" \in run /\ uci.proxy
               THEN EndRun
               ELSE /\ Goto("init", IF uci.proxy THEN "meter" ELSE "up")
                    /\ UNCHANGED <<run, arg, dev>>
     \/ /\ Spend("fault")
        /\ BuildFailed
        /\ UNCHANGED <<records, toml, arg, dev>>
  /\ UNCHANGED <<kernel, since, procd, links, uci, events>>

\* routing meter: a failure is only a warning.
Meter ==
  /\ pc["init"] = "meter"
  /\ \/ InstallMeter /\ UNCHANGED chance
     \/ Spend("fault") /\ UNCHANGED kernel
  /\ Goto("init", "open")
  /\ UNCHANGED <<quietScript, run, procd, links, uci, events>>

Up ==
  /\ pc["init"] = "up"
  /\ UpRule(records)
  /\ arg' = [arg EXCEPT !["init"] = records]
  /\ Goto("init", "ruleset")
  /\ UNCHANGED <<records, toml, since, dev, run, procd, links, uci, events,
                 chance>>

\* The nft transaction lands as a whole or fails as a whole.
Ruleset ==
  /\ pc["init"] = "ruleset"
  /\ \/ /\ UpRuleset(arg["init"])
        /\ Goto("init", IF "reload" \in run THEN "reattach" ELSE "snap")
        /\ UNCHANGED <<run, chance>>
     \/ /\ Spend("fault")
        /\ BuildFailed
        /\ UNCHANGED kernel
  /\ UNCHANGED <<quietScript, procd, links, uci, events>>

\* Interface index 1 stands for the interfaces that are not tun devices.
Indexes == {1} \cup {ifindex[d] : d \in Devs}

\* highest_ifindex, kept in tun_since.
Snapshot ==
  /\ pc["init"] = "snap"
  /\ since' \in {n \in Indexes : \A m \in Indexes : m <= n}
  /\ Goto("init", "open")
  /\ UNCHANGED <<kernel, records, toml, arg, dev, run, procd, links, uci,
                 events, chance>>

\* The procd instance is registered.  procd leaves a running client alone,
\* its command line being the same, and spawns one otherwise (Spawn).
OpenInstance ==
  /\ pc["init"] = "open"
  /\ svc' = "instance"
  /\ IF records.proxy
       THEN EndRun
       ELSE Goto("init", "wait") /\ UNCHANGED <<run, arg, dev>>
  /\ UNCHANGED <<kernel, records, toml, since, client, loaded, trigger,
                 links, uci, events, chance>>

\* A start without an instance: procd drops the one it may still have.
Abandon ==
  /\ pc["init"] = "abandon"
  /\ DropInstance("idle")
  /\ EndRun
  /\ UNCHANGED <<kernel, records, toml, since, loaded, trigger, links, uci,
                 events, chance>>

\* fresh_client_tuns
FreshTuns ==
  {d \in Devs \ Persistent : ifindex[d] > since}

\* attach_client_tun polls for a fresh device and gives up after a while;
\* `head -n 1` takes the first name, and any name may be the first.
AttachClientTun ==
  /\ pc["init"] = "wait"
  /\ \/ \E d \in FreshTuns :
          /\ dev' = [dev EXCEPT !["init"] = d]
          /\ Goto("init", "attach")
          /\ UNCHANGED <<run, arg>>
     \/ FreshTuns = {} /\ EndRun
  /\ UNCHANGED <<kernel, records, toml, since, procd, links, uci, events,
                 chance>>

-----------------------------------------------------------------------------
(* routing attach, run by either process *)

\* The end of attach.  Only the reload branch looks at the outcome: it
\* falls back to a restart.
AttachEnds(p, ok) ==
  IF p = "hook" THEN EndHook /\ UNCHANGED run
  ELSE IF "reload" \in run /\ ~ok THEN Restart(run) /\ UNCHANGED <<arg, dev>>
  ELSE EndRun

\* The helper loads the records, refuses a device that is gone and arms the
\* killswitch.
Attach(p) ==
  /\ pc[p] = "attach"
  /\ IF Exists(dev[p])
       THEN /\ AttachHole(records)
            /\ arg' = [arg EXCEPT ![p] = records]
            /\ Goto(p, "attachRoute")
            /\ UNCHANGED <<dev, run>>
       ELSE AttachEnds(p, FALSE) /\ UNCHANGED kernel
  /\ UNCHANGED <<records, toml, since, procd, links, uci, events, chance>>

\* The kernel refuses a route through a device that is gone by now, and may
\* refuse one through a device that is not up yet.
AttachRoute(p) ==
  /\ pc[p] = "attachRoute"
  /\ \/ /\ Exists(dev[p])
        /\ AttachDefault(arg[p], dev[p])
        /\ Goto(p, "attachZone")
        /\ UNCHANGED <<arg, dev, run, chance>>
     \/ /\ \/ ~Exists(dev[p]) /\ UNCHANGED chance
           \/ Spend("fault")
        /\ AttachEnds(p, FALSE)
        /\ UNCHANGED kernel
  /\ UNCHANGED <<records, toml, since, procd, links, uci, events>>

\* A failed zone sync is only logged.
AttachZone(p) ==
  /\ pc[p] = "attachZone"
  /\ \/ SyncZone(dev[p]) /\ UNCHANGED chance
     \/ Spend("fault") /\ UNCHANGED kernel
  /\ Goto(p, "attachRecord")
  /\ UNCHANGED <<quietScript, run, procd, links, uci, events>>

AttachRecord(p) ==
  /\ pc[p] = "attachRecord"
  /\ RecordDevice(dev[p])
  /\ AttachEnds(p, TRUE)
  /\ UNCHANGED <<records, toml, since, procd, links, uci, events, chance>>

-----------------------------------------------------------------------------
(* The net hotplug hook *)

hookQuiet == <<records, toml, since, run, procd, links, uci, chance>>

\* Without records, or in proxy mode, no event concerns the hook.
Concerned == records # None /\ ~records.proxy

\* One event is taken up.  An add is followed while the service runs, a
\* remove when it names the recorded device; the rest is dropped.
HookTake ==
  /\ pc["hook"] = "idle"
  /\ events # <<>>
  /\ events' = Tail(events)
  /\ LET d == Head(events).dev
         add == Head(events).action = "add"
         follow == Concerned /\ add /\ Exists(d) /\ d \notin Persistent
         leave == Concerned /\ ~add /\ device = d
     IN \/ /\ follow /\ Running
           /\ Goto("hook", "check")
           /\ dev' = [dev EXCEPT !["hook"] = d]
           /\ UNCHANGED arg
        \/ /\ leave
           /\ Goto("hook", "detach")
           /\ arg' = [arg EXCEPT !["hook"] = records]
           /\ UNCHANGED dev
        \/ /\ ~leave
           /\ ~follow \/ NotRunning
           /\ UNCHANGED <<pc, arg, dev>>
  /\ UNCHANGED <<kernel, hookQuiet>>

\* A slip in the hook: the snapshot is not consulted.
AttachableAnyAge(d) ==
  /\ Exists(d)
  /\ \/ device = None
     \/ ~Exists(device)
     \/ device = d

\* Another one: off by one at the snapshot.
AttachableOffByOne(d) ==
  /\ Exists(d)
  /\ since = 0 \/ ifindex[d] > since + 1
  /\ \/ device = None
     \/ ~Exists(device)
     \/ device = d

\* The device must still be there, be newer than the snapshot when there is
\* one, and not compete with a recorded device that is still alive.
Attachable(d) ==
  /\ Exists(d)
  /\ since = 0 \/ ifindex[d] > since
  /\ \/ device = None
     \/ ~Exists(device)
     \/ device = d

HookCheck ==
  /\ pc["hook"] = "check"
  /\ IF Attachable(dev["hook"])
       THEN Goto("hook", "attach") /\ UNCHANGED <<arg, dev>>
       ELSE EndHook
  /\ UNCHANGED <<kernel, events, hookQuiet>>

\* routing detach, with the records loaded as the helper started
Detach ==
  /\ pc["hook"] = "detach"
  /\ DetachRoutes(arg["hook"])
  /\ Goto("hook", "detachZone")
  /\ UNCHANGED <<arg, dev, events, hookQuiet>>

DetachRest ==
  /\ \/ /\ pc["hook"] = "detachZone"
        /\ ClearZone
        /\ Goto("hook", "detachForget")
        /\ UNCHANGED <<arg, dev>>
     \/ /\ pc["hook"] = "detachForget"
        /\ ForgetDevice
        /\ EndHook
  /\ UNCHANGED <<events, hookQuiet>>

-----------------------------------------------------------------------------
(* procd, the client and the tun devices *)

\* A device goes: the kernel drops the routes through it and netifd queues
\* a remove event.
RemoveLink(d) ==
  /\ ifindex' = [ifindex EXCEPT ![d] = 0]
  /\ route' = [t \in Tables |-> IF route[t] = d THEN None ELSE route[t]]
  /\ events' = Append(events, [action |-> "remove", dev |-> d])
  /\ UNCHANGED <<nft, rules, hole, zone, device, lastIndex>>

AddLink(d) ==
  /\ ~Exists(d)
  /\ lastIndex < MaxIndex
  /\ lastIndex' = lastIndex + 1
  /\ ifindex' = [ifindex EXCEPT ![d] = lastIndex + 1]
  /\ events' = Append(events, [action |-> "add", dev |-> d])

\* The client's device, if any, disappears with the process.
CloseTun ==
  IF ours # None
    THEN RemoveLink(ours) /\ ours' = None
    ELSE UNCHANGED <<kernel, links, events>>

\* procd spawns the client of a registered instance, after a crash too.
Spawn ==
  /\ svc = "instance"
  /\ client \in {"off", "wait"}
  /\ client' = "up"
  /\ loaded' = toml
  /\ UNCHANGED <<kernel, script, svc, trigger, links, uci, events, chance>>

\* A client with a usable tun configuration creates its device.
CreateTun(d) ==
  /\ client = "up"
  /\ loaded # None /\ ~loaded.proxy
  /\ ours = None
  /\ d \notin Persistent
  /\ AddLink(d)
  /\ ours' = d
  /\ UNCHANGED <<kernel, script, procd, uci, chance>>

\* The client drops its device and carries on, as it does to reconnect.
DropTun ==
  /\ client = "up"
  /\ ours # None
  /\ Spend("recreate")
  /\ CloseTun
  /\ UNCHANGED <<script, procd, uci>>

\* The client exits on its own; procd waits before the respawn.
Crash ==
  /\ client = "up"
  /\ Spend("crash")
  /\ client' = "wait"
  /\ loaded' = None
  /\ CloseTun
  /\ UNCHANGED <<script, svc, trigger, uci>>

\* The client told to exit has exited.
Exit ==
  /\ client = "term"
  /\ client' = "off"
  /\ loaded' = None
  /\ CloseTun
  /\ UNCHANGED <<script, svc, trigger, uci, chance>>

\* A tun device of somebody else comes or goes.
ForeignAdd(d) ==
  /\ Spend("foreign")
  /\ AddLink(d)
  /\ UNCHANGED <<kernel, script, procd, ours, uci>>

ForeignRemove(d) ==
  /\ Exists(d) /\ d # ours
  /\ RemoveLink(d)
  /\ UNCHANGED <<script, procd, ours, uci, chance>>

\* New settings are committed.  A commit through the web interface makes
\* procd reload the service when the service is registered.
Commit(c) ==
  /\ FreeCommits \/ (InitIdle /\ ~trigger)
  /\ c # uci
  /\ Spend("commit")
  /\ uci' = c
  /\ trigger' = (trigger \/ svc # "none")
  /\ UNCHANGED <<kernel, script, svc, client, loaded, links, events>>

\* Power loss: flash (uci and the firewall zone) is what remains.
Reboot ==
  /\ Spend("reboot")
  /\ ifindex' = [d \in Devs |-> 0]
  /\ ours' = None /\ lastIndex' = 1 /\ events' = <<>>
  /\ nft' = None /\ rules' = {} /\ hole' = {} /\ device' = None
  /\ route' = [t \in Tables |-> None]
  /\ records' = None /\ toml' = None /\ since' = 0
  /\ pc' = [p \in Procs |-> "idle"]
  /\ arg' = [p \in Procs |-> None]
  /\ dev' = [p \in Procs |-> None]
  /\ run' = {}
  /\ svc' = "none" /\ client' = "off" /\ loaded' = None /\ trigger' = FALSE
  /\ UNCHANGED <<zone, uci>>

-----------------------------------------------------------------------------
(* Specification *)

\* A first boot; b bounds what may happen from there.
InitWith(b) ==
  /\ RoutingInit
  /\ ifindex = [d \in Devs |-> 0]
  /\ ours = None /\ lastIndex = 1 /\ events = <<>>
  /\ uci \in Configs
  /\ records = None /\ toml = None /\ since = 0
  /\ pc = [p \in Procs |-> "idle"]
  /\ arg = [p \in Procs |-> None]
  /\ dev = [p \in Procs |-> None]
  /\ run = {}
  /\ svc = "none" /\ client = "off" /\ loaded = None /\ trigger = FALSE
  /\ chance = b

Init == InitWith(Budget)

Command ==
  \/ \E flags \in SUBSET {"now"} : CallStart(flags) \/ CallRestart(flags)
  \/ CallStop
  \/ CallReload

InitStep ==
  \/ ApplyFull \/ ApplyByClass \/ Reattach
  \/ Down \/ DownRest \/ Unsnap \/ Kill
  \/ StartGate \/ RegenConfig \/ Meter \/ Up \/ Ruleset \/ Snapshot
  \/ OpenInstance \/ Abandon \/ AttachClientTun

AttachStep(p) ==
  Attach(p) \/ AttachRoute(p) \/ AttachZone(p) \/ AttachRecord(p)

HookStep == HookTake \/ HookCheck \/ Detach \/ DetachRest

CreateSomeTun == \E d \in Devs : CreateTun(d)

Environment ==
  \/ DropTun \/ Crash \/ Reboot
  \/ \E d \in Devs : ForeignAdd(d) \/ ForeignRemove(d)
  \/ \E c \in Configs : Commit(c)

Next ==
  \/ Command \/ FireTrigger
  \/ InitStep \/ HookStep \/ \E p \in Procs : AttachStep(p)
  \/ Spawn \/ Exit \/ CreateSomeTun
  \/ Environment

Spec == Init /\ [][Next]_vars

\* The scripts run on, procd reloads and respawns, a client told to exit
\* exits and a client that is up gets its device.  Commands, commits,
\* faults, crashes and foreign devices are never owed.
Fairness ==
  /\ WF_vars(InitStep \/ AttachStep("init"))
  /\ WF_vars(HookStep \/ AttachStep("hook"))
  /\ WF_vars(FireTrigger)
  /\ WF_vars(Spawn)
  /\ WF_vars(Exit)
  /\ WF_vars(CreateSomeTun)

FairSpec == Spec /\ Fairness

-----------------------------------------------------------------------------
(* Types *)

ScriptTypeOK ==
  /\ records \in Setting \cup {None}
  /\ toml \in ClientConfig \cup {None}
  /\ since \in Nat
  /\ pc \in [Procs -> InitLabels \cup HookLabels]
  /\ pc["init"] \in InitLabels /\ pc["hook"] \in HookLabels
  /\ arg \in [Procs -> Setting \cup {None}]
  /\ dev \in [Procs -> Devs \cup {None}]
  /\ run \subseteq Flags

WorldTypeOK ==
  /\ uci \in Setting
  /\ svc \in {"none", "idle", "instance"}
  /\ client \in {"off", "up", "term", "wait"}
  /\ loaded \in ClientConfig \cup {None}
  /\ trigger \in BOOLEAN
  /\ ours \in Devs \cup {None}
  /\ lastIndex \in Nat
  /\ events \in Seq(Event)
  /\ chance \in [Chances -> Nat]

\* Every variable stays in its domain.
TypeOK == RoutingTypeOK /\ ScriptTypeOK /\ WorldTypeOK

-----------------------------------------------------------------------------
(* Safety *)

\* No script runs and none is about to: the state users and scripts rely on.
Settled ==
  /\ InitIdle /\ ~trigger
  /\ pc["hook"] = "idle" /\ events = <<>>
  /\ client # "term"

\* The strict mode implements the abstract killswitch: marked traffic is
\* tunneled or dropped, never sent out directly, whatever the scripts, the
\* client and the devices are doing (blackhole_on_down=1: routing up, detach
\* and down, and the keep-routing handshake of the init script).
KS == INSTANCE Killswitch WITH
        engaged <- Marking, verdict <- Verdict, kept <- "keep" \in run

ImplementsKillswitch == KS!Spec

\* Once the service is stopped nothing marks traffic any more: neither the
\* nft table nor the rule is left hanging (stop_service, routing down).
StoppedIsInert ==
  svc = "none" /\ InitIdle => nft = None /\ rules = {}

\* In the fail-open mode marked traffic is not blackholed for good: with
\* everything settled the blackhole stands only behind an attached device
\* (routing attach, detach and the comment on the fail-open default).
FailOpenArmedOnlyAttached ==
  Settled /\ Marking /\ ~records.strict
    => (nft \in hole => route[nft] # None)

\* With everything settled the killswitch is armed where it has to be: behind
\* an attached device, and in the strict mode always.
ArmedWhileAttached ==
  Settled /\ Marking /\ (records.strict \/ route[nft] # None) => nft \in hole

\* With everything settled the routes, the record, and the zone agree:
\* traffic is routed to the recorded device, which the zone is bound to.
AttachmentAgrees ==
  Settled /\ device # None /\ Exists(device)
    => route[records.table] = device /\ zone = device

\* The interface snapshot keeps older devices out: while it stands, the
\* tunnel is never routed to a device that was there before the client
\* started (tun_since, the hook's index check and fresh_client_tuns).
NoOlderDevice ==
  since # 0 /\ InitIdle
    => \A t \in Tables : route[t] # None => ifindex[route[t]] > since

\* A foreign device never carries the tunneled traffic.
OnlyOursAttached == \A t \in Tables : route[t] \in {None, ours}

\* What diverts traffic is what the records say: no rule and no mark of an
\* earlier table is left behind (routing down takes down "everything up
\* installed").
OnlyAppliedTable ==
  InitIdle =>
    /\ \A t \in rules : records # None /\ t = records.table
    /\ nft \in Tables => records # None /\ nft = records.table

\* The two modes exclude each other in the kernel.
ModesExclusive ==
  InitIdle =>
    /\ nft = Metered => rules = {} /\ records.proxy
    /\ nft \in Tables => ~records.proxy

-----------------------------------------------------------------------------
(* Liveness *)

\* A client device that stays up gets the tunnel: rule, ruleset, route, zone
\* and record all point to it in the end, and in the strict mode the
\* killswitch is armed.
ClientUp ==
  /\ svc = "instance" /\ client = "up" /\ ours # None
  /\ ~records.proxy /\ InitIdle /\ ~trigger

Attached ==
  /\ nft = records.table /\ nft \in rules
  /\ records.strict => nft \in hole
  /\ route[nft] = ours /\ device = ours /\ zone = ours

EventuallyAttached == ClientUp ~> (~ClientUp \/ Attached)

\* The committed settings are what runs: the records, the client's own
\* configuration and the kernel all follow them; settings that keep the
\* service down leave nothing in the kernel.
RunsCommitted ==
  /\ svc = "instance" /\ client = "up"
  /\ records = uci /\ loaded = Toml(uci)
  /\ nft = (IF uci.proxy THEN Metered ELSE uci.table)
  /\ rules = (IF uci.proxy THEN {} ELSE {uci.table})
  /\ ~uci.proxy /\ uci.strict => uci.table \in hole

DownAsCommitted ==
  /\ ~uci.enabled \/ uci.client \in Broken
  /\ svc = "idle"
  /\ nft = None /\ rules = {}

\* A stop given on purpose; every other run ends with the service registered.
StaysStopped == svc = "none" /\ InitIdle

\* Save & Apply: settings committed while the service is registered take
\* effect, with nothing of the former ones left in force (apply_config and
\* its classes, each with the restart it makes or falls back to), unless the
\* service is stopped meanwhile and stays so.
SettingsTakeEffect ==
  trigger ~> (RunsCommitted \/ DownAsCommitted \/ StaysStopped)

=============================================================================
