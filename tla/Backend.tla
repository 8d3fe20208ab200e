------------------------------ MODULE Backend ------------------------------
(***************************************************************************)
(* The rpcd backend as the pages of the web interface see it, together     *)
(* with what goes on behind it.                                            *)
(*                                                                         *)
(*   config    the committed UCI configuration                             *)
(*   staged    what the web session sees of it: with the changes saved but *)
(*             not applied                                                 *)
(*   records   the records file uci-export wrote last                      *)
(*   service   running: the init script's answer; up: the client's device, *)
(*             or its listener in proxy mode; wired: the rule and the nft  *)
(*             table are in the kernel, or the meter in proxy mode         *)
(*   bytes     the usage counters, None where there are none               *)
(*   carried   all bytes carried so far (no part of the system)            *)
(*   log       the lines on trusttunnel the system log has been given, by  *)
(*             number, and how many of them its ring buffer has lost       *)
(*   calls     the calls of the open page, one channel for each place in   *)
(*             the pages that can have a call under way                    *)
(*   budget    how often each kind of event may still happen               *)
(*                                                                         *)
(* A call is made by a page, answered here and handled by the page: three  *)
(* steps, with anything in between.  It can fail on the way to the backend *)
(* or on the way back.  The service itself is TunnelService's matter; here *)
(* a start or a re-application is one step.                                *)
(***************************************************************************)
EXTENDS RulePolicy

CONSTANTS
  Configs,    \* the UCI configurations
  EchoHosts,  \* the echo services diagnose tries, in its order
  Resolve,    \* the address a name resolves to
  Https,      \* the port of an HTTPS request
  Queries,    \* what a user asks check_domain about
  Slots,      \* how many calls of one button can be under way
  Budgets,    \* Budgets[c]: the bounds of the events, one choice for a behaviour
              \* that starts with the configuration c
  Installed,  \* the answer of the versions method
  Measured,   \* the answer of the ping and the probe method
  BoxLines,   \* how many lines the log page asks for ...
  ExportLines,\* ... and how many its export
  Failed      \* the answer of a call that is rejected

VARIABLES
  config, staged, records, service, bytes, carried, log, calls, view, budget

backend == <<config, staged, records, service, bytes, carried, log, budget>>

Boxes == {"diagnose", "domain", "ping", "probe"}
StatusCall == <<"status", 1>>
ServiceCall == <<"service", 1>>
UciCall == <<"uci", 1>>
RuleCall == <<"rule", 1>>
LogCall == <<"log", 1>>
VersionsCall == <<"versions", 1>>
Channels ==
  {StatusCall, ServiceCall, UciCall, RuleCall, LogCall, VersionsCall}
  \cup ((Boxes \cup {"export"}) \X Slots)

Views == {"status", "diagnostics", "tools", "log", "versions"}

\* What a budget bounds: the events behind the backend, the failures of
\* calls, the presses of buttons that call, and the visits of each page.
Events == {"stage", "commit", "service", "traffic", "write", "fault", "press"} \cup Views

Spend(kind) ==
  /\ budget[kind] > 0
  /\ budget' = [budget EXCEPT ![kind] = @ - 1]

\* uci-export: only an assigned profile that exists reaches the records, and
\* only with an active server.
Export(c) ==
  LET assigned == c.server /\ c.assigned # None
      found == assigned /\ c.profiles[c.assigned] # None
      p == IF found THEN c.profiles[c.assigned]
           ELSE [mode |-> "other", vpn |-> <<>>, bypass |-> <<>>]
  IN [proxy |-> c.proxy,
      profile |-> IF found THEN c.assigned ELSE None,
      mode |-> p.mode, vpn |-> p.vpn, bypass |-> p.bypass,
      direct |-> c.direct, router |-> c.router,
      server |-> c.server, listen |-> c.listen]

ASSUME BackendAssumption ==
  /\ \A c \in Configs : c.enabled \in BOOLEAN /\ Export(c) \in Records
  /\ Resolve \in [Names -> Addresses]
  /\ Https \in Ports
  /\ EchoHosts \in Seq(Names)
  /\ Budgets \in [Configs -> SUBSET [Events -> Nat]]
  /\ {BoxLines, ExportLines} \subseteq Nat \ {0}

Stopped == [running |-> FALSE, up |-> FALSE, wired |-> FALSE]
Dead == [running |-> FALSE, up |-> FALSE, wired |-> TRUE]
Connecting == [running |-> TRUE, up |-> FALSE, wired |-> TRUE]
Working == [running |-> TRUE, up |-> TRUE, wired |-> TRUE]

\* Whether a start gets as far as the client: gen-config wants a server, and
\* in tun mode `routing up` must load the ruleset.
CanStart(rec) == rec.server /\ (rec.proxy \/ RulesetLoads(rec))

\* A start installs the meter in proxy mode; in tun mode the counters are
\* those of a device the client has yet to create.
FreshBytes(rec) == IF rec.proxy THEN [rx |-> 0, tx |-> 0] ELSE None

\* A restart takes the routing down first, and a plain start that fails finds
\* none: what still stands was installed with the same settings.
StartWith(rec) ==
  /\ records' = rec
  /\ service' = IF CanStart(rec) THEN Connecting ELSE Stopped
  /\ bytes' = IF CanStart(rec) THEN FreshBytes(rec) ELSE None

-----------------------------------------------------------------------------
(* Behind the backend.                                                     *)

\* Saved on the settings page, in the session's delta only.
Stage ==
  /\ Spend("stage")
  /\ staged' \in Configs \ {staged}
  /\ UNCHANGED <<config, records, service, bytes, carried, log, calls, view>>

\* Save & Apply: committed, and applied by the reload trigger within a
\* second; a restart is the general case of it.  A service disabled for boot
\* is torn down before anything is exported, so the records stay.
Commit ==
  /\ Spend("commit")
  /\ staged # config
  /\ config' = staged
  /\ IF staged.enabled
       THEN StartWith(Export(staged))
       ELSE /\ service' = Stopped
            /\ bytes' = None
            /\ UNCHANGED records
  /\ UNCHANGED <<staged, carried, log, calls, view>>

\* The client comes up; its new device counts from zero.
Connect ==
  /\ service = Connecting
  /\ service' = Working
  /\ bytes' = IF records.proxy THEN bytes ELSE [rx |-> 0, tx |-> 0]
  /\ UNCHANGED <<config, staged, records, carried, log, calls, view, budget>>

\* The client loses its device, or ends and is respawned; the meter stays.
Drop ==
  /\ Spend("service")
  /\ service = Working
  /\ service' = Connecting
  /\ bytes' = IF records.proxy THEN bytes ELSE None
  /\ UNCHANGED <<config, staged, records, carried, log, calls, view>>

\* The client ends for good: procd gives up on it, and nobody takes the
\* routing down.
Die ==
  /\ Spend("service")
  /\ service.running
  /\ service' = Dead
  /\ bytes' = IF records.proxy THEN bytes ELSE None
  /\ UNCHANGED <<config, staged, records, carried, log, calls, view>>

\* Something is carried, in either direction.
Traffic(way) ==
  /\ Spend("traffic")
  /\ service.up /\ bytes # None
  /\ bytes' = [bytes EXCEPT ![way] = @ + 1]
  /\ carried' = [carried EXCEPT ![way] = @ + 1]
  /\ UNCHANGED <<config, staged, records, service, log, calls, view>>

\* The client or the service writes a line.
WriteLog ==
  /\ Spend("write")
  /\ log' = [log EXCEPT !.written = @ + 1]
  /\ UNCHANGED <<config, staged, records, service, bytes, carried, calls, view>>

\* The ring buffer drops its oldest lines, or all of them when the log
\* service is restarted.
LoseLines ==
  /\ Spend("write")
  /\ \E n \in (log.lost + 1) .. log.written : log' = [log EXCEPT !.lost = n]
  /\ UNCHANGED <<config, staged, records, service, bytes, carried, calls, view>>

World ==
  \/ Stage
  \/ Commit
  \/ Connect
  \/ Drop
  \/ Die
  \/ \E way \in {"rx", "tx"} : Traffic(way)
  \/ WriteLog
  \/ LoseLines

-----------------------------------------------------------------------------
(* The answers the pages only read.                                        *)

\* status: fields of the records, the service's state and the counters.  In
\* proxy mode the listener is looked for at proxy.address, so without one it
\* counts as down whatever the client bound.
Status ==
  [enabled |-> config.enabled, running |-> service.running,
   up |-> service.up /\ (records.proxy => records.listen),
   records |-> records, bytes |-> bytes, carried |-> carried]

Check(group, label, status) ==
  [group |-> group, label |-> label, status |-> status]

\* The first echo service a condition holds for, None without one.
FirstEcho(hosts) ==
  LET good == {i \in DOMAIN EchoHosts : EchoHosts[i] \in hosts} IN
  IF good = {} THEN None
  ELSE EchoHosts[CHOOSE i \in good : \A j \in good : i <= j]

\* The first bare name among the rules.
ProbeDomain(list) ==
  LET bare == {i \in DOMAIN list : list[i].kind = "name"} IN
  IF bare = {} THEN None
  ELSE list[CHOOSE i \in bare : \A j \in bare : i <= j].name

ListedNames(rec) == {n \in Names : Listed(Entries(EffectiveList(rec)), n)}

\* A slip in the choice of the probe: the first echo service, listed or not.
ProbeAnyTarget(rec) ==
  IF ProfileMode(rec) # "bypass" THEN FirstEcho(Names)
  ELSE IF FirstEcho(ListedNames(rec)) # None THEN FirstEcho(ListedNames(rec))
  ELSE ProbeDomain(rec.vpn)

\* What diagnose asks for through the tunnel to prove it: an echo service the
\* rules tunnel, or in bypass mode the first name they list.
ProbeTarget(rec) ==
  IF ProfileMode(rec) # "bypass" THEN FirstEcho(Names \ ListedNames(rec))
  ELSE IF FirstEcho(ListedNames(rec)) # None THEN FirstEcho(ListedNames(rec))
  ELSE ProbeDomain(rec.vpn)

\* The probe itself.  Its request enters the client, by the device or the
\* listener; an echo service's answer is compared with a plain request's,
\* which only include_router_traffic sends into the tunnel.
ProbeStatus(rec, net) ==
  LET n == ProbeTarget(rec)
      d == [name |-> n, addr |-> Resolve[n], port |-> Https]
      via == ClientTunnels(records, d)
      plain == ~records.proxy /\ records.router /\ service.up /\ Tunneled(records, d)
  IN IF n = None THEN "warn"
     ELSE IF ~net \/ ~service.up THEN "fail"
     ELSE IF n \notin Entries(EchoHosts) \/ via # plain THEN "ok"
     ELSE IF rec.router /\ ~rec.proxy THEN "ok"
     ELSE "fail"

\* The checks of diagnose, from the records and the kernel state read when
\* it began and the rest as it finds it at the end.
Checks(begun, net) ==
  LET rec == begun.records
      running == service.running
      ifRunning == IF running THEN "fail" ELSE "skip"
      mark(c, good, bad) == IF c THEN good ELSE bad
  IN {Check("config", "server", mark(rec.server, "ok", "fail")),
      Check("config", "profile", mark(rec.profile # None, "ok", "warn")),
      Check("prereq", "client", "ok"),
      Check("service", "enabled", mark(config.enabled, "ok", "warn")),
      Check("service", "running", mark(running, "ok", "fail"))}
     \cup (IF rec.proxy
            THEN {Check("kernel", "listener",
                    mark(running, mark(rec.listen /\ service.up, "ok", "fail"), "skip")),
                  Check("kernel", "meter",
                    mark(running, mark(begun.metered, "ok", "warn"), "skip"))}
            ELSE {Check("kernel", "device",
                    mark(begun.device, mark(service.up, "ok", "fail"), ifRunning)),
                  Check("kernel", "ruleset", mark(begun.ruleset, "ok", ifRunning))})
     \cup (IF rec.server
            THEN {Check("network", "server", mark(net, "ok", "fail"))} ELSE {})
     \cup (IF running /\ (IF rec.proxy THEN rec.listen ELSE begun.device)
            THEN {Check("network", "tunnel", ProbeStatus(rec, net))} ELSE {})

\* The verdict is that of the worst check.
VerdictOf(checks) ==
  IF \E c \in checks : c.status = "fail" THEN "fail"
  ELSE IF \E c \in checks : c.status = "warn" THEN "warn"
  ELSE "ok"

\* What diagnose reads first: the records and the helper's report.
Begun ==
  [records |-> records, device |-> ~records.proxy /\ service.up,
   ruleset |-> ~records.proxy /\ service.wired,
   metered |-> records.proxy /\ bytes # None]

\* steady: nothing moved meanwhile and the network works (no part of the
\* answer).
Diagnosis(begun, net) ==
  LET checks == Checks(begun, net) IN
  [checks |-> checks, verdict |-> VerdictOf(checks), records |-> begun.records,
   enabled |-> config.enabled, service |-> service,
   steady |-> begun = Begun /\ net]

-----------------------------------------------------------------------------
(* Calls: sent, for diagnose begun, answered; orphaned when the page that   *)
(* made it is left.                                                        *)

\* A channel without a call.
Idle == [arg |-> None, stage |-> "idle", value |-> None]

NoCalls == [ch \in Channels |-> Idle]

Free(ch) == calls[ch] = Idle
At(ch, stage) == calls[ch].stage = stage
Answer(ch) == calls[ch].value
Call(ch, arg) ==
  [calls EXCEPT ![ch] = [arg |-> arg, stage |-> "sent", value |-> None]]
Hung(ch) == [calls EXCEPT ![ch] = Idle]
Reply(ch, v) ==
  [calls EXCEPT ![ch] = [arg |-> @.arg, stage |-> "answered", value |-> v]]

ReadChannels ==
  {StatusCall, UciCall, RuleCall, LogCall, VersionsCall}
  \cup ({"domain", "ping", "probe", "export"} \X Slots)

\* logread | tail: the last n lines of those in the ring buffer.
LastLines(n) == {k \in (log.lost + 1) .. log.written : k + n > log.written}

\* check_domain's answer, with the records it was given from.
Verdict(q) == [verdict |-> CheckDomain(records, q), records |-> records]

ReadAnswer(ch) ==
  CASE ch = StatusCall -> Status
    [] ch = UciCall -> staged
    [] ch = RuleCall -> Verdict(calls[ch].arg)
    [] ch = LogCall -> LastLines(BoxLines)
    [] ch = VersionsCall -> Installed
    [] ch[1] = "domain" -> Verdict(calls[ch].arg)
    [] ch[1] = "export" -> LastLines(ExportLines)
    [] OTHER -> Measured

AnswerRead(ch) ==
  /\ At(ch, "sent")
  /\ calls' = Reply(ch, ReadAnswer(ch))
  /\ UNCHANGED <<backend, view>>

LogReads == {LogCall} \cup ({"export"} \X Slots)

\* The status of logread is not looked at: when it fails, the answer is that
\* there are no lines.
LogUnread(ch) ==
  /\ At(ch, "sent")
  /\ Spend("fault")
  /\ calls' = Reply(ch, {})
  /\ UNCHANGED <<config, staged, records, service, bytes, carried, log, view>>

\* diagnose takes up to half a minute: what it reads first is old by the end.
BeginDiagnose(ch) ==
  /\ At(ch, "sent")
  /\ calls' = [calls EXCEPT ![ch] = [arg |-> @.arg, stage |-> "begun", value |-> Begun]]
  /\ UNCHANGED <<backend, view>>

EndDiagnose(ch, net) ==
  /\ At(ch, "begun")
  /\ IF net THEN UNCHANGED budget ELSE Spend("fault")
  /\ calls' = Reply(ch, Diagnosis(Answer(ch), net))
  /\ UNCHANGED <<config, staged, records, service, bytes, carried, log, view>>

\* The start of a running service with nothing new to apply leaves the
\* client alone: procd compares the instance.  The meter is installed anew.
StartEffect ==
  LET rec == Export(config) IN
  IF service.running /\ rec = records /\ CanStart(rec)
    THEN /\ bytes' = IF rec.proxy THEN FreshBytes(rec) ELSE bytes
         /\ UNCHANGED <<records, service>>
    ELSE StartWith(rec)

StopEffect ==
  /\ service' = Stopped
  /\ bytes' = None
  /\ UNCHANGED records

\* A start counts only once the service answers "running".
ServiceReply(action) ==
  IF action = "start" /\ ~service'.running THEN "notrunning" ELSE "done"

\* service: the init script runs whether or not the answer gets back, or
\* anybody waits for it.
AnswerService(lost) ==
  /\ At(ServiceCall, "sent") \/ At(ServiceCall, "orphaned")
  /\ IF calls[ServiceCall].arg = "start" THEN StartEffect ELSE StopEffect
  /\ lost => At(ServiceCall, "sent")
  /\ IF lost THEN Spend("fault") ELSE UNCHANGED budget
  /\ calls' = IF At(ServiceCall, "orphaned") THEN Hung(ServiceCall)
              ELSE Reply(ServiceCall,
                     IF lost THEN Failed ELSE ServiceReply(calls[ServiceCall].arg))
  /\ UNCHANGED <<config, staged, carried, log, view>>

\* A call that never gets to the backend, or whose answer does not get back.
Fail(ch) ==
  /\ At(ch, "sent")
  /\ Spend("fault")
  /\ calls' = Reply(ch, Failed)
  /\ UNCHANGED <<config, staged, records, service, bytes, carried, log, view>>

Answers ==
  \/ \E ch \in ReadChannels : AnswerRead(ch)
  \/ \E ch \in LogReads : LogUnread(ch)
  \/ \E k \in Slots : BeginDiagnose(<<"diagnose", k>>)
  \/ \E k \in Slots, net \in BOOLEAN : EndDiagnose(<<"diagnose", k>>, net)
  \/ \E lost \in BOOLEAN : AnswerService(lost)
  \/ \E ch \in Channels : Fail(ch)

\* Entering a page; one page is open at a time.
Enter(page) ==
  /\ view = "none"
  /\ view' = page
  /\ Spend(page)
  /\ UNCHANGED <<config, staged, records, service, bytes, carried, log>>

\* Leaving a page: its calls are forgotten, but what the init script was
\* asked to do is still done.
Abandoned ==
  [NoCalls EXCEPT ![ServiceCall] =
     IF At(ServiceCall, "sent") \/ At(ServiceCall, "orphaned")
       THEN [arg |-> calls[ServiceCall].arg, stage |-> "orphaned", value |-> None]
     ELSE Idle]

BackendInit ==
  /\ config \in Configs
  /\ staged = config
  /\ records = Export(config)
  /\ service \in IF CanStart(records) THEN {Stopped, Connecting} ELSE {Stopped}
  /\ bytes = IF service.running THEN FreshBytes(records) ELSE None
  /\ carried = [rx |-> 0, tx |-> 0]
  /\ log = [written |-> 0, lost |-> 0]
  /\ calls = NoCalls
  /\ view = "none"
  /\ budget \in Budgets[config]

=============================================================================
