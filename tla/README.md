# A TLA+ model of TrustTunnel for OpenWrt

TrustTunnel for OpenWrt runs a closed tunnel client on a router.  The client
only creates a tun device (or a SOCKS listener); everything that makes traffic
go through it is shell code of this repository: an init script, a hotplug hook
and a routing helper that share kernel state, a few files and one user's
expectations.  They are written sequentially and run concurrently.  On top of
them sits a web interface, an rpcd backend and six pages of JavaScript, that
shows what the scripts do and edits what they read: its calls are slow, fail,
overlap and are answered late.  That is what this project models, checks with
TLC and proves with TLAPS.

Paths below are relative to the repository; `init` is
`packages/trusttunnel/root/etc/init.d/trusttunnel`, `hotplug` is
`packages/trusttunnel/root/etc/hotplug.d/net/40-trusttunnel`, `routing`,
`uci-export`, `gen-config`, `records.sh` and `tt-uci.sh` are in
`packages/trusttunnel/root/usr/libexec/trusttunnel/`, `backend` is
`packages/luci-app-trusttunnel/root/usr/share/rpcd/ucode/luci.trusttunnel`,
and `settings.js`, `status.js`, `log.js`, `versions.js`, `diagnostics.js`,
`tools.js` are the pages' views, in
`packages/luci-app-trusttunnel*/htdocs/luci-static/resources/view/trusttunnel/`.

## The system

| part | state it keeps | operations | talks to |
|---|---|---|---|
| UCI settings, `uci-export`, `gen-config` | `/etc/config/trusttunnel` (flash); `settings.tsv` and `client.toml` in `/var/etc/trusttunnel` (tmpfs) | commit; export; generate, or refuse | init runs both, every script reads the records |
| init script | the two files above, `tun_since`, the variables of one run (`_TT_KEEP_ROUTING`, `TT_START_NOW`) | start, stop, restart, reload (Save & Apply) | routing, procd |
| routing helper | nft table `inet trusttunnel`, fwmark rule, routes of one table, firewall zone binding (flash), `device` (tmpfs) | up, attach, reattach, detach, down, meter, status, dump | run by init and by hotplug, concurrently |
| hotplug hook | none of its own | one run per net event: attach on add, detach on remove | routing, `init.d running`, `tun_since`, `device` |
| procd | the instance, the reload and wan triggers | spawn, respawn, terminate, fire a trigger | the init script, the client |
| client | the configuration it has read, its tun device | create, drop and recreate the device, exit | the kernel; external to the repository |
| uci-defaults | zone, seed profile, migrations (flash) | one script at first boot and upgrade | UCI |
| rpcd backend | none; reads the records, UCI, procd, the kernel | status, service, check_domain, diagnose, ping, probe, log, versions, import_config | init (start, stop), records, UCI |
| Status page | the last painted status, `lastTraffic` of the script, the `uci` cache | load, poll every 10 s, Start, Stop, rule preview | backend, UCI |
| Settings page | form, `uci` cache with its delta, what `render` computed once | edit, validate, add, delete, import, preview, save, apply | backend (import), UCI |
| Client log, Versions | the text in the box | load, poll every 10 s, export | backend |
| Diagnostics, Tools | a box per button, `lastDiagnose` of the script | run checks, copy report, check a domain, ping, probe | backend |
| install.sh, uninstall.sh | none | stop, replace packages, start | init, uci-defaults |

### What is hard

* *Two processes, no lock between them.*  rc.common serialises the runs of the
  init script, netifd serialises hotplug events, nothing serialises the one
  against the other: `up`, `attach`, `detach` and `down` interleave command by
  command, each with the settings its process read when it started.
* *Asynchronous actors.*  procd forks after the init script has gone on, the
  client creates its device some time after that, a remove event arrives after
  the device has been replaced by one of the same name.
* *A restart that must not open a hole.*  For client-only changes init keeps
  the routing across stop and start (`_TT_KEEP_ROUTING`), and must take it down
  after all when the start aborts.
* *The cheapest sufficient action.*  Save & Apply compares records and picks
  noop, reload, restart or full restart; too cheap a pick leaves settings
  displayed and not in effect.
* *State of different lifetimes.*  The zone binding and UCI survive a power
  loss, the records, the device record and the kernel state do not.
* *Partial failure.*  gen-config refuses after the records were replaced, nft
  fails after the rule was added, the route is refused after the blackhole was
  armed.

* *Answers that are old when they are used.*  A page paints what a call brought;
  by then the service may have been stopped, reconfigured or reconnected.
  `diagnose` itself reads the state first and probes up to half a minute later.
  A button that returns no promise can be pressed again while its call is under
  way, and the answers come in any order.
* *One question, six answers.*  What an absent or unknown profile means, and
  what a rule covers, is decided in `gen-config`, `routing`, the banner, the
  Mode row, `check_domain` and `diagnose`, each with code of its own.
* *A cache between the form and the settings.*  The validators of the Settings
  page read the `uci` cache, and one of them writes it on every key; saves that
  fail leave their edits in it; sections are added and deleted at once; what
  `render` computed stays for the life of the document.
* *Counters that start anew* on a reconnect or a start, between any two polls.

`PROJECT.json` lists the hazards with their lines; each names the properties
that catch it or says why none does yet.

### What makes each part correct

* *Routing and the scripts around it*: with `blackhole_on_down=1` selected
  traffic is never sent out directly once the routing is up; in the fail-open
  mode it is not dropped without a device; a stopped service diverts nothing;
  the route, the zone and the record name one device; a foreign device does not
  get the tunnel.
* *Save & Apply*: committed settings take effect, and nothing of the former
  ones stays in force.
* *Rules*: kernel and client together tunnel exactly the connections the
  settings page and the README say; the verdicts of `check_domain`, the banner
  and the preview are about that.
* *Read-only pages*: what is shown was true of one state of the backend; a poll
  that fails costs nothing, an error takes its spinner with it, no older answer
  replaces a newer one where order matters, a page left open catches up.
* *Settings page*: the selection goes on naming a server, names stay unique, an
  import touches its own server, the credentials of the proxy come in pairs,
  the preview is of the profile in force.
* *Defaults, lifecycle* (not modelled): migrations are idempotent, an install
  gives a running service back.

## The modules

| module | models |
|---|---|
| `Settings` | UCI settings, records and `client.toml` reduced to what the scripts branch on; the class of a difference (`ClassOf`) |
| `Routing` | the kernel and firewall state and the helper's commands (EXTENDS Settings) |
| `TunnelService` | init, hotplug, procd, client, devices, administrator: the composition, one action per uninterrupted group of commands (EXTENDS Routing) |
| `Killswitch` | the abstract specification of `blackhole_on_down=1` |
| `RecordDiff` | Save & Apply's decision line by line: the records uci-export writes, the awk program of `diff_keys`, `class_for_key`, the certificate (EXTENDS Settings) |
| `RulePolicy` | the forms of rules, `strip_port`/`rule_kind`/`has_domains`, the ruleset's selection, `vpn_mode` and the exclusions, the client's matching, what `check_domain` and the documentation say of it |
| `Backend` | the backend's answers and what goes on behind them: edits, commits, starts, reconnects, counters, the log; calls that are sent, answered, lost (EXTENDS RulePolicy) |
| `StatusPage`, `ToolPages`, `LogPages` | the pages' handlers (each EXTENDS Backend) |
| `WebPages` | the composition of the three over one backend, and what they promise |
| `SettingsPage` | the form, its validators, the cache and the saves |
| `MCTunnelService`, `MCRecordDiff`, `MCWebPages`, `MCSettingsPage` | instances and budgets for TLC |
| `TunnelService_proofs` | type correctness; older devices stay out |
| `TunnelSafety_proofs` | the killswitch refinement, the stopped service, one table and one mode in force, route and zone and record agree |
| `RecordDiff_proofs` | `diff_keys` finds what differs, the dearest difference decides, the class suffices |
| `RulePolicy_proofs` | the rules do what is promised; the verdict on a name |
| `WebPages_proofs` | what every step does to the backend and to the calls; types, spinners |
| `StatusPage_proofs` | the banner, the rates, the preview |
| `ToolPages_proofs` | the Check a domain tool, the diagnosis, its report |
| `SettingsPage_proofs` | types, the selection, the names, imports, the preview, the credentials |

**State.**  `ifindex`, `nft`, `rules`, `route`, `hole`, `zone`, `device` are
what `ip`, `nft`, `uci firewall` and the file `device` hold; `hole` is the set
of tables with a blackhole default route.  `uci`, `records`, `toml`, `since`
are the settings and the files.  `pc`, `arg`, `dev` give each process its
place, the settings its routing helper has loaded (`routing:73-76`) and its
device; `run` is the set of flags of a run of init.  `svc`, `client`, `loaded`,
`trigger` are procd and the client, `ours` and `lastIndex` the devices,
`events` netifd's queue.  `chance` counts down the bounds.

**Settings.**  A setting is `[enabled, proxy, strict, table, client]`.  `table`
stands for the pair `network.table` / `network.fwmark`, `client` for all that
ends up in `client.toml` only, a certificate included.  `lan_devices`,
`include_router_traffic` and the rules change the contents of the ruleset and
nothing the scripts branch on.  Clients in `Broken` are the ones gen-config
refuses.

`TunnelService` takes the class of a difference as `ClassOf` of two settings.
`RecordDiff` justifies that: it works on the lines of two files, reads them as
the awk program does (telling the files apart by `NR == FNR`, which fails for
an empty first one), and checks that the class reached is never below
`ClassOf` of the settings the scripts read from these lines, defaults
included.  It may be above, as for a table that is unset in one file and set to
the default in the other.

**Atomicity.**  An action is a group of commands between two of which the other
process sees no difference.  `up` is two actions (rule and blackhole, then the
nft transaction), `attach` four (blackhole, route, zone, record), `detach`
three, `down` four; `tun_since` is removed in one and the instance dropped in
another.  IPv4 and IPv6 commands go in pairs.  `regen_config` is one action: the
hook reads nothing it writes but the records, which are replaced by a rename.

**Outcomes left open.**  `init.d running` may answer either way while a client
is on its way out.  `attach_client_tun` gives up after ten polls, however long
the client takes.  Any of several fresh devices may be the first listed.  A
reload under way when `procd_kill` runs survives or not.  A tool may fail
(`fault`): export, CA bundle, nft, meter, zone sync, or the route through a
device that is not up yet.

**Two simplifications to know about.**  A failing `ip rule add` or `uci
commit` on the way *down* is not modelled, since the helper ignores it.  A
device is either there or not; that it exists and is not up yet shows as the
fault of `AttachRoute`.

### The web interface

**Rules.**  A rule is one of five forms: a name, `*.name`, an address or
network, `IP:port`, `*:port`.  A connection has a sniffed name or none, an
address and a port.  `KernelMarks` is the prerouting chain that `emit_ruleset`
writes, `ClientTunnels` the client's reading of `vpn_mode` and `exclusions`;
`Tunneled` needs both in tun mode.  `Promised` is the settings page's and the
README's wording.  They differ in two ways that the code is known for, named in
the properties' premises: a `*:port` rule that reaches the kernel fails the
whole ruleset, and an `IP:port` bypass rule bypasses all ports of its address
(`AtTheirWord`).

**Calls.**  Every place in the pages that can have a call under way is a
channel; the boxes and the log's export have one per entry of `Slots`, as their
buttons are not disabled.  A call is *sent*, for `diagnose` *begun*, then
*answered*; `Fail` is a rejection, `AnswerService(TRUE)` an action that was
carried out and whose answer was lost.  Leaving a page forgets its calls, but
the init script still does what it was asked to (`orphaned`).

**The backend** has the committed and the session's configuration, the records
of the last export, whether the service runs and is connected, the counters and
the log.  The log is the ring buffer of the log service: numbered lines of which
the oldest, or all, may be dropped (`LoseLines`), and an answer is the last
`BoxLines` or `ExportLines` of them (`logread | tail -n`).  The backend does not
look at the status of `logread` (`backend:618-621`), so a failed read is a
successful answer without lines (`LogUnread`), which the page paints.
`service` tells a service that is stopped from one whose client has died for
good (`Dead`): there the table and the rule stand (`wired`), and `diagnose`
finds them.  A start, a restart or a re-application is one step here; their
inner life is `TunnelService`'s.  `carried` and `steady` are not
part of the program: they count what was really transferred and note that
nothing moved during a diagnosis.

**The pages** keep what the scripts keep: `status`, `box`, `logPage`,
`versions` what is painted, `lastTraffic`, `lastDiagnose` and `cache` what
outlives a view in the same document.

**The Settings page.**  `page` is the `uci` cache, `loaded` what the form was
rendered from, `form` the fields, `view` what `render` keeps for good.  A save
writes every valid field that differs from `loaded` into the cache and stages
the cache only if all are valid: a failed or invalid save leaves its edits in
the cache, for the next save, deletion or import to stage.  The form framework
is external and modelled from its use.  `moves` counts what was changed since
the document was loaded and is not part of the page.

## The runs

`recorddiff` uses `MCRecordDiff`, `pages` `MCWebPages`, `settings`, `staleactive`
and `credentials` `MCSettingsPage`, the others `MCTunnelService`, where `Budget`
bounds how often the environment acts (commands, commits, faults, crashes,
reconnects, foreign devices, power losses) and `MaxIndex` the interfaces ever
created; there is no other bound.
Deadlock is off in all but the Settings page's runs because a settled router
with an empty budget stops; the Settings page can always be loaded again.

| run | instance | shows |
|---|---|---|
| `concurrency` | strict settings (two clients, one refused), 2 names, 2 commands, a commit at any moment, a fault, a crash, `start` on a running service | `TypeOK`; `ImplementsKillswitch`: marked traffic is tunneled or dropped at every step; `StoppedIsInert` |
| `edits` | one setting of each class, 2 tables, 1 name; either 1 command and 2 commits, or 2 commands, a crash, a reconnect and a power loss in either blackhole mode; fairness | `OnlyAppliedTable`, `ModesExclusive`; `AttachmentAgrees` when settled; `SettingsTakeEffect`, `EventuallyAttached` |
| `bystander` | both blackhole modes and the proxy mode, a foreign device with and without IFF_PERSIST, a fault, a crash, a reconnect | `NoOlderDevice` |
| `recorddiff` | all pairs of 53 committed states: each of the 31 keys changed or unset, lists reordered, shortened, with repeated entries, several keys at once, nothing set, with and without a certificate | `DiffIsExact`, `DearestDecides`, `NeverTooCheap` |
| `pages` | seven configurations (VPN and bypass profile, proxy without a profile, a malformed list, an echo service in the list, addresses only, an unknown mode), ten budgets | `StatusTellsTruth`, `PreviewTellsTruth`, `DomainTellsTruth`, `DiagnosisTellsTruth`, `ReportIsComplete`, `NoOrphanSpinner`, `RateIsOfLastInterval`, `TypeOK`; the liveness properties `StatusCatchesUp`, `LogCatchesUp`, `EverySpinnerEnds` |
| `settings` | three server and two profile sections, three names, four configurations to start from, eight budgets | `SelectionKept`, `NamesStayUnique`, `ImportConfined`, `PreviewIsInForce`, `TypeOK`; `ImportComesBack` |
| `staleactive` | a rename and a deletion in one document | finding: `SelectionNeverLost` is violated |
| `credentials` | an open proxy, three edits of its fields | finding: `PairTakenWhole` is violated |
| `failopen` | fail-open only | finding: `FailOpenArmedOnlyAttached` is violated |
| `lostedit` | two commits, at any moment | finding: `SettingsTakeEffect` is violated |
| `disarmed` | both blackhole modes, 1 command, 2 commits in order | finding: `ArmedWhileAttached` is violated |
| `foreign` | fail-open, a foreign device | finding: `OnlyOursAttached` is violated |

**Why the bounds are enough.**  Each hazard the runs are for needs few actors:
one run of init, one hook event in flight and one change of the device.  Two
commands give a restart and a second one, or a restart and a stop, overlapping
with the events of a device that went; two names give a device that changes its
name as well as one that keeps it; `edits` has one name because a device
that comes back under the *same* name is the difficult case there (its remove
event names the new one).  `MaxIndex` 3 or 4 lets the client create two or
three devices.  `edits` commits twice because the second change is compared
with what the first one left.  Its behaviours start with one of two budgets,
edits of a service left alone or reconnects of one left unedited (`EditsInit`);
the edits alone already bring restarts, a start that is refused, a changed
device under the old name and its late events.  The theorems hold
for any `Budget`, and so for the behaviours of either.  Every property is known
to fail for a plausible slip in the code within these bounds; the slips stand
next to the definitions they change.

**FreeCommits and FreeStarts.**  A commit while init runs, and `start` on a
service that is running, are both things an administrator can do, and both
break a property: the first one `SettingsTakeEffect` (the finding `lostedit`),
the second `OnlyAppliedTable` (`up` with a new table does not know the old
rule).  `edits`, `bystander` and `disarmed` leave them out, `concurrency` has
both.  The theorems hold with both, except those whose hypotheses say
otherwise (`Orderly`, `~FreeStarts`).

**The bounds of `pages` and `settings`.**  A behaviour starts from one
configuration with one of its budgets (`SomeBudgets`), each a scenario: what may
happen behind the backend, how many presses, visits and failures.  `Slots` has
two members, so two calls of one button overlap and are answered in either
order.  Two visits of a page show what outlives a view; three bytes of traffic
with one interruption of the service let a counter start anew below, at and above the baseline; a
`stage` with a `commit` moves the settings between any two answers of a preview
or a diagnosis.  Destinations are all combinations of three names (one the
parent of another, one an echo service), three addresses of both families and
two ports.  For the Settings page a scenario is two or three changes of the
kinds that interact.  Larger sets of budgets (twice the presses, faults and
visits, all kinds mixed, up to 300 000 states) were run as well and showed
nothing more, with one exception that changed a property: `ImportConfined` says
nothing of what an import does to other fields, because an import stages
whatever an earlier failed save left in the cache.

**What the premises leave out.**  The torn cases are reachable, and the
properties say where they promise nothing: a preview whose three sources are of
different settings, a diagnosis during which something moved, a tun-mode
diagnosis without a profile (which fails for a healthy router), two changes of
names or sections in one document (`OneChange`).

With two names `AttachmentAgrees` does not hold when the init script and the
hook attach two *different* devices at the same time; the comment at
`routing:486-489` expects the race and promises only that no half-written
name is read.  It is checked with one name.

### Fairness

`FairSpec` adds weak fairness to: each process (a shell script runs on),
`FireTrigger` (procd delivers a reload once the lock is free), `Spawn`
(respawn without a limit: `respawn 3600 5 0`), `Exit` (a client told to
terminate does, procd kills it otherwise) and `CreateSomeTun` (a client that is
up gets its device).  Nothing is assumed of commands, commits, faults, crashes,
reconnects or foreign devices.  `EventuallyAttached` therefore speaks of a
client that stays up with its device, and `SettingsTakeEffect` excuses a
service that was stopped on purpose (`StaysStopped`: not registered, and no
script running).  Being stopped in the middle of a restart is no excuse: the
start that follows has to bring the committed settings into force, or, when
they are disabled or refused, to leave nothing in the kernel.

`WebPages!FairSpec` adds weak fairness to the answers that come (`StatusAnswer`,
`LogAnswer`, `OtherAnswer`: rpcd answers, or the browser's timeout rejects the
call, which is `Fail`), to `Settle` (the page's promise handlers run once an
answer is in) and to `StatusPoll` and `LogPoll` (the poll loop's timer).  None
of presses, visits, failures or of the world.  `SettingsPage!FairSpec` assumes
that an import's call is answered and that the reload it announces happens
(`settings.js:219-225`, a timer).

### The findings

* `failopen`: `attach` checks the link (`routing:465`), arms the blackhole
  (`routing:475`), and returns when the route is refused (`routing:480`).  A
  device that dies in between leaves the blackhole without a device, a record
  or an event that would remove it, contrary to the comment at
  `routing:470-474`.
* `lostedit`: the class is chosen from one export (`init:399`), the settings
  applied are another (`init:52`).
* `staleactive`: the validator of a server's name moves `main.endpoint` in the
  cache with every valid name typed (`settings.js:501`), before the section is
  renamed; the guard of the delete button (`settings.js:472`) compares the
  stored name with the moved selection and lets the active server go, contrary
  to `settings.js:462-464`.
* `credentials`: the user name is validated against the *stored* password and
  the password against the stored user name (`settings.js:680`, `693`).  Typed
  together into an open proxy, both are refused, so authentication cannot be
  turned on from the page, and a listener outside the loopback, which demands
  the pair (`settings.js:664`), cannot be set at all; `README.md:144-145`
  offers "optional user/pass authentication (set both or neither)".
  `CredentialsStayOff` proves it for every sequence of edits.  The same rule
  fails in the other direction, in states this run does not need: an empty value
  is always valid (`settings.js:677-678`), so of a stored pair one half can be
  cleared alone, contrary to `settings.js:670-672`.
* `disarmed`: the hook has added the route of the device and not yet written
  its record when an edit from strict to fail-open is applied.  `up` removes the
  blackhole (`routing:407-409`); `reattach`, which is to arm it again, finds no
  record and succeeds (`routing:499-503`); the hook then records the device,
  which is attached with no blackhole behind it.  `README.md:326-328` says it
  is armed while a device is attached.  The other direction fails too: a
  detach of the hook that has loaded the fail-open records removes the blackhole
  that the `up` of the restart to strict has just armed (`routing:76`,
  `routing:518-521`).  TLC shows it when the property is restricted to strict
  settings; the run stops at the shorter of the two.
* `foreign`: a foreign tun device created between the snapshot and the client's
  device is attached; `hotplug:8-11` and `init:146-149` say it is told apart.

Further disagreements met on the way, without a run of their own:

* a failed `logread` is answered with no lines (`backend:618-621`) and empties
  the box of the Client log page until the next poll, although `log.js:63-64`
  says "A failed poll leaves the last content untouched";
* `*:port` passes the page and fails the whole nft transaction, although
  `routing:434-435` says that a malformed entry cannot;
* `validateRule` (`settings.js:760`) takes one parameter and is called with the
  section's id first: rules are never validated;
* with two servers of one name the page takes the first, the scripts the last;
* renaming or deleting a profile leaves the servers' `routing_profile` behind,
  and their traffic goes out directly;
* an import does not wait for its save, and closing its dialog does not call it
  off;
* `check_domain` compares a `*.domain` entry literally, the client and
  `diagnose` match its subdomains;
* an unset `proxy.address` counts as not listening;
* a bypass network or a `*:port` rule that covers an echo host makes
  `diagnose` fail on a healthy router (it looks at names only);
* a rate whose counter started anew and passed the old baseline within one
  interval is shown too low, as nothing tells the page of the reset;
* Start and Stop do not refresh the status: the banner is up to ten seconds old;
* `versions.js` speaks of 'unavailable' and renders 'not installed';
* Save & Apply with the service disabled for boot leaves the former records,
  from which the pages go on answering.

## The proofs

All theorems hold for every value of the constants under the assumptions
in `Settings`, `Routing`, `TunnelService`, `RecordDiff`, `RulePolicy`,
`Backend`, `WebPages` and `SettingsPage`.  These say only what shape the
constants have: settings are settings, a committed state has lists of values,
`None` and `Metered` are not tables, devices, answers of the backend, names or
sections, names resolve to addresses, every configuration exports to records, a
configuration the page is loaded from has no section twice (UCI names sections
uniquely).  Every other hypothesis stands in the theorem.  All invariants were
model-checked on the instances above before they were proved.

### The scripts

* `TypeCorrect == Spec => []TypeOK`.  `TypeOK` is not inductive: `Down` loads
  `records`, which must not be `None`.  `TypeInv` adds `Working`: the records
  exist at the labels that read them and while the hook is busy, and a helper
  has its settings loaded at the labels that use them.
* `StrictKillswitch == StrictTun => (Spec => ImplementsKillswitch)`, where
  `StrictTun` says that all committable settings are strict and in tun mode.
  The invariant `StrictInv` is `Provenance` (whatever settings a script or file
  holds came from `Configs`) and `Sheltered` (a table traffic is marked for has
  its blackhole, except inside `down`, after the marks are gone, and a keep
  restart never stands at `down`).  Each step then maps to an
  `Engage`, `Shift`, `Release`, `Keep` or `PowerLoss` step of `Killswitch`, or
  to a stutter.
* `StoppedInert == OneTable => (Spec => []StoppedIsInert)`.  The invariant
  `StoppingInv` follows a run of init from `down` to `kill` and says that
  nothing marks traffic in between; only init installs marks.  With several
  tables the theorem is false: `start` on a running service with another table
  leaves a rule that `down` does not know.
* `OneTableInForce`, `OneModeInForce`, `StoppedInertTables`: `Orderly` (commits
  only when the former one has taken effect, `start` only on a stopped service)
  implies that, as long as no tool has failed (`NoFaultYet`),
  `OnlyAppliedTable`, `ModesExclusive` and `StoppedIsInert` hold with any number
  of tables.  The three are one invariant, `AppliedInv`: the marks and rules
  there are belong to the applied records at *every* step (`OnlyApplied`), a
  start that keeps nothing begins with nothing (`TakenDown`), and one that keeps
  the routing or re-applies it is for the same table and mode (`SameTable`),
  since another table or mode is of the class `restart_full`.  `Stages` says
  which part of the script each flag belongs to.  The half about the marks,
  `MarksFollowRecords == Orderly => (Spec => []MarksApplied)`, needs no premise
  about faults.
* `OlderStaysOut == ASSUME Budget["commit"] = 0, ~FreeStarts PROVE Spec /\
  []~Overtaken => []NoOlderDevice`.  `AgeInv` says that every route leads to a
  device newer than the snapshot of `tun_since` (`RoutesNewer`), that the
  processes at attach work on such a device or have none (`WorksOnNewer`), that
  from the flush of the table to the next instance there is no route
  (`Detached`); a new snapshot is therefore taken while nothing is attached.
  `Overtaken` is the state in which the hook is between its comparison with the
  snapshot and the route it adds while init has a restart under way: the scripts
  do not close it, and TLC finds `NoOlderDevice` violated through it.
  `FirstRunKeepsOlderOut` shows that with a single command after boot, the
  instance of the run `bystander`, `Overtaken` cannot arise (invariant
  `Single`), so that `[]NoOlderDevice` holds without the premise.
* `OneRecord == Orderly /\ OneName => (Spec => [](Undisturbed =>
  AttachmentAgrees))`: the invariant `AgreeInv` has five parts beside
  `AppliedInv`.  `Supervised`: the only device is the client's, and a
  start begins without a client.  `Followed`: the client runs in the mode of the
  records and its device is newer than the snapshot, so the hook will not refuse
  it.
  `LastEvent`: the last event in the queue tells whether there is a device.
  `InHand`: while the device is there and its events are consumed (`Quiet`) the
  hook is not on its way to detach it, and a process at the route holds the
  applied table.  `Agreeing`: a device recorded, or about to be, has the route
  and then the zone, unless the hook is about to attach it or a stop is on its
  way.  So a detach for a remove event that is late can take the route from
  under an attach of init, but an add event is then still to come, and the hook
  does it again.

### Save & Apply

* `DiffExact == Spec => []DiffIsExact` (of `RecordDiff`).  The file of a
  committed state is laid out in blocks, one for each key of `KeyOrder`
  (`DiffInv`, `Seen`): after any number of lines awk holds, of every key, a
  prefix of its values, and after the last one all of them; so with two
  non-empty files the lists compared are those of the two states.  After an
  empty file `NR == FNR` still holds in the next, and what is read goes to the
  list of the first: the lists are exchanged, which the comparison does not
  notice.  `FlattenSeq` is a fold over sequences of any length.  What holds of
  the first `m` blocks or lines is shown for every `m` by way of the least one
  for which it would fail (`AllUpTo`): this form of induction speaks of a set
  of numbers and takes no operator as a parameter.
* `DearestDifference == Spec => []DearestDecides`.  The
  invariant follows the keys already looked at: the class is as dear as each of
  theirs and is one of them, or noop; lemma `MaxClassIsMax` carries the step.
* `ClassSuffices == Spec => []NeverTooCheap`, from these two: if `ClassOf` of
  the settings read from two states is not noop, then one of the keys that are
  read into the field that differs has other values (`SingleKeys`,
  `ClientKeysRestart`), and `ClassForKey` of that key is as dear
  (`CheapestSuffices`).

### The rules

* `PolicyEnforced` (of `RulePolicy`): whatever the rules, `Tunneled` is `Promised`
  for every connection for which the rules can be taken at their word.  The
  lemmas follow a rule through `strip_port` and `rule_kind`: a literal of one
  family holds exactly the addresses of a rule of that family (`LiteralHolds`,
  `LiteralStems`), a list has domains iff some rule is a name
  (`DomainsAreNames`), so the kernel marks all that the client is to tunnel
  (`VpnMarks`, `BypassMarks`), and the client decides.
* `DomainVerdict`: over lists of bare names `check_domain` answers `Tunneled`.

### The pages that show

The theorems share one argument.  `StepMoves` says what any
step does to the backend's types, to the counters and to a call: nothing,
forget it, send it, or answer it with what the backend reads at that moment.
`AnswersInv` says that an answer in flight was right when it was made, and
`AnswersStayGood` that no later step takes this away.  A page shows only
answers; so

* `StatusTruth == Spec => []StatusTellsTruth`: the painted status is one with
  proper records, for which `PolicyEnforced` gives the words their meaning;
* `RateTruth == Spec => RateIsOfLastInterval`: counters are compared with
  what was carried by `Ahead(b1, c1, b2, c2)` (between two moments the
  counters gained at most what was carried, also across resets), which holds
  from the painted status to the call in flight and from there to the
  backend;
* `PreviewTruth == Spec => []PreviewTellsTruth`: the rows shown are a prefix
  of the rules, each with a verdict that was `CheckDomain` of the records
  noted with it;
* `DomainTruth == Queries \subseteq {NamedRule(n) : n \in Names} => (Spec =>
  []DomainTellsTruth)`: users are assumed to ask about host names; a
  question of the form `*.name` is compared as a text;
* `DiagnosisTruth == Spec => []DiagnosisTellsTruth`: `DownIsReported` finds the
  failing check; `UpIsReported` shows that none fails, which turns on
  `ProbeIsTunneled`: the host the probe asks for is one the rules tunnel.
  (That the first of some positions exists comes from the library's
  theorem that strict inclusion of finite sets is well-founded.)
* `SpinnersAreAwaited == Spec => []NoOrphanSpinner`: `SpinnerInv` says which
  call each waiting element waits for (`StatusWaits`, `ToolsWait`, `LogWaits`)
  and that the calls of the boxes and of the export belong to the page that is
  open, the closed ones showing nothing;
* `PagesTyped == Spec => []TypeOK`: `TypesInv` adds to it that every answer in
  flight is an answer of its channel (`CallTypes`);
* `ReportTruth == Spec => []ReportIsComplete`: the verdict of an answer in
  flight is that of its own checks (`VerdictIsOfChecks`), and the box, the
  report and `lastDiagnose` change together (`ReportOfScreen`).

### The Settings page

* `SettingsPageTyped == Spec => []TypeOK`; `TypeInv` adds the types of what
  `render` computed.  It is more than types: no list has a section twice.
* `PreviewInForce == Spec => []PreviewIsInForce`: `view` comes from what the
  document was loaded with, and stays with it.
* `SelectionFollows == Spec => SelectionKept`, `NamesKeptApart == Spec =>
  NamesStayUnique`, `ImportsConfined == Spec => ImportConfined`.  The invariant
  `FollowInv` speaks of a document with no change yet (`Fresh`: cache, form and
  stored configuration are alike up to the fields without a meaning for names,
  and the picker shows the selection or nothing) and of one with a single change
  (`MovedOnce`: at most one section of each kind was retyped, and either the
  form blocks the save, or what a save would write has a server by the name it
  selects).  The lemmas
  `SaveFresh`, `SaveMoved` and those before them follow one save through
  `FollowRename`, `Rewritten` and `Selects`.
* `CredentialsStayOff == Spec => NoCredentialsFromScratch`: from stored settings
  without credentials none are ever stored.  This is the defect `credentials`
  finds, for sessions of any length, and not a promise of the page; no run
  checks it.  The invariant `CredInv`: while the session's configuration has
  neither half the cache has neither; then neither field is ever valid.

### What is only model-checked

The six liveness properties, `EventuallyAttached`, `SettingsTakeEffect`,
`StatusCatchesUp`, `LogCatchesUp`, `EverySpinnerEnds` and `ImportComesBack`, and
the six properties the findings violate (`SettingsTakeEffect` is one of both).  TLAPS 1.4.5 proves neither liveness
under fairness nor ENABLED, and it has no induction theorem that its provers can
instantiate with an operator (for sets of numbers `AllUpTo` does instead).  All
invariants and action properties of the passing runs are proved, some under
hypotheses that are stated above and reasons that are given next.

**Limits of the theorems about table, mode and attachment.**  Each hypothesis
is there because TLC shows a counterexample without it.

* *No tool has failed.*  `routing up` adds the rule before the nft
  transaction; when that fails, the rule stays, and the next start, with another
  table or in the proxy mode, does not know it: `OnlyAppliedTable` and
  `ModesExclusive` fail.  For `AttachmentAgrees` a failed zone sync or a refused
  route is enough: the device is recorded all the same, or stays so.
* *Orderly.*  `start` on a running service takes a new snapshot of the devices
  with the client's among them, so that the hook refuses a device that has just
  reconnected; and with another table it leaves the old rule.  A commit while
  init runs is `lostedit`.
* *No foreign device* (`OneRecord`).  The client's device dies while init
  attaches it, another one takes its name, and init records that one, which has
  no route.
* *One name* (`OneRecord`): the last paragraph on the bounds.

**Limit of `StrictKillswitch`.**  With the proxy mode among the settings it
does not hold: a commit of the proxy mode during a keep-routing restart is
picked up by `regen_config`, the start goes on as a proxy start, and the meter
replaces the marks in the middle of the handshake.  That is the same race as
`lostedit`.

## Not modelled

* *First boot and upgrade* (`uci-defaults/40-luci-trusttunnel`) and the
  *installer*: sequential scripts that run alone; the hazards between their
  commits are listed without a property.
* *The resolution of endpoint names* and the endpoint sets of the ruleset; the
  order of `nft add element` after the transaction.  Waiting for the clock and
  the default route changes no state.
* *Of the Settings page*: the text formats of single fields (a rule is one of
  its forms), the Test connection dialog (a call and its answer), the checks
  of the preview (the same as the Status page's), the order of profiles.
* *Of the backend*: `import_config`'s parser is reduced to its outcomes, ping,
  probe and versions to calls with an answer, the checks of `diagnose` to those
  the state decides.
* *Between the halves*: `Backend` takes a start or a re-application as one step.
  What the pages would show in the middle of a keep-routing restart is not
  modelled; `TunnelService` in place of it is out of TLC's reach together with
  the pages' calls.
* *Hazards without a property* are listed in `PROJECT.json` with the reason: a
  start on a running service after its table was edited, the endpoint's own
  traffic before the endpoint sets are filled, a device that is not up when it
  is attached, the ports of a bypass rule, rules the page does not validate,
  what `check_domain` makes of `*.name`, a diagnosis during which something
  moved or without a profile, a preview after an unapplied save, Save & Apply
  with the service disabled, and the two scripts above.
* Wording and layout, packaging, continuous integration, the package feed, the
  tests.

## Plan

1. *Core* (done): `Settings`, `Routing`, `TunnelService`, `Killswitch`.
2. *Save & Apply's decision* (done): `RecordDiff`.
3. *Rules* (done): `RulePolicy` and its theorems.
4. *The pages* (done): `Backend`, `StatusPage`, `ToolPages`, `LogPages`, `WebPages`
   and their theorems; `SettingsPage`, which includes the resolution of servers
   and profiles by name.
5. `Defaults`: uci-defaults with a power loss between any two commits; running
   it again gives the same result as running it once.
6. `Lifecycle`: install and uninstall around the service, composed with
   `TunnelService`.
7. An abstract service between `Backend` and `TunnelService`: the steps `Connect`,
   `Drop`, `Die` and `StartWith` of the one as a refinement of the other.
8. *Proofs* (done for every invariant and action property that a passing run
   checks); open are the refinement of item 7 and a form of `AttachmentAgrees`
   for two names.
