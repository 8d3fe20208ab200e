------------------------------ MODULE WebPages ------------------------------
(***************************************************************************)
(* The read-only pages of the web interface over one backend, and what     *)
(* they promise together.  One page is open at a time.                     *)
(***************************************************************************)
EXTENDS StatusPage, ToolPages, LogPages

vars == <<backend, calls, view, statusPage, toolPages, logPages>>

Init == BackendInit /\ StatusInit /\ ToolInit /\ LogInit

Next ==
  \/ (World \/ Answers) /\ UNCHANGED <<statusPage, toolPages, logPages>>
  \/ StatusStep /\ UNCHANGED <<toolPages, logPages>>
  \/ ToolStep /\ UNCHANGED <<statusPage, logPages>>
  \/ LogStep /\ UNCHANGED <<statusPage, toolPages>>

Spec == Init /\ [][Next]_vars

StatusAnswer == AnswerRead(StatusCall) /\ UNCHANGED <<statusPage, toolPages, logPages>>
LogAnswer == AnswerRead(LogCall) /\ UNCHANGED <<statusPage, toolPages, logPages>>
OtherAnswer ==
  /\ \/ \E ch \in ReadChannels \ {StatusCall, LogCall} : AnswerRead(ch)
     \/ \E k \in Slots : BeginDiagnose(<<"diagnose", k>>)
     \/ \E k \in Slots : EndDiagnose(<<"diagnose", k>>, TRUE)
     \/ AnswerService(FALSE)
  /\ UNCHANGED <<statusPage, toolPages, logPages>>

\* What the page's script does by itself once an answer is in.
Settle ==
  \/ /\ \/ RenderStatus
        \/ ActionAnswered
        \/ PreviewLoaded
        \/ PreviewChecked
     /\ UNCHANGED <<toolPages, logPages>>
  \/ /\ \E b \in Boxes, k \in Slots : FillBox(b, k)
     /\ UNCHANGED <<statusPage, logPages>>
  \/ /\ \/ RenderLog
        \/ RenderVersions
     /\ UNCHANGED <<statusPage, toolPages>>

StatusPoll ==
  /\ PollStatus \/ \E soon \in BOOLEAN : RefreshStatus(soon)
  /\ UNCHANGED <<toolPages, logPages>>
LogPoll == (PollLog \/ RefreshLog) /\ UNCHANGED <<statusPage, toolPages>>

FairSpec ==
  /\ Spec
  /\ WF_vars(StatusAnswer)
  /\ WF_vars(LogAnswer)
  /\ WF_vars(OtherAnswer)
  /\ WF_vars(Settle)
  /\ WF_vars(StatusPoll)
  /\ WF_vars(LogPoll)

-----------------------------------------------------------------------------
(* Type correctness.                                                       *)

Services == {Stopped, Dead, Connecting, Working}
Counters == [rx : Nat, tx : Nat]

Exports == {Export(c) : c \in Configs}

StatusAnswers ==
  [enabled : BOOLEAN, running : BOOLEAN, up : BOOLEAN, records : Exports,
   bytes : Counters \cup {None}, carried : Counters]

Lines ==
  [group : Entries(Groups),
   label : {"server", "profile", "client", "enabled", "running", "listener", "meter",
            "device", "ruleset", "tunnel"},
   status : {"ok", "warn", "fail", "skip"}]

Diagnoses ==
  [checks : SUBSET Lines,
   verdict : {"ok", "warn", "fail"}, records : Exports, enabled : BOOLEAN,
   service : Services, steady : BOOLEAN]

\* What stands for no answer is not an answer.
ASSUME WebPagesAssumption == None \notin StatusAnswers \cup Diagnoses

\* The values every variable keeps to, and the page each of them belongs to.
TypeOK ==
  /\ config \in Configs /\ staged \in Configs
  /\ records \in Exports
  /\ service \in Services
  /\ bytes \in Counters \cup {None} /\ carried \in Counters
  /\ log \in [written : Nat, lost : Nat] /\ log.lost <= log.written
  /\ DOMAIN calls = Channels
  /\ view \in {"none", "status", "diagnostics", "tools", "log", "versions"}
  /\ budget \in [Events -> Nat]
  /\ view # "status" => status = StatusClosed
  /\ status.snap \in StatusAnswers \cup {None}
  /\ status.modal \in {"none", "wait", "preview"}
  /\ status.phase = "shown" <=> status.snap # None
  /\ lastTraffic \in Counters \cup {None}
  /\ cache \in Configs \cup {None}
  /\ \A b \in Boxes : box[b].kind # "empty" => view = PageOf(b)
  /\ lastDiagnose \in Diagnoses \cup {None}
  /\ view # "log" => logPage = LogClosed
  /\ view # "versions" => versions = VersionsClosed

-----------------------------------------------------------------------------
(* The Status page.                                                        *)

Profiled(rec) == ProfileMode(rec) \in {"vpn", "bypass"}

Successes ==
  {"only the VPN rules", "all but the bypass rules", "all but the direct list",
   "direct"}

\* What the banner and the Mode row say is what the routing helper's rules and
\* the client's configuration together do to every connection, and the banner
\* calls the tunnel working exactly when the client has its device or its
\* listener where the settings say.  The line of the Settings page agrees.
StatusTellsTruth ==
  status.snap # None =>
    LET st == status.snap IN
    /\ Banner(st) \in Successes <=> st.running /\ st.up
    /\ Summary(st) = "running" <=> Banner(st) \in Successes
    /\ \A word \in {ModeRow(st), Banner(st)} \cap Successes, d \in Destination :
         AtTheirWord(st.records, d) =>
           (Says(word, st.records, d) <=> Tunneled(st.records, d))

\* A rate is the difference to the status painted before in this visit, and
\* never more than was carried in between, however often the counters were
\* reset meanwhile.  The first paint has none.
RateIsOfLastInterval ==
  [][(lastTraffic' # lastTraffic /\ status'.rate \notin {None, Dash}) =>
       /\ status.phase = "shown"
       /\ status'.rate.down \in 0 .. (status'.snap.carried.rx - status.snap.carried.rx)
       /\ status'.rate.up \in 0 .. (status'.snap.carried.tx - status.snap.carried.tx)
    ]_vars

\* A preview taken of one state of the settings shows every rule of the
\* assigned profile once, in order, under the heading that applies to it, and
\* a rule's verdict is what happens to every connection the rule matches.
PreviewTellsTruth ==
  LET pv == status.preview IN
  (pv.stage = "shown" /\ Export(pv.config) = pv.st.records) =>
    LET rec == pv.st.records IN
    /\ [i \in DOMAIN pv.rows |-> pv.rows[i].rule] = pv.rules
    /\ Profiled(rec) =>
         {pv.rules, pv.inert} = {rec.vpn, rec.bypass}
    /\ \A i \in DOMAIN pv.rows, d \in Destination :
         LET row == pv.rows[i] IN
         (/\ row.answer # Failed
          /\ row.answer.records = rec
          /\ AtTheirWord(rec, d)
          /\ ClientMatches(row.rule, d)) =>
           (row.answer.verdict = "tunnel" <=> Tunneled(rec, d))

-----------------------------------------------------------------------------
(* The Diagnostics and the Tools page.                                     *)

\* A spinner means that an answer is still to come: a call of that place is
\* under way.
NoOrphanSpinner ==
  /\ status.phase = "loading" => ~Free(StatusCall)
  /\ status.modal = "wait" => At(ServiceCall, "sent") \/ At(ServiceCall, "answered")
  /\ status.preview.stage = "loading" => ~Free(UciCall)
  /\ status.preview.stage = "checking" => ~Free(RuleCall)
  /\ \A b \in Boxes :
       box[b].kind = "spinning" => \E k \in Slots : ~Free(<<b, k>>)
  /\ logPage.phase = "loading" => ~Free(LogCall)
  /\ versions.phase = "loading" => ~Free(VersionsCall)

\* A diagnosis during which nothing moved is right: it reports a problem when
\* the service is down or has no device or listener yet, and none when
\* everything is up.  A tun-mode configuration without a profile is left out,
\* and so are rules other than names.
DiagnosisTellsTruth ==
  (box["diagnose"].kind = "filled" /\ box["diagnose"].value.steady) =>
    LET res == box["diagnose"].value
        rec == res.records
        up == res.service.up /\ (rec.proxy => rec.listen)
    IN /\ ~up => res.verdict = "fail"
       /\ (up /\ rec.server /\ ByName(rec) /\ (rec.proxy \/ Profiled(rec))) =>
            res.verdict # "fail"

\* Every check of a diagnosis has its place on the page and in the report, a
\* problem is never folded away, and the report of a run on the screen is of
\* that run.
ReportIsComplete ==
  /\ report.copy => lastDiagnose # None
  /\ box["diagnose"].kind = "filled" =>
       LET res == box["diagnose"].value IN
       /\ lastDiagnose = res
       /\ Problems(res) \cup Folded(res) = res.checks
       /\ Problems(res) = {} <=> res.verdict = "ok"
       /\ Serialize(res).lines = res.checks

\* The Check a domain tool answers what happens to connections to that name,
\* as long as the list that decides holds nothing but names.
DomainTellsTruth ==
  box["domain"].kind = "filled" =>
    LET rec == box["domain"].value.records
        q == box["domain"].arg
    IN \A d \in Destination :
         (d.name = q.name /\ ByName(rec)) =>
           (box["domain"].value.verdict = "tunnel" <=> Tunneled(rec, d))

-----------------------------------------------------------------------------
(* The log, and what must happen in the end.                               *)

\* A status page left open comes to show the backend's state, whatever polls
\* fail on the way, once nobody presses its buttons any more.
StatusCatchesUp ==
  <>[](status.phase = "shown" /\ status.modal # "wait") =>
    <>[](status.snap = Status)

\* And so does the log: a page left open comes to show the last lines the
\* ring buffer holds, whatever polls fail or find no lines, and however many
\* lines are lost, on the way.
LogCatchesUp ==
  <>[](logPage.phase = "shown") => <>[](logPage.shown = LastLines(BoxLines))

\* Something on a page says that an answer is awaited.
Waiting ==
  \/ "loading" \in {status.phase, status.preview.stage, logPage.phase, versions.phase}
  \/ status.modal = "wait"
  \/ status.preview.stage = "checking"
  \/ \E b \in Boxes : box[b].kind = "spinning"

\* No page is kept waiting for ever, answered or not: again and again nothing
\* is loading, no dialog waits and no box spins.
EverySpinnerEnds == []<>~Waiting

=============================================================================
