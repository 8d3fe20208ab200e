----------------------------- MODULE StatusPage -----------------------------
(***************************************************************************)
(* The Status page: the banner and the facts it repaints from a poll, the  *)
(* Start and Stop buttons and the rule preview.                            *)
(*                                                                         *)
(*   status       phase: closed, loading, shown or broken (the load        *)
(*                failed); snap: the last status painted (_lastStatus);    *)
(*                rate: the traffic row; modal; note: the last             *)
(*                notification; preview: the rule preview in the modal     *)
(*   lastTraffic  the counters of the previous poll, of the script and not *)
(*                of the view                                              *)
(*   cache        what uci.load has cached in this document                *)
(*                                                                         *)
(* Polls do not overlap: the poll loop arms a function again only when its *)
(* promise has settled.  The "Please wait" dialog has no way out but the   *)
(* answer; the preview may be closed at any time.                          *)
(***************************************************************************)
EXTENDS Backend

CONSTANT
  Dash  \* a rate the page cannot tell

VARIABLES status, lastTraffic, cache

statusPage == <<status, lastTraffic, cache>>

NoPreview == [stage |-> "none"]

StatusClosed ==
  [phase |-> "closed", snap |-> None, rate |-> None, modal |-> "none",
   note |-> "none", preview |-> NoPreview]

StatusInit ==
  /\ status = StatusClosed
  /\ lastTraffic = None
  /\ cache = None

-----------------------------------------------------------------------------
(* What is painted.                                                        *)

\* verdict: what the banner and the State row say.  The last four are the
\* successes, which the page words in the Mode row.
Banner(st) ==
  IF ~st.running THEN (IF st.enabled THEN "stopped" ELSE "off")
  ELSE IF ~st.up THEN "connecting"
  ELSE IF ProfileMode(st.records) = "bypass" THEN "only the VPN rules"
  ELSE IF ProfileMode(st.records) = "vpn" THEN "all but the bypass rules"
  ELSE IF st.records.proxy THEN "all but the direct list"
  ELSE "direct"

\* statusSummary: the line the Settings page shows of the same answer.
Summary(st) ==
  IF ~st.running THEN (IF st.enabled THEN "stopped" ELSE "off")
  ELSE IF ~st.up THEN "connecting"
  ELSE "running"

\* renderFactRows: the Mode row, painted whatever the service does.
ModeRow(st) ==
  IF ProfileMode(st.records) = "bypass" THEN "only the VPN rules"
  ELSE IF ProfileMode(st.records) = "vpn" THEN "all but the bypass rules"
  ELSE IF st.records.proxy THEN "all but the direct list"
  ELSE "direct"

\* What these words promise of a connection.
Says(word, rec, d) ==
  CASE word = "only the VPN rules" -> Matched(Entries(rec.vpn), d)
    [] word = "all but the bypass rules" -> ~Matched(Entries(rec.bypass), d)
    [] word = "all but the direct list" -> ~Matched(Entries(rec.direct), d)
    [] OTHER -> FALSE

\* trafficCell: the difference to the previous poll, unless a counter went
\* back or the polls are less than half a second apart.
Rate(st, soon) ==
  IF st.bytes = None THEN None
  ELSE IF /\ lastTraffic # None
          /\ ~soon
          /\ st.bytes.rx >= lastTraffic.rx
          /\ st.bytes.tx >= lastTraffic.tx
    THEN [down |-> st.bytes.rx - lastTraffic.rx,
          up |-> st.bytes.tx - lastTraffic.tx]
  ELSE Dash

Paint(st, soon) ==
  /\ status' = [status EXCEPT !.phase = "shown", !.snap = st,
                              !.rate = Rate(st, soon)]
  /\ lastTraffic' = st.bytes

-----------------------------------------------------------------------------
(* The view and its poll.                                                  *)

\* A slip in load: the traffic baseline left to the next visit.
OpenStatusKeepingBaseline ==
  /\ Enter("status")
  /\ status' = [StatusClosed EXCEPT !.phase = "loading"]
  /\ calls' = Call(StatusCall, None)
  /\ UNCHANGED <<lastTraffic, cache>>

\* load: the view may be entered again in the same document.
OpenStatus ==
  /\ Enter("status")
  /\ status' = [StatusClosed EXCEPT !.phase = "loading"]
  /\ lastTraffic' = None
  /\ calls' = Call(StatusCall, None)
  /\ UNCHANGED cache

\* A slip in load: a rejected call rendered as an empty status.
RenderStatusCaught ==
  /\ status.phase = "loading"
  /\ At(StatusCall, "answered")
  /\ calls' = Hung(StatusCall)
  /\ IF Answer(StatusCall) = Failed
       THEN /\ status' = [status EXCEPT !.phase = "shown"]
            /\ UNCHANGED lastTraffic
       ELSE Paint(Answer(StatusCall), FALSE)
  /\ UNCHANGED <<backend, view, cache>>

\* render, or the error page when the load was rejected.
RenderStatus ==
  /\ status.phase = "loading"
  /\ At(StatusCall, "answered")
  /\ calls' = Hung(StatusCall)
  /\ IF Answer(StatusCall) = Failed
       THEN /\ status' = [status EXCEPT !.phase = "broken"]
            /\ UNCHANGED lastTraffic
       ELSE Paint(Answer(StatusCall), FALSE)
  /\ UNCHANGED <<backend, view, cache>>

PollStatus ==
  /\ status.phase = "shown"
  /\ Free(StatusCall)
  /\ calls' = Call(StatusCall, None)
  /\ UNCHANGED <<backend, view, statusPage>>

\* A slip of the poll loop: never armed again after a failure.
RefreshStatusOnce(soon) ==
  /\ status.phase = "shown"
  /\ At(StatusCall, "answered")
  /\ Answer(StatusCall) # Failed
  /\ calls' = Hung(StatusCall)
  /\ Paint(Answer(StatusCall), soon)
  /\ UNCHANGED <<backend, view, cache>>

\* refreshStatus: a poll that fails paints nothing, and the next one comes.
RefreshStatus(soon) ==
  /\ status.phase = "shown"
  /\ At(StatusCall, "answered")
  /\ calls' = Hung(StatusCall)
  /\ IF Answer(StatusCall) = Failed
       THEN UNCHANGED <<status, lastTraffic>>
       ELSE Paint(Answer(StatusCall), soon)
  /\ UNCHANGED <<backend, view, cache>>

LeaveStatus ==
  /\ view = "status"
  /\ view' = "none"
  /\ status' = StatusClosed
  /\ calls' = Abandoned
  /\ UNCHANGED <<backend, lastTraffic, cache>>

-----------------------------------------------------------------------------
(* runAction: the Start and Stop buttons.                                  *)

RunAction(action) ==
  /\ status.phase = "shown" /\ status.modal = "none"
  /\ Free(ServiceCall)
  /\ Spend("press")
  /\ status' = [status EXCEPT !.modal = "wait"]
  /\ calls' = Call(ServiceCall, action)
  /\ UNCHANGED <<config, staged, records, service, bytes, carried, log, view,
                 lastTraffic, cache>>

\* The dialog goes and a notification says how it went; nothing is repainted
\* before the next poll.
ActionAnswered ==
  /\ status.modal = "wait"
  /\ At(ServiceCall, "answered")
  /\ calls' = Hung(ServiceCall)
  /\ status' = [status EXCEPT
       !.modal = "none",
       !.note = IF Answer(ServiceCall) = Failed THEN "failed" ELSE Answer(ServiceCall)]
  /\ UNCHANGED <<backend, view, lastTraffic, cache>>

-----------------------------------------------------------------------------
(* handlePreview: the rules come from the UCI cache, the mode from the     *)
(* last status painted, the verdicts from check_domain, one at a time.     *)

\* The mode the preview is titled with; "none" without a recognizable one.
PreviewMode(st) ==
  IF ProfileMode(st.records) \in {"vpn", "bypass"} THEN ProfileMode(st.records)
  ELSE "none"

\* A slip in the choice of the lists: the other list of the profile.
ListsSwapped(c, st) ==
  LET p == IF st.records.profile = None THEN None
           ELSE c.profiles[st.records.profile]
      mode == PreviewMode(st)
  IN IF mode # "none" /\ p # None
       THEN IF mode = "bypass" THEN [rules |-> p.bypass, inert |-> p.vpn]
            ELSE [rules |-> p.bypass, inert |-> p.vpn]
     ELSE IF st.records.proxy THEN [rules |-> c.direct, inert |-> <<>>]
     ELSE [rules |-> <<>>, inert |-> <<>>]

\* The list that decides and the one that does not, of the profile that has
\* the painted name in the configuration at hand.
Lists(c, st) ==
  LET p == IF st.records.profile = None THEN None
           ELSE c.profiles[st.records.profile]
      mode == PreviewMode(st)
  IN IF mode # "none" /\ p # None
       THEN IF mode = "bypass" THEN [rules |-> p.vpn, inert |-> p.bypass]
            ELSE [rules |-> p.bypass, inert |-> p.vpn]
     ELSE IF st.records.proxy THEN [rules |-> c.direct, inert |-> <<>>]
     ELSE [rules |-> <<>>, inert |-> <<>>]

\* The preview once its configuration is there, and the first check's call.
Checking(pv, c) ==
  LET lists == Lists(c, pv.st) IN
  [stage |-> IF lists.rules = <<>> THEN "shown" ELSE "checking",
   st |-> pv.st, config |-> c, rules |-> lists.rules, inert |-> lists.inert,
   rows |-> <<>>]

NextCheck(pv, cs) ==
  IF pv.stage = "checking"
    THEN [cs EXCEPT ![RuleCall] =
            [arg |-> pv.rules[Len(pv.rows) + 1], stage |-> "sent", value |-> None]]
    ELSE [cs EXCEPT ![RuleCall] = Idle]

ShowPreview(pv, cs) ==
  /\ status' = [status EXCEPT !.modal = "preview", !.preview = pv]
  /\ calls' = NextCheck(pv, cs)

\* uci.load answers from its cache after the first time.
OpenPreview ==
  /\ status.phase = "shown" /\ status.modal = "none"
  /\ Spend("press")
  /\ LET pv == [stage |-> "loading", st |-> status.snap] IN
     IF cache = None
       THEN /\ status' = [status EXCEPT !.modal = "preview", !.preview = pv]
            /\ calls' = IF Free(UciCall) THEN Call(UciCall, None) ELSE calls
       ELSE ShowPreview(Checking(pv, cache), calls)
  /\ UNCHANGED <<config, staged, records, service, bytes, carried, log, view,
                 lastTraffic, cache>>

\* The configuration arrives, or fails to; a closed preview only leaves it in
\* the cache.
PreviewLoaded ==
  /\ view = "status"
  /\ At(UciCall, "answered")
  /\ cache' = IF Answer(UciCall) = Failed THEN cache ELSE Answer(UciCall)
  /\ IF status.preview.stage # "loading"
       THEN calls' = Hung(UciCall) /\ UNCHANGED status
     ELSE IF Answer(UciCall) = Failed
       THEN /\ calls' = Hung(UciCall)
            /\ status' = [status EXCEPT !.preview = [stage |-> "error"]]
     ELSE ShowPreview(Checking(status.preview, Answer(UciCall)), Hung(UciCall))
  /\ UNCHANGED <<backend, view, lastTraffic>>

\* One verdict, a failed check being a row of its own; then the next rule, or
\* the table.
PreviewChecked ==
  /\ status.preview.stage = "checking"
  /\ At(RuleCall, "answered")
  /\ LET pv == status.preview
         rows == Append(pv.rows, [rule |-> calls[RuleCall].arg, answer |-> Answer(RuleCall)])
     IN ShowPreview([pv EXCEPT
          !.rows = rows,
          !.stage = IF Len(rows) = Len(pv.rules) THEN "shown" ELSE "checking"],
          calls)
  /\ UNCHANGED <<backend, view, lastTraffic, cache>>

ClosePreview ==
  /\ status.modal = "preview"
  /\ status' = [status EXCEPT !.modal = "none", !.preview = NoPreview]
  /\ calls' = Hung(RuleCall)
  /\ UNCHANGED <<backend, view, lastTraffic, cache>>

StatusStep ==
  \/ OpenStatus
  \/ RenderStatus
  \/ PollStatus
  \/ \E soon \in BOOLEAN : RefreshStatus(soon)
  \/ LeaveStatus
  \/ \E action \in {"start", "stop"} : RunAction(action)
  \/ ActionAnswered
  \/ OpenPreview
  \/ PreviewLoaded
  \/ PreviewChecked
  \/ ClosePreview

=============================================================================
