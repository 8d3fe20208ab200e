-------------------------- MODULE StatusPage_proofs --------------------------
(***************************************************************************)
(* What the Status page shows, for any configurations, rules and bounds    *)
(* and under any interleaving: the banner, the rates and the rule preview. *)
(*                                                                         *)
(* What is painted is a status the backend once answered, so that the      *)
(* words are true of its records; the counters painted, those in flight    *)
(* and those of the backend are ahead of one another; and a preview is     *)
(* built row by row from one configuration and the verdicts it asked for.  *)
(***************************************************************************)
EXTENDS WebPages_proofs

-----------------------------------------------------------------------------
(* The Status page.                                                        *)

\* What is painted is a status the backend once answered.
SnapInv ==
  /\ AnswersInv
  /\ StatusRec
  /\ status.snap # None => SnapOK(status.snap)

LEMMA SnapInit ==
  ASSUME Init
  PROVE  SnapInv
BY AnswersInit DEF Init, StatusInit, StatusClosed, SnapInv, StatusRec

LEMMA SnapStep ==
  ASSUME SnapInv, [Next]_vars
  PROVE  SnapInv'
<1>1. AnswersInv' /\ StatusRec' /\ StatusMoves
  BY AnswersStayGood, NextMovesStatus DEF SnapInv, AnswersInv
<1>2. CASE status'.snap \in {status.snap, None}
  BY <1>1, <1>2 DEF SnapInv, SnapOK
<1>3. CASE status'.snap = Answer(StatusCall) /\ At(StatusCall, "answered")
             /\ Answer(StatusCall) # Failed
  <2>1. SnapOK(Answer(StatusCall))
    BY <1>3 DEF SnapInv, AnswersInv, StatusGood
  <2> QED
    BY <1>1, <1>3, <2>1 DEF SnapInv, SnapOK
<1> QED
  BY <1>1, <1>2, <1>3 DEF StatusMoves

\* The banner and the Mode row promise what the rules of the records do.
LEMMA WordsAreKept ==
  ASSUME NEW st, SnapOK(st), NEW d \in Destination,
         NEW word \in {ModeRow(st), Banner(st)} \cap Successes,
         AtTheirWord(st.records, d)
  PROVE  Says(word, st.records, d) <=> Tunneled(st.records, d)
<1>1. /\ ProfileMode(st.records) \in {"none", "vpn", "bypass", "other"}
      /\ st.records.proxy \in BOOLEAN
  BY ModeValues DEF SnapOK
<1>2. word = ModeRow(st)
  BY DEF Banner, ModeRow, Successes
<1>3. Says(ModeRow(st), st.records, d) <=> Promised(st.records, d)
  <2>1. CASE ProfileMode(st.records) = "bypass"
    BY <2>1 DEF ModeRow, Says, Promised
  <2>2. CASE ProfileMode(st.records) = "vpn"
    BY <2>2 DEF ModeRow, Says, Promised
  <2>3. CASE ProfileMode(st.records) \in {"none", "other"} /\ st.records.proxy
    BY <2>3 DEF ModeRow, Says, Promised
  <2>4. CASE ProfileMode(st.records) \in {"none", "other"} /\ ~st.records.proxy
    BY <2>4 DEF ModeRow, Says, Promised
  <2> QED
    BY <1>1, <2>1, <2>2, <2>3, <2>4
<1>4. Tunneled(st.records, d) <=> Promised(st.records, d)
  BY PolicyEnforced DEF SnapOK
<1> QED
  BY <1>2, <1>3, <1>4

LEMMA BannerWords ==
  ASSUME NEW st, SnapOK(st)
  PROVE  /\ Banner(st) \in Successes <=> st.running /\ st.up
         /\ Summary(st) = "running" <=> Banner(st) \in Successes
<1>1. st.running \in BOOLEAN /\ st.up \in BOOLEAN
  BY DEF SnapOK
<1>2. CASE st.running /\ st.up
  <2>1. Banner(st) = ModeRow(st) /\ Summary(st) = "running"
    BY <1>2 DEF Banner, ModeRow, Summary
  <2>2. ModeRow(st) \in Successes
    BY DEF ModeRow, Successes
  <2> QED
    BY <1>2, <2>1, <2>2
<1>3. CASE ~(st.running /\ st.up)
  BY <1>1, <1>3 DEF Banner, Successes, Summary
<1> QED
  BY <1>2, <1>3

\* In every reachable state the banner, the Mode row and the line of the
\* Settings page say of the status painted what the routing helper and the
\* client do with every connection of it.
THEOREM StatusTruth == Spec => []StatusTellsTruth
<1>1. Init => SnapInv
  BY SnapInit
<1>2. SnapInv /\ [Next]_vars => SnapInv'
  BY SnapStep
<1>3. SnapInv => StatusTellsTruth
  <2> SUFFICES ASSUME SnapInv, status.snap # None
               PROVE  LET st == status.snap IN
                 /\ Banner(st) \in Successes <=> st.running /\ st.up
                 /\ Summary(st) = "running" <=> Banner(st) \in Successes
                 /\ \A word \in {ModeRow(st), Banner(st)} \cap Successes,
                       d \in Destination :
                      AtTheirWord(st.records, d) =>
                        (Says(word, st.records, d) <=> Tunneled(st.records, d))
    BY DEF StatusTellsTruth
  <2>1. SnapOK(status.snap)
    BY DEF SnapInv
  <2> QED
    BY <2>1, WordsAreKept, BannerWords
<1> QED
  BY <1>1, <1>2, <1>3, PTL DEF Spec

\* While the page is open the baseline of the rates is the status painted, and
\* both an answer in flight and the backend's counters are ahead of it.
RateInv ==
  /\ SnapInv
  /\ status.phase = "loading" => lastTraffic = None
  /\ status.phase = "shown" =>
       LET snap == status.snap IN
       /\ SnapOK(snap)
       /\ lastTraffic = snap.bytes
       /\ Ahead(snap.bytes, snap.carried, bytes, carried)
       /\ (At(StatusCall, "answered") /\ Answer(StatusCall) # Failed) =>
            Ahead(snap.bytes, snap.carried,
                  Answer(StatusCall).bytes, Answer(StatusCall).carried)

LEMMA RateInit ==
  ASSUME Init
  PROVE  RateInv
BY SnapInit DEF Init, StatusInit, StatusClosed, RateInv

\* What is painted stays behind whatever the step makes of the call.
LEMMA SnapStaysBehind ==
  ASSUME RateInv, Moves, status.phase = "shown", NEW b, NEW c,
         b = status.snap.bytes, c = status.snap.carried
  PROVE  /\ Ahead(b, c, bytes', carried')
         /\ (At(StatusCall, "answered")' /\ Answer(StatusCall)' # Failed) =>
              Ahead(b, c, Answer(StatusCall)'.bytes, Answer(StatusCall)'.carried)
<1>1. /\ SnapOK(status.snap)
      /\ Ahead(b, c, bytes, carried)
      /\ (At(StatusCall, "answered") /\ Answer(StatusCall) # Failed) =>
           Ahead(b, c, Answer(StatusCall).bytes, Answer(StatusCall).carried)
  BY DEF RateInv
<1>2. b \in Counters \cup {None} /\ c \in Counters
  BY <1>1 DEF SnapOK
<1>3. Ahead(b, c, bytes', carried')
  BY <1>1, <1>2, MovesStayAhead DEF RateInv, SnapInv, AnswersInv, Moves
<1>4. CASE calls'[StatusCall] = calls[StatusCall]
  BY <1>1, <1>3, <1>4 DEF At, Free, Answer
<1>5. CASE calls'[StatusCall] = Idle \/ calls'[StatusCall].stage # "answered"
  BY <1>3, <1>5 DEF At, Idle
<1>6. CASE calls'[StatusCall].value \in {Status, Failed}
  BY <1>1, <1>3, <1>6 DEF Answer, Status
<1>7. ReadAnswer(StatusCall) = Status
  BY DEF ReadAnswer, StatusCall, UciCall, RuleCall, LogCall, VersionsCall
<1> QED
  BY <1>4, <1>5, <1>6, <1>7, ChannelKinds DEF Moves, CallMoves

LEMMA RateStep ==
  ASSUME RateInv, [Next]_vars
  PROVE  RateInv'
<1>1. SnapInv' /\ Moves /\ StatusMoves
  BY SnapStep, AnswersStayGood, NextMovesStatus DEF RateInv, SnapInv, AnswersInv
<1>2. CASE UNCHANGED <<status.phase, status.snap, lastTraffic>>
  <2>1. CASE status.phase = "shown"
    <3>1. /\ Ahead(status.snap.bytes, status.snap.carried, bytes', carried')
          /\ (At(StatusCall, "answered")' /\ Answer(StatusCall)' # Failed) =>
               Ahead(status.snap.bytes, status.snap.carried,
                     Answer(StatusCall)'.bytes, Answer(StatusCall)'.carried)
      BY <1>1, <2>1, SnapStaysBehind
    <3>2. SnapOK(status.snap) /\ lastTraffic = status.snap.bytes
      BY <2>1 DEF RateInv
    <3> QED
      BY <1>1, <1>2, <2>1, <3>1, <3>2 DEF RateInv, SnapOK
  <2>2. CASE status.phase # "shown"
    BY <1>1, <1>2, <2>2 DEF RateInv
  <2> QED
    BY <2>1, <2>2
<1>3. CASE /\ status'.phase \in {"loading", "closed"}
           /\ status'.phase = "loading" => lastTraffic' = None
  BY <1>1, <1>3 DEF RateInv
<1>4. CASE status'.phase = "broken"
  BY <1>1, <1>4 DEF RateInv
<1>5. CASE /\ status'.phase = "shown"
           /\ At(StatusCall, "answered") /\ Answer(StatusCall) # Failed
           /\ calls'[StatusCall] = Idle
           /\ UNCHANGED World1
           /\ status'.snap = Answer(StatusCall)
           /\ lastTraffic' = Answer(StatusCall).bytes
  <2> DEFINE st == Answer(StatusCall)
  <2>1. SnapOK(st) /\ Ahead(st.bytes, st.carried, bytes, carried)
    BY <1>5 DEF RateInv, SnapInv, AnswersInv, StatusGood
  <2>2. bytes' = bytes /\ carried' = carried
    BY <1>5 DEF World1
  <2>3. ~At(StatusCall, "answered")'
    BY <1>5 DEF At, Idle
  <2> HIDE DEF st
  <2>4. status'.snap = st /\ lastTraffic' = st.bytes /\ status'.phase = "shown"
    BY <1>5 DEF st
  <2> QED
    BY <1>1, <2>1, <2>2, <2>3, <2>4 DEF RateInv, SnapOK
<1> QED
  BY <1>1, <1>2, <1>3, <1>4, <1>5 DEF StatusMoves

\* A step that paints a rate paints one of the interval just ended.
LEMMA RateIsBounded ==
  ASSUME RateInv, [Next]_vars,
         lastTraffic' # lastTraffic, status'.rate \notin {None, Dash}
  PROVE  /\ status.phase = "shown"
         /\ status'.rate.down \in 0 .. (status'.snap.carried.rx - status.snap.carried.rx)
         /\ status'.rate.up \in 0 .. (status'.snap.carried.tx - status.snap.carried.tx)
<1> DEFINE st == Answer(StatusCall)
<1>1. StatusMoves
  BY NextMovesStatus DEF RateInv, SnapInv, AnswersInv
<1>2. /\ status.phase \in {"loading", "shown"}
      /\ At(StatusCall, "answered") /\ st # Failed
      /\ status'.snap = st
      /\ \E soon \in BOOLEAN : status'.rate = Rate(st, soon)
  BY <1>1 DEF StatusMoves
<1>3. SnapOK(st)
  BY <1>2 DEF RateInv, SnapInv, AnswersInv, StatusGood
<1>4. /\ lastTraffic # None /\ st.bytes # None
      /\ st.bytes.rx >= lastTraffic.rx /\ st.bytes.tx >= lastTraffic.tx
      /\ status'.rate = [down |-> st.bytes.rx - lastTraffic.rx,
                         up |-> st.bytes.tx - lastTraffic.tx]
  BY <1>2 DEF Rate
<1>5. status.phase = "shown"
  BY <1>2, <1>4 DEF RateInv
<1>6. /\ SnapOK(status.snap)
      /\ lastTraffic = status.snap.bytes
      /\ Ahead(status.snap.bytes, status.snap.carried, st.bytes, st.carried)
  BY <1>2, <1>5 DEF RateInv
<1> HIDE DEF st
<1>7. /\ st.bytes \in Counters /\ st.carried \in Counters
      /\ lastTraffic \in Counters /\ status.snap.carried \in Counters
  BY <1>3, <1>4, <1>6 DEF SnapOK
<1>8. /\ st.bytes.rx - lastTraffic.rx \in 0 .. (st.carried.rx - status.snap.carried.rx)
      /\ st.bytes.tx - lastTraffic.tx \in 0 .. (st.carried.tx - status.snap.carried.tx)
  BY <1>4, <1>6, <1>7 DEF Ahead, Counters
<1> QED
  BY <1>2, <1>4, <1>5, <1>8

\* A rate painted is never more than what was carried since the paint before,
\* for any number of reconnects and restarts in between and any polls lost.
THEOREM RateTruth == Spec => RateIsOfLastInterval
<1>1. Init => RateInv
  BY RateInit
<1>2. RateInv /\ [Next]_vars => RateInv'
  BY RateStep
<1>3. RateInv /\ [Next]_vars =>
        [(lastTraffic' # lastTraffic /\ status'.rate \notin {None, Dash}) =>
           /\ status.phase = "shown"
           /\ status'.rate.down \in 0 .. (status'.snap.carried.rx - status.snap.carried.rx)
           /\ status'.rate.up \in 0 .. (status'.snap.carried.tx - status.snap.carried.tx)
        ]_vars
  BY RateIsBounded
<1> QED
  BY <1>1, <1>2, <1>3, PTL DEF Spec, RateIsOfLastInterval

-----------------------------------------------------------------------------
(* The rule preview.                                                       *)

\* The call of the next check, if there is one to make.
NextRule(pv) ==
  IF pv.stage = "checking"
    THEN [arg |-> pv.rules[Len(pv.rows) + 1], stage |-> "sent", value |-> None]
    ELSE Idle

\* What a step that leaves the preview alone does to the call of its check.
RuleMoves ==
  \/ calls'[RuleCall] = calls[RuleCall]
  \/ calls'[RuleCall] = Idle
  \/ /\ At(RuleCall, "sent")
     /\ calls'[RuleCall].arg = calls[RuleCall].arg
     /\ calls'[RuleCall].value \in {Verdict(calls[RuleCall].arg), Failed}

\* What a step does to the preview.
PreviewMoves ==
  \/ status'.preview = status.preview /\ RuleMoves
  \/ status'.preview.stage \in {"none", "error"}
  \/ /\ status.phase = "shown"
     /\ status'.preview = [stage |-> "loading", st |-> status.snap]
  \/ /\ \E c : \/ /\ status.preview.stage = "loading"
                  /\ status'.preview = Checking(status.preview, c)
               \/ /\ status.phase = "shown"
                  /\ status'.preview =
                       Checking([stage |-> "loading", st |-> status.snap], c)
     /\ calls'[RuleCall] = NextRule(status'.preview)
  \/ /\ status.preview.stage = "checking" /\ At(RuleCall, "answered")
     /\ LET pv == status.preview
            rows == Append(pv.rows, [rule |-> calls[RuleCall].arg,
                                     answer |-> Answer(RuleCall)])
        IN status'.preview = [pv EXCEPT
             !.rows = rows,
             !.stage = IF Len(rows) = Len(pv.rules) THEN "shown" ELSE "checking"]
     /\ calls'[RuleCall] = NextRule(status'.preview)

LEMMA ShowingMoves ==
  ASSUME StatusRec, NEW pv, NEW cs, cs = [ch \in Channels |-> cs[ch]],
         ShowPreview(pv, cs)
  PROVE  status'.preview = pv /\ calls'[RuleCall] = NextRule(pv)
<1>1. RuleCall \in Channels
  BY DEF Channels
<1>2. status'.preview = pv
  BY DEF ShowPreview, StatusRec
<1>3. calls' = NextCheck(pv, cs)
  BY DEF ShowPreview
<1> QED
  BY <1>1, <1>2, <1>3 DEF NextCheck, NextRule

LEMMA OtherChannels ==
  ASSUME CallsFn, NEW ch, ch # RuleCall
  PROVE  /\ Hung(ch)[RuleCall] = calls[RuleCall]
         /\ \A arg : Call(ch, arg)[RuleCall] = calls[RuleCall]
         /\ Abandoned[RuleCall] = Idle
<1>1. RuleCall \in Channels /\ RuleCall # ServiceCall
  BY DEF Channels, RuleCall, ServiceCall
<1> QED
  BY <1>1 DEF CallsFn, Hung, Call, Abandoned, NoCalls

LEMMA NotRule ==
  /\ StatusCall # RuleCall /\ ServiceCall # RuleCall /\ UciCall # RuleCall
  /\ LogCall # RuleCall /\ VersionsCall # RuleCall
  /\ \A b \in Boxes \cup {"export"}, k \in Slots : <<b, k>> # RuleCall
BY DEF StatusCall, ServiceCall, UciCall, RuleCall, LogCall, VersionsCall, Boxes

LEMMA StatusStepPreview ==
  ASSUME StatusRec, CallsFn, StatusStep
  PROVE  PreviewMoves
<1>1. CASE OpenStatus \/ LeaveStatus
  BY <1>1 DEF OpenStatus, LeaveStatus, StatusClosed, NoPreview, PreviewMoves
<1>2. CASE RenderStatus \/ (\E soon \in BOOLEAN : RefreshStatus(soon))
  <2>1. calls' = Hung(StatusCall)
    BY <1>2 DEF RenderStatus, RefreshStatus
  <2>2. status'.preview = status.preview
    BY <1>2 DEF RenderStatus, RefreshStatus, Paint, StatusRec
  <2> QED
    BY <2>1, <2>2, OtherChannels, NotRule DEF PreviewMoves, RuleMoves
<1>3. CASE PollStatus \/ (\E action \in {"start", "stop"} : RunAction(action))
             \/ ActionAnswered
  <2>1. \/ calls' = Hung(ServiceCall)
        \/ \E ch \in {StatusCall, ServiceCall} : \E arg : calls' = Call(ch, arg)
    BY <1>3 DEF PollStatus, RunAction, ActionAnswered
  <2>2. status'.preview = status.preview
    BY <1>3 DEF PollStatus, RunAction, ActionAnswered, statusPage, StatusRec
  <2> QED
    BY <2>1, <2>2, OtherChannels, NotRule DEF PreviewMoves, RuleMoves
<1>4. CASE OpenPreview
  <2>1. CASE cache = None
    BY <1>4, <2>1 DEF OpenPreview, StatusRec, PreviewMoves
  <2>2. CASE cache # None
    <3>1. ShowPreview(Checking([stage |-> "loading", st |-> status.snap], cache), calls)
      BY <1>4, <2>2 DEF OpenPreview
    <3> QED
      BY <1>4, <3>1, ShowingMoves DEF OpenPreview, PreviewMoves, CallsFn
  <2> QED
    BY <2>1, <2>2
<1>5. CASE PreviewLoaded
  <2>1. CASE status.preview.stage # "loading"
    BY <1>5, <2>1, OtherChannels, NotRule DEF PreviewLoaded, PreviewMoves, RuleMoves
  <2>2. CASE status.preview.stage = "loading" /\ Answer(UciCall) = Failed
    BY <1>5, <2>2 DEF PreviewLoaded, StatusRec, PreviewMoves
  <2>3. CASE status.preview.stage = "loading" /\ Answer(UciCall) # Failed
    <3>1. ShowPreview(Checking(status.preview, Answer(UciCall)), Hung(UciCall))
      BY <1>5, <2>3 DEF PreviewLoaded
    <3>2. Hung(UciCall) = [ch \in Channels |-> Hung(UciCall)[ch]]
      BY DEF Hung, CallsFn
    <3> QED
      BY <2>3, <3>1, <3>2, ShowingMoves DEF PreviewMoves
  <2> QED
    BY <2>1, <2>2, <2>3
<1>6. CASE PreviewChecked
  <2> DEFINE pv == status.preview
             rows == Append(pv.rows, [rule |-> calls[RuleCall].arg,
                                      answer |-> Answer(RuleCall)])
             next == [pv EXCEPT
               !.rows = rows,
               !.stage = IF Len(rows) = Len(pv.rules) THEN "shown" ELSE "checking"]
  <2>1. ShowPreview(next, calls)
    BY <1>6 DEF PreviewChecked
  <2>2. status'.preview = next /\ calls'[RuleCall] = NextRule(next)
    BY <2>1, ShowingMoves DEF CallsFn
  <2> QED
    BY <1>6, <2>2 DEF PreviewChecked, PreviewMoves
<1>7. CASE ClosePreview
  BY <1>7 DEF ClosePreview, NoPreview, StatusRec, PreviewMoves
<1> QED
  BY <1>1, <1>2, <1>3, <1>4, <1>5, <1>6, <1>7 DEF StatusStep

LEMMA OtherStepsPreview ==
  ASSUME CallsFn, [Next]_vars, ~StatusStep
  PROVE  RuleMoves
<1>1. CASE World
  BY <1>1, WorldCalls DEF RuleMoves
<1>2. CASE Answers
  <2>1. RuleCall \in ReadChannels \ LogReads
    BY ChannelKinds
  <2>2. ReadAnswer(RuleCall) = Verdict(calls[RuleCall].arg)
    BY DEF ReadAnswer, StatusCall, UciCall, RuleCall, LogCall, VersionsCall
  <2> QED
    BY <1>2, <2>1, <2>2, AnswersAnswer DEF AnswerCalls, RuleMoves
<1>3. CASE UNCHANGED calls \/ calls' = Abandoned
  BY <1>3, OtherChannels, NotRule DEF RuleMoves
<1>4. CASE ToolStep
  <2>1. \/ UNCHANGED calls
        \/ calls' = Abandoned
        \/ \E b \in Boxes, k \in Slots :
             calls' = Hung(<<b, k>>) \/ \E arg : calls' = Call(<<b, k>>, arg)
    BY <1>4 DEF ToolStep, OpenTools, LeaveTools, PressButton, FillBox,
                CopyReport, CloseReport
  <2>2. ASSUME NEW b \in Boxes, NEW k \in Slots, NEW arg,
               calls' = Hung(<<b, k>>) \/ calls' = Call(<<b, k>>, arg)
        PROVE  RuleMoves
    <3>1. <<b, k>> # RuleCall
      BY NotRule
    <3> QED
      BY <2>2, <3>1, OtherChannels DEF RuleMoves
  <2> QED
    BY <1>3, <2>1, <2>2
<1>5. CASE LogStep
  <2>1. \/ UNCHANGED calls
        \/ calls' = Abandoned
        \/ \E ch \in {LogCall, VersionsCall} \cup ({"export"} \X Slots) :
             calls' = Hung(ch) \/ \E arg : calls' = Call(ch, arg)
    BY <1>5 DEF LogStep, OpenLog, RenderLog, PollLog, RefreshLog, ExportLog,
                Exported, LeaveLog, OpenVersions, RenderVersions, LeaveVersions
  <2> QED
    BY <2>1, OtherChannels, NotRule DEF RuleMoves
<1>6. CASE UNCHANGED vars
  BY <1>6 DEF vars, RuleMoves
<1> QED
  BY <1>1, <1>2, <1>3, <1>4, <1>5, <1>6 DEF Next

LEMMA NextMovesPreview ==
  ASSUME StatusRec, CallsFn, [Next]_vars
  PROVE  PreviewMoves
<1>1. CASE StatusStep
  BY <1>1, StatusStepPreview
<1>2. CASE ~StatusStep
  <2>1. UNCHANGED statusPage
    BY <1>2 DEF Next, vars, statusPage
  <2> QED
    BY <1>2, <2>1, OtherStepsPreview DEF PreviewMoves, statusPage
<1> QED
  BY <1>1, <1>2

\* A row of the preview: a verdict on its rule, or a failure.
RowGood(row) ==
  row.answer # Failed =>
    row.answer.verdict = CheckDomain(row.answer.records, row.rule)

RowsGood(rows, rules) ==
  /\ \E S : rows \in Seq(S)
  /\ \A i \in 1 .. Len(rows) : rows[i].rule = rules[i] /\ RowGood(rows[i])

\* A preview under way or complete, with the call of its next check.
CheckGood(pv, call) ==
  /\ SnapOK(pv.st)
  /\ pv.rules = Lists(pv.config, pv.st).rules
  /\ pv.inert = Lists(pv.config, pv.st).inert
  /\ RowsGood(pv.rows, pv.rules)
  /\ pv.stage = "shown" => Len(pv.rows) = Len(pv.rules)
  /\ (pv.stage = "checking" /\ call # Idle) =>
       /\ call.arg = pv.rules[Len(pv.rows) + 1]
       /\ (call.stage = "answered" /\ call.value # Failed) =>
            call.value.verdict = CheckDomain(call.value.records, call.arg)

PreviewRec(pv) ==
  pv = [stage |-> pv.stage, st |-> pv.st, config |-> pv.config,
        rules |-> pv.rules, inert |-> pv.inert, rows |-> pv.rows]

PreviewInv ==
  /\ RateInv
  /\ status.preview.stage = "loading" => SnapOK(status.preview.st)
  /\ status.preview.stage \in {"checking", "shown"} =>
       PreviewRec(status.preview) /\ CheckGood(status.preview, calls[RuleCall])

LEMMA PreviewInit ==
  ASSUME Init
  PROVE  PreviewInv
BY RateInit DEF Init, StatusInit, StatusClosed, NoPreview, PreviewInv

LEMMA CheckingIsGood ==
  ASSUME NEW pv, SnapOK(pv.st), NEW c
  PROVE  LET next == Checking(pv, c) IN
         /\ next.stage \in {"checking", "shown"}
         /\ PreviewRec(next)
         /\ CheckGood(next, NextRule(next))
<1> DEFINE next == Checking(pv, c)
           lists == Lists(c, pv.st)
<1>1. next = [stage |-> IF lists.rules = <<>> THEN "shown" ELSE "checking",
              st |-> pv.st, config |-> c, rules |-> lists.rules,
              inert |-> lists.inert, rows |-> <<>>]
  BY DEF Checking
<1> HIDE DEF next, lists
<1>2. /\ next.st = pv.st /\ next.config = c /\ next.rows = <<>>
      /\ next.rules = lists.rules /\ next.inert = lists.inert
      /\ next.stage = IF lists.rules = <<>> THEN "shown" ELSE "checking"
      /\ PreviewRec(next)
  BY <1>1 DEF PreviewRec
<1>3. RowsGood(next.rows, next.rules)
  <2>1. <<>> \in Seq({}) /\ Len(<<>>) = 0
    OBVIOUS
  <2> QED
    BY <1>2, <2>1 DEF RowsGood
<1>4. next.stage = "shown" => Len(next.rows) = Len(next.rules)
  BY <1>2
<1>5. next.stage = "checking" =>
        NextRule(next) = [arg |-> next.rules[Len(next.rows) + 1],
                          stage |-> "sent", value |-> None]
  BY DEF NextRule
<1>6. CheckGood(next, NextRule(next))
  BY <1>2, <1>3, <1>4, <1>5 DEF CheckGood, lists
<1> QED
  BY <1>2, <1>6 DEF next

\* A row more.
LEMMA RowsGrow ==
  ASSUME NEW rows, NEW rules, RowsGood(rows, rules),
         NEW row, row.rule = rules[Len(rows) + 1], RowGood(row)
  PROVE  RowsGood(Append(rows, row), rules)
<1>1. PICK S : rows \in Seq(S)
  BY DEF RowsGood
<1> DEFINE T == S \cup {row}
<1>2. rows \in Seq(T) /\ row \in T
  BY <1>1
<1> HIDE DEF T
<1>3. /\ Append(rows, row) \in Seq(T)
      /\ Len(Append(rows, row)) = Len(rows) + 1
      /\ Len(rows) \in Nat
      /\ \A i \in 1 .. Len(rows) : Append(rows, row)[i] = rows[i]
      /\ Append(rows, row)[Len(rows) + 1] = row
  BY <1>2
<1>4. ASSUME NEW i \in 1 .. Len(Append(rows, row))
      PROVE  Append(rows, row)[i].rule = rules[i] /\ RowGood(Append(rows, row)[i])
  <2>1. CASE i \in 1 .. Len(rows)
    BY <1>3, <2>1 DEF RowsGood
  <2>2. CASE i = Len(rows) + 1
    BY <1>3, <2>2
  <2> QED
    BY <1>3, <2>1, <2>2
<1> QED
  BY <1>3, <1>4 DEF RowsGood

LEMMA NextRuleFields ==
  ASSUME NEW pv, pv.stage = "checking"
  PROVE  /\ NextRule(pv).arg = pv.rules[Len(pv.rows) + 1]
         /\ NextRule(pv).stage # "answered"
BY DEF NextRule

LEMMA CheckedIsGood ==
  ASSUME NEW pv, PreviewRec(pv), pv.stage = "checking",
         NEW call, call # Idle, call.stage = "answered", CheckGood(pv, call),
         NEW row, row = [rule |-> call.arg, answer |-> call.value],
         NEW next,
         next = [pv EXCEPT
           !.rows = Append(pv.rows, row),
           !.stage = IF Len(Append(pv.rows, row)) = Len(pv.rules)
                       THEN "shown" ELSE "checking"]
  PROVE  PreviewRec(next) /\ CheckGood(next, NextRule(next))
<1> DEFINE rows == Append(pv.rows, row)
<1>1. RowGood(row) /\ row.rule = pv.rules[Len(pv.rows) + 1]
  BY DEF CheckGood, RowGood
<1>2. RowsGood(rows, pv.rules)
  BY <1>1, RowsGrow DEF CheckGood
<1> HIDE DEF rows
<1>3. /\ next.rows = rows /\ next.st = pv.st /\ next.config = pv.config
      /\ next.rules = pv.rules /\ next.inert = pv.inert
      /\ next.stage = IF Len(rows) = Len(pv.rules) THEN "shown" ELSE "checking"
      /\ PreviewRec(next)
  BY DEF PreviewRec, rows
<1>4. /\ SnapOK(next.st)
      /\ next.rules = Lists(next.config, next.st).rules
      /\ next.inert = Lists(next.config, next.st).inert
  BY <1>3 DEF CheckGood
<1>5. RowsGood(next.rows, next.rules)
  BY <1>2, <1>3
<1>6. next.stage = "shown" => Len(next.rows) = Len(next.rules)
  BY <1>3
<1>7. next.stage = "checking" =>
        /\ NextRule(next).arg = next.rules[Len(next.rows) + 1]
        /\ NextRule(next).stage # "answered"
  BY NextRuleFields
<1>8. CheckGood(next, NextRule(next))
  BY <1>4, <1>5, <1>6, <1>7 DEF CheckGood
<1> QED
  BY <1>3, <1>8

LEMMA PreviewStep ==
  ASSUME PreviewInv, [Next]_vars
  PROVE  PreviewInv'
<1>1. RateInv' /\ PreviewMoves
  BY RateStep, NextMovesPreview DEF PreviewInv, RateInv, SnapInv, AnswersInv
<1>2. CASE status'.preview = status.preview /\ RuleMoves
  <2>1. ASSUME status.preview.stage \in {"checking", "shown"}
        PROVE  CheckGood(status.preview, calls'[RuleCall])
    <3>1. CheckGood(status.preview, calls[RuleCall])
      BY <2>1 DEF PreviewInv
    <3>2. CASE calls'[RuleCall] = calls[RuleCall]
      BY <3>1, <3>2
    <3>3. CASE calls'[RuleCall] = Idle
      BY <3>1, <3>3 DEF CheckGood
    <3>4. CASE /\ At(RuleCall, "sent")
               /\ calls'[RuleCall].arg = calls[RuleCall].arg
               /\ calls'[RuleCall].value \in {Verdict(calls[RuleCall].arg), Failed}
      <4>1. calls[RuleCall] # Idle
        BY <3>4 DEF At, Idle
      <4> QED
        BY <3>1, <3>4, <4>1 DEF CheckGood, Verdict
    <3> QED
      BY <1>2, <3>2, <3>3, <3>4 DEF RuleMoves
  <2> QED
    BY <1>1, <1>2, <2>1 DEF PreviewInv, PreviewRec, CheckGood, SnapOK
<1>3. CASE status'.preview.stage \in {"none", "error"}
  BY <1>1, <1>3 DEF PreviewInv
<1>4. CASE /\ status.phase = "shown"
           /\ status'.preview = [stage |-> "loading", st |-> status.snap]
  <2>1. SnapOK(status.snap)
    BY <1>4 DEF PreviewInv, RateInv
  <2> QED
    BY <1>1, <1>4, <2>1 DEF PreviewInv, SnapOK
<1>5. ASSUME NEW pv, SnapOK(pv.st), NEW c,
             status'.preview = Checking(pv, c),
             calls'[RuleCall] = NextRule(status'.preview)
      PROVE  PreviewInv'
  <2> DEFINE next == Checking(pv, c)
  <2>1. /\ next.stage \in {"checking", "shown"}
        /\ PreviewRec(next)
        /\ CheckGood(next, NextRule(next))
    BY <1>5, CheckingIsGood
  <2> HIDE DEF next
  <2>2. status'.preview = next /\ calls'[RuleCall] = NextRule(next)
    BY <1>5 DEF next
  <2> QED
    BY <1>1, <2>1, <2>2 DEF PreviewInv, PreviewRec, CheckGood, SnapOK
<1>6. CASE /\ status.preview.stage = "checking" /\ At(RuleCall, "answered")
           /\ LET pv == status.preview
                  rows == Append(pv.rows, [rule |-> calls[RuleCall].arg,
                                           answer |-> Answer(RuleCall)])
              IN status'.preview = [pv EXCEPT
                   !.rows = rows,
                   !.stage = IF Len(rows) = Len(pv.rules) THEN "shown" ELSE "checking"]
           /\ calls'[RuleCall] = NextRule(status'.preview)
  <2> DEFINE pv == status.preview
             call == calls[RuleCall]
             row == [rule |-> call.arg, answer |-> call.value]
             next == [pv EXCEPT
               !.rows = Append(pv.rows, row),
               !.stage = IF Len(Append(pv.rows, row)) = Len(pv.rules)
                           THEN "shown" ELSE "checking"]
  <2>1. /\ PreviewRec(pv) /\ pv.stage = "checking"
        /\ call # Idle /\ call.stage = "answered" /\ CheckGood(pv, call)
    BY <1>6 DEF PreviewInv, At, Idle
  <2>2. PreviewRec(next) /\ CheckGood(next, NextRule(next))
    BY <2>1, CheckedIsGood
  <2>3. status'.preview = next /\ calls'[RuleCall] = NextRule(next)
    BY <1>6 DEF Answer
  <2>4. next.stage \in {"checking", "shown"}
    BY <2>1 DEF PreviewRec
  <2> HIDE DEF next
  <2> QED
    BY <1>1, <2>2, <2>3, <2>4 DEF PreviewInv, PreviewRec, CheckGood, SnapOK
<1> QED
  <2>1. status.phase = "shown" => SnapOK(status.snap)
    BY DEF PreviewInv, RateInv
  <2>2. status.preview.stage = "loading" => SnapOK(status.preview.st)
    BY DEF PreviewInv
  <2> DEFINE fresh == [stage |-> "loading", st |-> status.snap]
  <2>3. fresh.st = status.snap
    OBVIOUS
  <2> HIDE DEF fresh
  <2>4. CASE /\ \E c : \/ /\ status.preview.stage = "loading"
                          /\ status'.preview = Checking(status.preview, c)
                       \/ /\ status.phase = "shown"
                          /\ status'.preview = Checking(fresh, c)
             /\ calls'[RuleCall] = NextRule(status'.preview)
    BY <1>5, <2>1, <2>2, <2>3, <2>4
  <2> QED
    BY <1>1, <1>2, <1>3, <1>4, <1>6, <2>4 DEF PreviewMoves, fresh

\* The lists of the preview are those of the records, when its configuration
\* is the one they were exported from.
LEMMA ListsOfRecords ==
  ASSUME NEW c, NEW st, SnapOK(st), Export(c) = st.records
  PROVE  LET rec == st.records
             lists == Lists(c, st)
         IN /\ ProfileMode(rec) = "vpn" =>
                 lists.rules = rec.bypass /\ lists.inert = rec.vpn
            /\ ProfileMode(rec) = "bypass" =>
                 lists.rules = rec.vpn /\ lists.inert = rec.bypass
            /\ (ProfileMode(rec) \notin {"vpn", "bypass"} /\ rec.proxy) =>
                 lists.rules = rec.direct
            /\ (ProfileMode(rec) \notin {"vpn", "bypass"} /\ ~rec.proxy) =>
                 lists.rules = <<>>
<1> DEFINE rec == st.records
           p == c.profiles[rec.profile]
<1>1. rec.direct = c.direct
  BY DEF Export
<1>2. rec.profile # None =>
        p # None /\ rec.vpn = p.vpn /\ rec.bypass = p.bypass
  BY DEF Export
<1>3. CASE ProfileMode(rec) \in {"vpn", "bypass"}
  <2>1. rec.profile # None
    BY <1>3 DEF ProfileMode
  <2>2. Lists(c, st) = IF ProfileMode(rec) = "bypass"
                         THEN [rules |-> p.vpn, inert |-> p.bypass]
                         ELSE [rules |-> p.bypass, inert |-> p.vpn]
    BY <1>2, <1>3, <2>1 DEF Lists, PreviewMode
  <2> QED
    BY <1>2, <1>3, <2>1, <2>2
<1>4. CASE ProfileMode(rec) \notin {"vpn", "bypass"}
  <2>1. Lists(c, st) = IF rec.proxy THEN [rules |-> c.direct, inert |-> <<>>]
                       ELSE [rules |-> <<>>, inert |-> <<>>]
    BY <1>4 DEF Lists, PreviewMode
  <2> QED
    BY <1>1, <1>4, <2>1
<1> QED
  BY <1>3, <1>4

\* The verdict on a rule of the list that decides is what happens to what the
\* rule matches.
LEMMA RuleVerdict ==
  ASSUME NEW rec \in Records,
         ProfileMode(rec) \in {"vpn", "bypass"} \/ rec.proxy,
         NEW r \in Entries(EffectiveList(rec)), NEW d \in Destination,
         AtTheirWord(rec, d), ClientMatches(r, d)
  PROVE  CheckDomain(rec, r) = "tunnel" <=> Tunneled(rec, d)
<1>1. InList(rec, r) /\ Matched(Entries(EffectiveList(rec)), d)
  BY DEF InList, LiteralMatch, Matched
<1>2. CheckDomain(rec, r) = "tunnel" <=> ProfileMode(rec) = "bypass"
  BY <1>1 DEF CheckDomain
<1>3. Promised(rec, d) <=> ProfileMode(rec) = "bypass"
  BY <1>1 DEF Promised, EffectiveList
<1> QED
  BY <1>2, <1>3, PolicyEnforced

LEMMA PreviewIsTrue ==
  ASSUME PreviewInv
  PROVE  PreviewTellsTruth
<1> DEFINE pv == status.preview
           rec == pv.st.records
<1> SUFFICES ASSUME pv.stage = "shown", Export(pv.config) = rec
             PROVE  /\ [i \in DOMAIN pv.rows |-> pv.rows[i].rule] = pv.rules
                    /\ Profiled(rec) => {pv.rules, pv.inert} = {rec.vpn, rec.bypass}
                    /\ \A i \in DOMAIN pv.rows, d \in Destination :
                         LET row == pv.rows[i] IN
                         (/\ row.answer # Failed
                          /\ row.answer.records = rec
                          /\ AtTheirWord(rec, d)
                          /\ ClientMatches(row.rule, d)) =>
                           (row.answer.verdict = "tunnel" <=> Tunneled(rec, d))
  BY DEF PreviewTellsTruth
<1>1. CheckGood(pv, calls[RuleCall])
  BY DEF PreviewInv
<1> HIDE DEF pv
<1>2. /\ SnapOK(pv.st)
      /\ pv.rules = Lists(pv.config, pv.st).rules
      /\ pv.inert = Lists(pv.config, pv.st).inert
      /\ RowsGood(pv.rows, pv.rules)
      /\ Len(pv.rows) = Len(pv.rules)
  BY <1>1 DEF CheckGood
<1>3. rec \in Records /\ rec.proxy \in BOOLEAN
  BY <1>2 DEF SnapOK, Records
<1>4. /\ ProfileMode(rec) = "vpn" =>
           pv.rules = rec.bypass /\ pv.inert = rec.vpn
      /\ ProfileMode(rec) = "bypass" =>
           pv.rules = rec.vpn /\ pv.inert = rec.bypass
      /\ (ProfileMode(rec) \notin {"vpn", "bypass"} /\ rec.proxy) =>
           pv.rules = rec.direct
      /\ (ProfileMode(rec) \notin {"vpn", "bypass"} /\ ~rec.proxy) =>
           pv.rules = <<>>
  BY <1>2, ListsOfRecords
<1>5. pv.rules \in Seq(Rule)
  <2>1. /\ rec.vpn \in Seq(Rule) /\ rec.bypass \in Seq(Rule)
        /\ rec.direct \in Seq(Rule) /\ <<>> \in Seq(Rule)
    BY <1>3 DEF Records
  <2> QED
    BY <1>3, <1>4, <2>1
<1>6. PICK S : pv.rows \in Seq(S)
  BY <1>2 DEF RowsGood
<1>7. DOMAIN pv.rows = 1 .. Len(pv.rows) /\ DOMAIN pv.rules = 1 .. Len(pv.rows)
  BY <1>2, <1>5, <1>6
<1>8. \A i \in DOMAIN pv.rows : pv.rows[i].rule = pv.rules[i] /\ RowGood(pv.rows[i])
  BY <1>2, <1>7 DEF RowsGood
<1>9. [i \in DOMAIN pv.rows |-> pv.rows[i].rule] = pv.rules
  <2>1. pv.rules = [i \in DOMAIN pv.rules |-> pv.rules[i]]
    BY <1>5
  <2> QED
    BY <1>7, <1>8, <2>1
<1>10. Profiled(rec) => {pv.rules, pv.inert} = {rec.vpn, rec.bypass}
  BY <1>4 DEF Profiled
<1>11. ASSUME NEW i \in DOMAIN pv.rows, NEW d \in Destination,
              pv.rows[i].answer # Failed, pv.rows[i].answer.records = rec,
              AtTheirWord(rec, d), ClientMatches(pv.rows[i].rule, d)
       PROVE  pv.rows[i].answer.verdict = "tunnel" <=> Tunneled(rec, d)
  <2> DEFINE r == pv.rows[i].rule
  <2>1. r = pv.rules[i] /\ i \in DOMAIN pv.rules
    BY <1>7, <1>8
  <2>2. pv.rows[i].answer.verdict = CheckDomain(rec, r)
    BY <1>8, <1>11 DEF RowGood
  <2>3. ProfileMode(rec) \in {"vpn", "bypass"} \/ rec.proxy
    BY <1>3, <1>4, <2>1
  <2>4. pv.rules = EffectiveList(rec)
    BY <1>3, <1>4, <2>3 DEF EffectiveList
  <2>5. r \in Entries(EffectiveList(rec))
    BY <2>1, <2>4 DEF Entries
  <2> HIDE DEF r
  <2>6. ClientMatches(r, d)
    BY <1>11 DEF r
  <2> QED
    BY <1>3, <1>11, <2>2, <2>3, <2>5, <2>6, RuleVerdict
<1> QED
  BY <1>9, <1>10, <1>11

\* The preview of one state of the settings shows each rule of the list that
\* decides once and in order, the other list as the inert one, and verdicts
\* that are what happens to every connection the rule matches.
THEOREM PreviewTruth == Spec => []PreviewTellsTruth
<1>1. Init => PreviewInv
  BY PreviewInit
<1>2. PreviewInv /\ [Next]_vars => PreviewInv'
  BY PreviewStep
<1>3. PreviewInv => PreviewTellsTruth
  BY PreviewIsTrue
<1> QED
  BY <1>1, <1>2, <1>3, PTL DEF Spec

=============================================================================
