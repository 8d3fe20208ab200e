--------------------------- MODULE WebPages_proofs ---------------------------
(***************************************************************************)
(* The groundwork for what the pages show, for any configurations, rules   *)
(* and bounds and under any interleaving of edits, commits, reconnects,    *)
(* polls and failures.                                                     *)
(*                                                                         *)
(* The argument is the same for all pages: the backend's state keeps to    *)
(* its types; an answer in flight is good when it is made and stays good   *)
(* while the world moves on; no page makes an answer; and what a page      *)
(* shows is an answer it was given.                                        *)
(***************************************************************************)
EXTENDS WebPages, RulePolicy_proofs

-----------------------------------------------------------------------------
(* The backend keeps to its types.                                         *)

World1 == <<config, staged, records, service, bytes, carried, log>>

BackendInv ==
  /\ config \in Configs /\ staged \in Configs
  /\ records \in Records
  /\ service \in Services
  /\ bytes \in Counters \cup {None} /\ carried \in Counters
  /\ log \in [written : Nat, lost : Nat] /\ log.lost <= log.written

LEMMA ExportIsRecords == \A c \in Configs : Export(c) \in Records
BY BackendAssumption

LEMMA FreshIsCounters == \A rec : FreshBytes(rec) \in Counters \cup {None}
BY DEF FreshBytes, Counters

LEMMA StartKeeps ==
  ASSUME NEW rec \in Records, StartWith(rec)
  PROVE  /\ records' \in Records
         /\ service' \in Services
         /\ bytes' \in Counters \cup {None}
BY FreshIsCounters DEF StartWith, Services

LEMMA WorldTypes ==
  ASSUME BackendInv, World
  PROVE  BackendInv'
<1>1. CASE Stage
  BY <1>1 DEF Stage, BackendInv
<1>2. CASE Commit
  <2>1. CASE staged.enabled
    <3>1. StartWith(Export(staged))
      BY <1>2, <2>1 DEF Commit
    <3>2. Export(staged) \in Records
      BY ExportIsRecords DEF BackendInv
    <3> QED
      BY <1>2, <3>1, <3>2, StartKeeps DEF Commit, BackendInv
  <2>2. CASE ~staged.enabled
    BY <1>2, <2>2 DEF Commit, BackendInv, Services
  <2> QED
    BY <2>1, <2>2
<1>3. CASE Connect
  BY <1>3 DEF Connect, BackendInv, Services, Counters
<1>4. CASE Drop
  BY <1>4 DEF Drop, BackendInv, Services
<1>5. CASE Die
  BY <1>5 DEF Die, BackendInv, Services
<1>6. ASSUME NEW way \in {"rx", "tx"}, Traffic(way)
      PROVE  BackendInv'
  <2>1. bytes \in Counters
    BY <1>6 DEF Traffic, BackendInv
  <2> QED
    BY <1>6, <2>1 DEF Traffic, BackendInv, Counters
<1>7. CASE WriteLog
  BY <1>7 DEF WriteLog, BackendInv
<1>8. CASE LoseLines
  BY <1>8 DEF LoseLines, BackendInv
<1> QED
  BY <1>1, <1>2, <1>3, <1>4, <1>5, <1>6, <1>7, <1>8 DEF World

LEMMA ServiceTypes ==
  ASSUME BackendInv, NEW lost \in BOOLEAN, AnswerService(lost)
  PROVE  BackendInv'
<1>1. CASE StartEffect
  <2>1. Export(config) \in Records
    BY ExportIsRecords DEF BackendInv
  <2>2. CASE StartWith(Export(config))
    BY <2>1, <2>2, StartKeeps DEF AnswerService, BackendInv
  <2>3. CASE ~StartWith(Export(config))
    BY <1>1, <2>3, FreshIsCounters DEF StartEffect, AnswerService, BackendInv
  <2> QED
    BY <2>2, <2>3
<1>2. CASE StopEffect
  BY <1>2 DEF StopEffect, AnswerService, BackendInv, Services
<1> QED
  BY <1>1, <1>2 DEF AnswerService

LEMMA AnswersTypes ==
  ASSUME BackendInv, Answers
  PROVE  BackendInv'
<1>1. ASSUME NEW ch, AnswerRead(ch) \/ BeginDiagnose(ch) PROVE BackendInv'
  BY <1>1 DEF AnswerRead, BeginDiagnose, backend, BackendInv
<1>2. ASSUME NEW ch, NEW net, EndDiagnose(ch, net) PROVE BackendInv'
  BY <1>2 DEF EndDiagnose, BackendInv
<1>3. ASSUME NEW ch, Fail(ch) \/ LogUnread(ch) PROVE BackendInv'
  BY <1>3 DEF Fail, LogUnread, BackendInv
<1> QED
  BY <1>1, <1>2, <1>3, ServiceTypes DEF Answers

-----------------------------------------------------------------------------
(* The pages leave the backend alone and make no answers.                  *)

\* Everything a page does with the calls: it sends some and forgets others,
\* and what one asks about is a query.
PageCalls ==
  /\ calls' = [ch \in Channels |-> calls'[ch]]
  /\ \A ch \in Channels :
       \/ calls'[ch] = calls[ch]
       \/ calls'[ch] = Idle
       \/ /\ calls'[ch].stage \notin {"begun", "answered"}
          /\ ch[1] = "domain" => calls'[ch].arg \in Queries

CallsFn == calls = [ch \in Channels |-> calls[ch]]

PageStep == StatusStep \/ ToolStep \/ LogStep

LEMMA PageKeepsBackend ==
  ASSUME PageStep
  PROVE  UNCHANGED World1
<1>1. CASE StatusStep
  BY <1>1 DEF StatusStep, OpenStatus, RenderStatus, PollStatus, RefreshStatus,
    LeaveStatus, RunAction, ActionAnswered, OpenPreview, PreviewLoaded,
    PreviewChecked, ClosePreview, Enter, backend, World1
<1>2. CASE ToolStep
  BY <1>2 DEF ToolStep, OpenTools, LeaveTools, PressButton, FillBox, CopyReport,
    CloseReport, Enter, backend, World1
<1>3. CASE LogStep
  BY <1>3 DEF LogStep, OpenLog, RenderLog, PollLog, RefreshLog, ExportLog,
    Exported, LeaveLog, OpenVersions, RenderVersions, LeaveVersions, Enter,
    backend, World1
<1> QED
  BY <1>1, <1>2, <1>3 DEF PageStep

LEMMA CallCalls ==
  ASSUME CallsFn, NEW ch \in Channels, ch[1] # "domain", NEW arg,
         calls' = Call(ch, arg)
  PROVE  PageCalls
BY DEF CallsFn, PageCalls, Call

LEMMA HungCalls ==
  ASSUME CallsFn, NEW ch, calls' = Hung(ch)
  PROVE  PageCalls
BY DEF CallsFn, PageCalls, Hung

LEMMA SameCalls ==
  ASSUME CallsFn, UNCHANGED calls
  PROVE  PageCalls
BY DEF CallsFn, PageCalls

LEMMA AbandonedCalls ==
  ASSUME calls' = Abandoned
  PROVE  PageCalls
BY DEF PageCalls, Abandoned, NoCalls, ServiceCall

LEMMA NextCheckCalls ==
  ASSUME NEW cs, cs = [ch \in Channels |-> cs[ch]],
         \A ch \in Channels : cs[ch] = calls[ch] \/ cs[ch] = Idle,
         NEW pv, calls' = NextCheck(pv, cs)
  PROVE  PageCalls
<1> DEFINE sent == [arg |-> pv.rules[Len(pv.rows) + 1], stage |-> "sent", value |-> None]
           c == IF pv.stage = "checking" THEN sent ELSE Idle
<1>0. c = Idle \/ c.stage \notin {"begun", "answered"}
  OBVIOUS
<1>1. calls' = [cs EXCEPT ![RuleCall] = c]
  BY DEF NextCheck
<1> HIDE DEF c
<1>2. calls' = [ch \in Channels |-> calls'[ch]]
  BY <1>1
<1>3. ASSUME NEW ch \in Channels
      PROVE  calls'[ch] = IF ch = RuleCall THEN c ELSE cs[ch]
  BY <1>1
<1>4. RuleCall[1] # "domain"
  BY DEF RuleCall
<1> QED
  BY <1>0, <1>2, <1>3, <1>4 DEF PageCalls

LEMMA FixedChannels ==
  {StatusCall, ServiceCall, UciCall, RuleCall, LogCall, VersionsCall} \subseteq
    {ch \in Channels : ch[1] # "domain"}
BY DEF Channels, StatusCall, ServiceCall, UciCall, RuleCall, LogCall, VersionsCall

LEMMA StatusCalls ==
  ASSUME CallsFn, StatusStep
  PROVE  PageCalls
<1>1. CASE OpenStatus \/ PollStatus
  BY <1>1, CallCalls, FixedChannels DEF OpenStatus, PollStatus
<1>2. CASE RenderStatus \/ (\E soon \in BOOLEAN : RefreshStatus(soon)) \/ ActionAnswered
  BY <1>2, HungCalls DEF RenderStatus, RefreshStatus, ActionAnswered
<1>3. CASE LeaveStatus
  BY <1>3, AbandonedCalls DEF LeaveStatus
<1>4. CASE \E action \in {"start", "stop"} : RunAction(action)
  BY <1>4, CallCalls, FixedChannels DEF RunAction
<1>5. CASE OpenPreview
  <2>1. CASE cache = None
    BY <1>5, <2>1, CallCalls, SameCalls, FixedChannels DEF OpenPreview
  <2>2. CASE cache # None
    <3>1. PICK pv : calls' = NextCheck(pv, calls)
      BY <1>5, <2>2 DEF OpenPreview, ShowPreview
    <3> QED
      BY <3>1, NextCheckCalls DEF CallsFn
  <2> QED
    BY <2>1, <2>2
<1>6. CASE PreviewLoaded
  <2>1. CASE calls' = Hung(UciCall)
    BY <2>1, HungCalls
  <2>2. CASE calls' # Hung(UciCall)
    <3>1. PICK pv : calls' = NextCheck(pv, Hung(UciCall))
      BY <1>6, <2>2 DEF PreviewLoaded, ShowPreview
    <3>2. /\ Hung(UciCall) = [ch \in Channels |-> Hung(UciCall)[ch]]
          /\ \A ch \in Channels :
               Hung(UciCall)[ch] = calls[ch] \/ Hung(UciCall)[ch] = Idle
      BY DEF Hung, CallsFn
    <3> QED
      BY <3>1, <3>2, NextCheckCalls
  <2> QED
    BY <2>1, <2>2
<1>7. CASE PreviewChecked
  <2>1. PICK pv : calls' = NextCheck(pv, calls)
    BY <1>7 DEF PreviewChecked, ShowPreview
  <2> QED
    BY <2>1, NextCheckCalls DEF CallsFn
<1>8. CASE ClosePreview
  BY <1>8, HungCalls DEF ClosePreview
<1> QED
  BY <1>1, <1>2, <1>3, <1>4, <1>5, <1>6, <1>7, <1>8 DEF StatusStep

LEMMA ToolCalls ==
  ASSUME CallsFn, ToolStep
  PROVE  PageCalls
<1>1. CASE (\E page \in {"diagnostics", "tools"} : OpenTools(page))
             \/ CopyReport \/ CloseReport
  BY <1>1, SameCalls DEF OpenTools, CopyReport, CloseReport
<1>2. CASE LeaveTools
  BY <1>2, AbandonedCalls DEF LeaveTools
<1>3. ASSUME NEW b \in Boxes, NEW k \in Slots, NEW arg, PressButton(b, k, arg)
      PROVE  PageCalls
  <2>1. b = "domain" => arg \in Queries
    BY <1>3 DEF PressButton
  <2>2. calls' = Call(<<b, k>>, arg)
    BY <1>3 DEF PressButton
  <2> QED
    BY <2>1, <2>2 DEF CallsFn, PageCalls, Call
<1>4. ASSUME NEW b \in Boxes, NEW k \in Slots, FillBox(b, k) PROVE PageCalls
  BY <1>4, HungCalls DEF FillBox
<1> QED
  BY <1>1, <1>2, <1>3, <1>4 DEF ToolStep

LEMMA LogCalls ==
  ASSUME CallsFn, LogStep
  PROVE  PageCalls
<1>1. CASE OpenLog \/ PollLog \/ OpenVersions
  BY <1>1, CallCalls, FixedChannels DEF OpenLog, PollLog, OpenVersions
<1>2. CASE RenderLog \/ RefreshLog \/ RenderVersions
  BY <1>2, HungCalls DEF RenderLog, RefreshLog, RenderVersions
<1>3. CASE LeaveLog \/ LeaveVersions
  BY <1>3, AbandonedCalls DEF LeaveLog, LeaveVersions
<1>4. ASSUME NEW k \in Slots, ExportLog(k) PROVE PageCalls
  <2>1. <<"export", k>> \in Channels /\ <<"export", k>>[1] # "domain"
    BY DEF Channels
  <2> QED
    BY <1>4, <2>1, CallCalls DEF ExportLog
<1>5. ASSUME NEW k \in Slots, Exported(k) PROVE PageCalls
  BY <1>5, HungCalls DEF Exported
<1> QED
  BY <1>1, <1>2, <1>3, <1>4, <1>5 DEF LogStep

LEMMA PageMakesNoAnswer ==
  ASSUME CallsFn, PageStep
  PROVE  PageCalls
BY StatusCalls, ToolCalls, LogCalls DEF PageStep

-----------------------------------------------------------------------------
(* The answers.                                                            *)

\* An answer of a method that only reads is what it reads, or a failure; that
\* of the log may also be nothing.
AnswerCalls ==
  /\ CallsFn'
  /\ \A ch \in ReadChannels :
       \/ calls'[ch] = calls[ch]
       \/ /\ At(ch, "sent")
          /\ UNCHANGED World1
          /\ calls'[ch].stage = "answered"
          /\ calls'[ch].arg = calls[ch].arg
          /\ calls'[ch].value \in {ReadAnswer(ch), Failed} \/ ch \in LogReads

LEMMA ReplyCalls ==
  ASSUME CallsFn, NEW ch \in Channels, NEW v, calls' = Reply(ch, v)
  PROVE  /\ CallsFn'
         /\ \A o \in Channels : o # ch => calls'[o] = calls[o]
         /\ calls'[ch] = [arg |-> calls[ch].arg, stage |-> "answered", value |-> v]
BY DEF CallsFn, Reply

LEMMA ChannelKinds ==
  /\ ReadChannels \subseteq Channels
  /\ \A k \in Slots : <<"diagnose", k>> \in Channels \ ReadChannels
  /\ ServiceCall \in Channels \ ReadChannels
  /\ StatusCall \in ReadChannels \ LogReads
  /\ {UciCall, RuleCall} \subseteq ReadChannels \ LogReads
  /\ LogReads \subseteq ReadChannels
  /\ \A k \in Slots : <<"domain", k>> \in ReadChannels \ LogReads
BY DEF ReadChannels, LogReads, Channels, Boxes, StatusCall, ServiceCall, UciCall,
  RuleCall, LogCall, VersionsCall

LEMMA AnswersAnswer ==
  ASSUME CallsFn, Answers
  PROVE  AnswerCalls
<1>1. ASSUME NEW ch \in ReadChannels, AnswerRead(ch)
      PROVE  AnswerCalls
  <2>1. /\ ch \in Channels /\ At(ch, "sent") /\ UNCHANGED World1
        /\ calls' = Reply(ch, ReadAnswer(ch))
    BY <1>1, ChannelKinds DEF AnswerRead, backend, World1
  <2>2. /\ CallsFn'
        /\ \A o \in Channels : o # ch => calls'[o] = calls[o]
        /\ calls'[ch] = [arg |-> calls[ch].arg, stage |-> "answered",
                         value |-> ReadAnswer(ch)]
    BY <2>1, ReplyCalls
  <2> QED
    BY <2>1, <2>2, ChannelKinds DEF AnswerCalls
<1>2. ASSUME NEW k \in Slots, BeginDiagnose(<<"diagnose", k>>)
      PROVE  AnswerCalls
  BY <1>2, ChannelKinds DEF BeginDiagnose, AnswerCalls, CallsFn
<1>3. ASSUME NEW k \in Slots, NEW net \in BOOLEAN,
             EndDiagnose(<<"diagnose", k>>, net)
      PROVE  AnswerCalls
  BY <1>3, ChannelKinds, ReplyCalls DEF EndDiagnose, AnswerCalls
<1>4. ASSUME NEW lost \in BOOLEAN, AnswerService(lost)
      PROVE  AnswerCalls
  <2>1. CASE calls' = Hung(ServiceCall)
    BY <2>1, ChannelKinds DEF AnswerCalls, CallsFn, Hung
  <2>2. CASE calls' # Hung(ServiceCall)
    <3>1. PICK v : calls' = Reply(ServiceCall, v)
      BY <1>4, <2>2 DEF AnswerService
    <3> QED
      BY <3>1, ChannelKinds, ReplyCalls DEF AnswerCalls
  <2> QED
    BY <2>1, <2>2
<1>6. ASSUME NEW ch \in LogReads, LogUnread(ch)
      PROVE  AnswerCalls
  <2>1. /\ ch \in Channels /\ At(ch, "sent") /\ UNCHANGED World1
        /\ calls' = Reply(ch, {})
    BY <1>6, ChannelKinds DEF LogUnread, World1
  <2>2. /\ CallsFn'
        /\ \A o \in Channels : o # ch => calls'[o] = calls[o]
        /\ calls'[ch] = [arg |-> calls[ch].arg, stage |-> "answered", value |-> {}]
    BY <2>1, ReplyCalls
  <2> QED
    BY <2>1, <2>2, ChannelKinds DEF AnswerCalls
<1>5. ASSUME NEW ch \in Channels, Fail(ch)
      PROVE  AnswerCalls
  <2>1. At(ch, "sent") /\ UNCHANGED World1 /\ calls' = Reply(ch, Failed)
    BY <1>5 DEF Fail, World1
  <2>2. /\ CallsFn'
        /\ \A o \in Channels : o # ch => calls'[o] = calls[o]
        /\ calls'[ch] = [arg |-> calls[ch].arg, stage |-> "answered", value |-> Failed]
    BY <2>1, ReplyCalls
  <2> QED
    BY <2>1, <2>2, ChannelKinds DEF AnswerCalls
<1> QED
  BY <1>1, <1>2, <1>3, <1>4, <1>5, <1>6 DEF Answers

-----------------------------------------------------------------------------
(* What a status can be, and how the counters move on from it.             *)

SnapOK(st) ==
  /\ st.records \in Records
  /\ st.running \in BOOLEAN /\ st.up \in BOOLEAN
  /\ st.bytes \in Counters \cup {None} /\ st.carried \in Counters

LEMMA StatusIsOK ==
  ASSUME BackendInv
  PROVE  SnapOK(Status)
<1>1. service.running \in BOOLEAN /\ service.up \in BOOLEAN
  <2>1. CASE service = Stopped
    BY <2>1 DEF Stopped
  <2>2. CASE service = Connecting
    BY <2>2 DEF Connecting
  <2>3. CASE service = Working
    BY <2>3 DEF Working
  <2>4. CASE service = Dead
    BY <2>4 DEF Dead
  <2> QED
    BY <2>1, <2>2, <2>3, <2>4 DEF BackendInv, Services
<1>2. records.proxy \in BOOLEAN /\ records.listen \in BOOLEAN
  BY DEF BackendInv, Records
<1>3. /\ Status.records = records /\ Status.running = service.running
      /\ Status.up = (service.up /\ (records.proxy => records.listen))
      /\ Status.bytes = bytes /\ Status.carried = carried
  BY DEF Status
<1> QED
  BY <1>1, <1>2, <1>3 DEF BackendInv, SnapOK

\* From the counters b1 and the c1 bytes carried then to b2 and c2: what the
\* counters gained, they gained by what was carried, however often they were
\* reset in between.
Ahead(b1, c1, b2, c2) ==
  /\ c1.rx <= c2.rx /\ c1.tx <= c2.tx
  /\ (b1 # None /\ b2 # None) =>
       /\ b2.rx - b1.rx <= c2.rx - c1.rx
       /\ b2.tx - b1.tx <= c2.tx - c1.tx

\* Every event leaves the counters as they are, counts what is carried, or
\* starts them anew.
CountersMove ==
  \/ UNCHANGED <<bytes, carried>>
  \/ carried' = carried /\ bytes' \in {None, [rx |-> 0, tx |-> 0]}
  \/ /\ bytes \in Counters /\ bytes # None
     /\ \E way \in {"rx", "tx"} :
          /\ bytes' = [bytes EXCEPT ![way] = @ + 1]
          /\ carried' = [carried EXCEPT ![way] = @ + 1]

LEMMA EventsMoveCounters ==
  ASSUME BackendInv, World \/ Answers
  PROVE  CountersMove
<1>1. CASE Stage \/ WriteLog \/ LoseLines
  BY <1>1 DEF Stage, WriteLog, LoseLines, CountersMove
<1>2. CASE Commit
  BY <1>2 DEF Commit, StartWith, FreshBytes, CountersMove
<1>3. CASE Connect \/ Drop \/ Die
  BY <1>3 DEF Connect, Drop, Die, CountersMove
<1>4. ASSUME NEW way \in {"rx", "tx"}, Traffic(way) PROVE CountersMove
  BY <1>4 DEF Traffic, CountersMove, BackendInv
<1>5. ASSUME NEW lost \in BOOLEAN, AnswerService(lost) PROVE CountersMove
  BY <1>5 DEF AnswerService, StartEffect, StopEffect, StartWith, FreshBytes,
              CountersMove
<1>6. ASSUME NEW ch,
             AnswerRead(ch) \/ LogUnread(ch) \/ BeginDiagnose(ch) \/ Fail(ch)
      PROVE  CountersMove
  BY <1>6 DEF AnswerRead, LogUnread, BeginDiagnose, Fail, backend, CountersMove
<1>7. ASSUME NEW ch, NEW net, EndDiagnose(ch, net) PROVE CountersMove
  BY <1>7 DEF EndDiagnose, CountersMove
<1> QED
  BY <1>1, <1>2, <1>3, <1>4, <1>5, <1>6, <1>7 DEF World, Answers

LEMMA MovesStayAhead ==
  ASSUME BackendInv, CountersMove,
         NEW b \in Counters \cup {None}, NEW c \in Counters,
         Ahead(b, c, bytes, carried)
  PROVE  Ahead(b, c, bytes', carried')
<1>1. CASE UNCHANGED <<bytes, carried>>
  BY <1>1 DEF Ahead
<1>2. CASE carried' = carried /\ bytes' \in {None, [rx |-> 0, tx |-> 0]}
  BY <1>2 DEF Ahead, Counters, BackendInv
<1>3. ASSUME bytes \in Counters, bytes # None, NEW way \in {"rx", "tx"},
             bytes' = [bytes EXCEPT ![way] = @ + 1],
             carried' = [carried EXCEPT ![way] = @ + 1]
      PROVE  Ahead(b, c, bytes', carried')
  <2>1. CASE way = "rx"
    BY <1>3, <2>1 DEF Ahead, Counters, BackendInv
  <2>2. CASE way = "tx"
    BY <1>3, <2>2 DEF Ahead, Counters, BackendInv
  <2> QED
    BY <2>1, <2>2
<1> QED
  BY <1>1, <1>2, <1>3 DEF CountersMove

LEMMA WorldCalls ==
  ASSUME World
  PROVE  UNCHANGED calls
BY DEF World, Stage, Commit, Connect, Drop, Die, Traffic, WriteLog, LoseLines

-----------------------------------------------------------------------------
(* The answers in flight.                                                  *)

\* What a step does to the call of a place that only reads.
CallMoves(ch) ==
  \/ calls'[ch] = calls[ch]
  \/ calls'[ch] = Idle
  \/ /\ calls'[ch].stage # "answered"
     /\ ch[1] = "domain" => calls'[ch].arg \in Queries
  \/ /\ At(ch, "sent")
     /\ UNCHANGED World1
     /\ calls'[ch].stage = "answered"
     /\ calls'[ch].arg = calls[ch].arg
     /\ calls'[ch].value \in {ReadAnswer(ch), Failed} \/ ch \in LogReads

Moves ==
  /\ BackendInv'
  /\ CallsFn'
  /\ \A ch \in ReadChannels : CallMoves(ch)
  /\ CountersMove

LEMMA StepMoves ==
  ASSUME BackendInv, CallsFn, [Next]_vars
  PROVE  Moves
<1>1. CASE World \/ Answers
  <2>1. BackendInv' /\ CountersMove
    BY <1>1, WorldTypes, AnswersTypes, EventsMoveCounters
  <2>2. CASE World
    BY <2>1, <2>2, WorldCalls DEF Moves, CallMoves, CallsFn
  <2>3. CASE Answers
    <3>1. AnswerCalls
      BY <2>3, AnswersAnswer
    <3>2. \A ch \in ReadChannels : CallMoves(ch)
      BY <3>1 DEF AnswerCalls, CallMoves
    <3> QED
      BY <2>1, <3>1, <3>2 DEF Moves, AnswerCalls
  <2> QED
    BY <1>1, <2>2, <2>3
<1>2. CASE PageStep
  <2>1. UNCHANGED World1 /\ PageCalls
    BY <1>2, PageKeepsBackend, PageMakesNoAnswer
  <2>2. BackendInv' /\ CountersMove
    BY <2>1 DEF BackendInv, World1, CountersMove
  <2>3. CallsFn'
    BY <2>1 DEF PageCalls, CallsFn
  <2>4. \A ch \in ReadChannels : CallMoves(ch)
    BY <2>1, ChannelKinds DEF PageCalls, CallMoves
  <2> QED
    BY <2>2, <2>3, <2>4 DEF Moves
<1>3. CASE UNCHANGED vars
  <2>1. UNCHANGED World1 /\ UNCHANGED calls
    BY <1>3 DEF vars, backend, World1
  <2>2. BackendInv' /\ CountersMove
    BY <2>1 DEF BackendInv, World1, CountersMove
  <2> QED
    BY <2>1, <2>2 DEF Moves, CallMoves, CallsFn
<1> QED
  BY <1>1, <1>2, <1>3 DEF Next, PageStep

\* An answer to status is a status of its time; a domain call asks about a
\* query and is answered from records.
StatusGood ==
  LET st == Answer(StatusCall) IN
  (At(StatusCall, "answered") /\ st # Failed) =>
    SnapOK(st) /\ Ahead(st.bytes, st.carried, bytes, carried)

VerdictGood(q, v) ==
  /\ q \in Queries
  /\ v.records \in Records
  /\ v.verdict = CheckDomain(v.records, q)

DomainGood(ch) ==
  ~Free(ch) =>
    /\ calls[ch].arg \in Queries
    /\ (At(ch, "answered") /\ Answer(ch) # Failed) =>
         VerdictGood(calls[ch].arg, Answer(ch))

AnswersInv ==
  /\ BackendInv
  /\ CallsFn
  /\ StatusGood
  /\ \A k \in Slots : DomainGood(<<"domain", k>>)

LEMMA AnswersInit ==
  ASSUME BackendInit
  PROVE  AnswersInv
<1>1. BackendInv
  BY ExportIsRecords, FreshIsCounters
  DEF BackendInit, BackendInv, Services, Counters
<1>2. CallsFn /\ \A ch \in Channels : Free(ch)
  BY DEF BackendInit, CallsFn, NoCalls, Free
<1> QED
  BY <1>1, <1>2, ChannelKinds
  DEF AnswersInv, StatusGood, DomainGood, At, Free, Idle

LEMMA StatusStaysGood ==
  ASSUME AnswersInv, Moves
  PROVE  StatusGood'
<1>1. CASE calls'[StatusCall] = calls[StatusCall]
  <2> SUFFICES ASSUME At(StatusCall, "answered"), Answer(StatusCall) # Failed
               PROVE  LET st == Answer(StatusCall) IN
                      SnapOK(st) /\ Ahead(st.bytes, st.carried, bytes', carried')
    BY <1>1 DEF StatusGood, At, Free, Answer, SnapOK
  <2> DEFINE st == Answer(StatusCall)
  <2>1. SnapOK(st) /\ Ahead(st.bytes, st.carried, bytes, carried)
    BY DEF AnswersInv, StatusGood
  <2>2. st.bytes \in Counters \cup {None} /\ st.carried \in Counters
    BY <2>1 DEF SnapOK
  <2> HIDE DEF st
  <2>3. Ahead(st.bytes, st.carried, bytes', carried')
    BY <2>1, <2>2, MovesStayAhead DEF AnswersInv, Moves
  <2> QED
    BY <2>1, <2>3 DEF st
<1>2. CASE calls'[StatusCall] = Idle \/ calls'[StatusCall].stage # "answered"
  BY <1>2 DEF StatusGood, At, Idle
<1>3. CASE UNCHANGED World1 /\ calls'[StatusCall].value \in {Status, Failed}
  <2>1. SnapOK(Status) /\ Status.bytes = bytes /\ Status.carried = carried
    BY StatusIsOK DEF AnswersInv, Status
  <2>2. bytes' = bytes /\ carried' = carried
    BY <1>3 DEF World1
  <2>3. Ahead(bytes, carried, bytes, carried)
    BY DEF Ahead, AnswersInv, BackendInv, Counters
  <2> QED
    BY <1>3, <2>1, <2>2, <2>3 DEF StatusGood, Answer, SnapOK
<1>4. ReadAnswer(StatusCall) = Status
  BY DEF ReadAnswer, StatusCall, UciCall, RuleCall, LogCall, VersionsCall
<1> QED
  BY <1>1, <1>2, <1>3, <1>4, ChannelKinds DEF Moves, CallMoves

LEMMA DomainStaysGood ==
  ASSUME AnswersInv, Moves,
         NEW ch \in ReadChannels \ LogReads, ch[1] = "domain", ReadAnswer(ch) = Verdict(calls[ch].arg),
         DomainGood(ch)
  PROVE  DomainGood(ch)'
<1>1. CASE calls'[ch] = calls[ch]
  BY <1>1 DEF DomainGood, At, Free, Answer, VerdictGood
<1>2. CASE calls'[ch] = Idle
  BY <1>2 DEF DomainGood, At, Free
<1>3. CASE calls'[ch].stage # "answered" /\ calls'[ch].arg \in Queries
  BY <1>3 DEF DomainGood, At, Free
<1>4. CASE /\ At(ch, "sent") /\ calls'[ch].arg = calls[ch].arg
           /\ calls'[ch].value \in {Verdict(calls[ch].arg), Failed}
  <2>1. calls[ch].arg \in Queries
    BY <1>4 DEF DomainGood, At, Free, Idle
  <2>2. VerdictGood(calls[ch].arg, Verdict(calls[ch].arg))
    BY <2>1 DEF VerdictGood, Verdict, AnswersInv, BackendInv
  <2> QED
    BY <1>4, <2>1, <2>2 DEF DomainGood, Answer, VerdictGood
<1> QED
  BY <1>1, <1>2, <1>3, <1>4 DEF Moves, CallMoves

LEMMA AnswersStayGood ==
  ASSUME AnswersInv, [Next]_vars
  PROVE  Moves /\ AnswersInv'
<1>1. Moves
  BY StepMoves DEF AnswersInv
<1>2. ASSUME NEW k \in Slots
      PROVE  DomainGood(<<"domain", k>>)'
  <2>1. <<"domain", k>> \in ReadChannels \ LogReads /\ <<"domain", k>>[1] = "domain"
    BY ChannelKinds
  <2>2. ReadAnswer(<<"domain", k>>) = Verdict(calls[<<"domain", k>>].arg)
    BY DEF ReadAnswer, StatusCall, UciCall, RuleCall, LogCall, VersionsCall
  <2>3. DomainGood(<<"domain", k>>)
    BY DEF AnswersInv
  <2> QED
    BY <1>1, <2>1, <2>2, <2>3, DomainStaysGood
<1> QED
  BY <1>1, <1>2, StatusStaysGood DEF AnswersInv, Moves

-----------------------------------------------------------------------------
(* Which page is open, and what it waits for.                              *)

StatusRec ==
  status = [phase |-> status.phase, snap |-> status.snap, rate |-> status.rate,
            modal |-> status.modal, note |-> status.note,
            preview |-> status.preview]

BoxFn == DOMAIN box = Boxes

LogRec ==
  logPage = [phase |-> logPage.phase, shown |-> logPage.shown,
             file |-> logPage.file, failed |-> logPage.failed]

\* A page that is not open shows nothing.
OthersClosed ==
  /\ view # "status" => status = StatusClosed
  /\ \A b \in Boxes : box[b].kind # "empty" => view = PageOf(b)
  /\ view # "log" => logPage = LogClosed
  /\ view # "versions" => versions = VersionsClosed

\* A call that a box or the export waits for is one of the page that is open.
CallsOfPage ==
  /\ \A b \in Boxes, k \in Slots : ~Free(<<b, k>>) => view = PageOf(b)
  /\ \A k \in Slots : ~Free(<<"export", k>>) => view = "log"

\* NoOrphanSpinner, page by page.
StatusWaits ==
  /\ "stage" \in DOMAIN status.preview
  /\ status.phase = "loading" => ~Free(StatusCall)
  /\ status.modal = "wait" => At(ServiceCall, "sent") \/ At(ServiceCall, "answered")
  /\ status.preview.stage = "loading" => ~Free(UciCall)
  /\ status.preview.stage = "checking" => ~Free(RuleCall)

ToolsWait ==
  \A b \in Boxes : box[b].kind = "spinning" => \E k \in Slots : ~Free(<<b, k>>)

LogWaits ==
  /\ logPage.phase = "loading" => ~Free(LogCall)
  /\ versions.phase = "loading" => ~Free(VersionsCall)

SpinnerInv ==
  /\ CallsFn /\ StatusRec /\ BoxFn /\ LogRec
  /\ OthersClosed
  /\ CallsOfPage
  /\ StatusWaits /\ ToolsWait /\ LogWaits

StatusChannels == {StatusCall, ServiceCall, UciCall, RuleCall}
LogChannels == {LogCall, VersionsCall}

LEMMA ChannelsDiffer ==
  /\ StatusChannels \subseteq Channels /\ LogChannels \subseteq Channels
  /\ StatusChannels \cap LogChannels = {}
  /\ \A b \in Boxes, k \in Slots : <<b, k>> \in Channels \ (StatusChannels \cup LogChannels)
  /\ \A k \in Slots : <<"export", k>> \in Channels \ (StatusChannels \cup LogChannels)
  /\ \A b \in Boxes, j, k \in Slots : <<b, k>> # <<"export", j>>
  /\ \A b, c \in Boxes, j, k \in Slots : b # c => <<b, k>> # <<c, j>>
<1>1. \A ch \in StatusChannels : ch[1] \in {"status", "service", "uci", "rule"}
  BY DEF StatusChannels, StatusCall, ServiceCall, UciCall, RuleCall
<1>2. \A ch \in LogChannels : ch[1] \in {"log", "versions"}
  BY DEF LogChannels, LogCall, VersionsCall
<1>3. /\ \A b, k : <<b, k>>[1] = b
      /\ \A b \in Boxes : b \in {"diagnose", "domain", "ping", "probe"}
  BY DEF Boxes
<1>4. /\ StatusChannels \subseteq Channels /\ LogChannels \subseteq Channels
      /\ \A b \in Boxes, k \in Slots : <<b, k>> \in Channels
      /\ \A k \in Slots : <<"export", k>> \in Channels
  BY DEF Channels, StatusChannels, LogChannels
<1>5. StatusChannels \cap LogChannels = {}
  BY <1>1, <1>2
<1>6. ASSUME NEW b, NEW k, b \in {"diagnose", "domain", "ping", "probe", "export"}
      PROVE  <<b, k>> \notin StatusChannels \cup LogChannels
  BY <1>1, <1>2, <1>3, <1>6
<1> QED
  BY <1>3, <1>4, <1>5, <1>6

LEMMA StatusChannelsDiffer ==
  /\ StatusCall # ServiceCall /\ StatusCall # UciCall /\ StatusCall # RuleCall
  /\ ServiceCall # UciCall /\ ServiceCall # RuleCall /\ UciCall # RuleCall
  /\ LogCall # VersionsCall
BY DEF StatusCall, ServiceCall, UciCall, RuleCall, LogCall, VersionsCall

LEMMA CallChanges ==
  ASSUME CallsFn, NEW ch \in Channels, NEW arg, calls' = Call(ch, arg)
  PROVE  /\ \A o \in Channels : o # ch => calls'[o] = calls[o]
         /\ At(ch, "sent")' /\ ~Free(ch)'
BY DEF CallsFn, Call, At, Free, Idle

LEMMA HungChanges ==
  ASSUME CallsFn, NEW ch \in Channels, calls' = Hung(ch)
  PROVE  /\ \A o \in Channels : o # ch => calls'[o] = calls[o]
         /\ Free(ch)'
BY DEF CallsFn, Hung, Free

LEMMA NextCheckChanges ==
  ASSUME NEW cs, cs = [ch \in Channels |-> cs[ch]],
         NEW pv, calls' = NextCheck(pv, cs)
  PROVE  /\ \A o \in Channels : o # RuleCall => calls'[o] = cs[o]
         /\ pv.stage = "checking" => ~Free(RuleCall)'
<1> DEFINE sent == [arg |-> pv.rules[Len(pv.rows) + 1], stage |-> "sent", value |-> None]
           c == IF pv.stage = "checking" THEN sent ELSE Idle
<1>1. pv.stage = "checking" => c # Idle
  BY DEF Idle
<1>2. calls' = [cs EXCEPT ![RuleCall] = c]
  BY DEF NextCheck
<1> HIDE DEF c
<1>3. \A o \in Channels : calls'[o] = IF o = RuleCall THEN c ELSE cs[o]
  BY <1>2
<1>4. RuleCall \in Channels
  BY DEF Channels
<1> QED
  BY <1>1, <1>3, <1>4 DEF Free

\* An answer frees no place but that of an orphaned start or stop.
LEMMA AnswersKeepWaiting ==
  ASSUME CallsFn, Answers
  PROVE  /\ UNCHANGED view
         /\ \A ch \in Channels : Free(ch) => Free(ch)'
         /\ \A ch \in Channels : ch # ServiceCall => (Free(ch)' => Free(ch))
         /\ At(ServiceCall, "sent") \/ At(ServiceCall, "answered") =>
              At(ServiceCall, "sent")' \/ At(ServiceCall, "answered")'
<1> DEFINE Keeps == /\ \A ch \in Channels : Free(ch) => Free(ch)'
                    /\ \A ch \in Channels : ch # ServiceCall => (Free(ch)' => Free(ch))
                    /\ At(ServiceCall, "sent") \/ At(ServiceCall, "answered") =>
                         At(ServiceCall, "sent")' \/ At(ServiceCall, "answered")'
<1>1. ServiceCall \in Channels
  BY ChannelKinds
<1>2. ASSUME NEW ch \in Channels, At(ch, "sent") \/ At(ch, "begun"),
             NEW v, calls' = Reply(ch, v)
      PROVE  Keeps
  <2>1. /\ \A o \in Channels : o # ch => calls'[o] = calls[o]
        /\ calls'[ch] = [arg |-> calls[ch].arg, stage |-> "answered", value |-> v]
    BY <1>2, ReplyCalls
  <2>2. calls'[ch].stage = "answered"
    BY <2>1
  <2>3. ~Free(ch) /\ ~Free(ch)' /\ At(ch, "answered")'
    BY <1>2, <2>2 DEF Free, At, Idle
  <2> QED
    BY <1>1, <2>1, <2>3 DEF Free, At
<1>3. ASSUME NEW ch \in ReadChannels, AnswerRead(ch)
      PROVE  Keeps /\ UNCHANGED view
  BY <1>2, <1>3, ChannelKinds DEF AnswerRead
<1>4. ASSUME NEW k \in Slots, BeginDiagnose(<<"diagnose", k>>)
      PROVE  Keeps /\ UNCHANGED view
  <2> DEFINE ch == <<"diagnose", k>>
  <2>1. ch \in Channels /\ ch # ServiceCall
    BY ChannelsDiffer DEF Boxes, StatusChannels
  <2> HIDE DEF ch
  <2>2. /\ At(ch, "sent")
        /\ calls' = [calls EXCEPT
             ![ch] = [arg |-> @.arg, stage |-> "begun", value |-> Begun]]
    BY <1>4 DEF BeginDiagnose, ch
  <2>3. /\ \A o \in Channels : o # ch => calls'[o] = calls[o]
        /\ calls'[ch] = [arg |-> calls[ch].arg, stage |-> "begun", value |-> Begun]
    BY <2>1, <2>2 DEF CallsFn
  <2>4. ~Free(ch) /\ ~Free(ch)'
    BY <2>2, <2>3 DEF Free, At, Idle
  <2> QED
    BY <1>1, <1>4, <2>1, <2>3, <2>4 DEF Free, At, BeginDiagnose
<1>5. ASSUME NEW k \in Slots, NEW net \in BOOLEAN,
             EndDiagnose(<<"diagnose", k>>, net)
      PROVE  Keeps /\ UNCHANGED view
  BY <1>2, <1>5, ChannelKinds DEF EndDiagnose
<1>6. ASSUME NEW lost \in BOOLEAN, AnswerService(lost)
      PROVE  Keeps /\ UNCHANGED view
  <2>1. CASE At(ServiceCall, "orphaned")
    <3>1. calls' = Hung(ServiceCall)
      BY <1>6, <2>1 DEF AnswerService
    <3>2. ~Free(ServiceCall) /\ ~At(ServiceCall, "sent") /\ ~At(ServiceCall, "answered")
      BY <2>1 DEF At, Free, Idle
    <3> QED
      BY <1>1, <1>6, <3>1, <3>2, HungChanges DEF AnswerService, Free
  <2>2. CASE ~At(ServiceCall, "orphaned")
    <3>1. PICK v : calls' = Reply(ServiceCall, v)
      BY <1>6, <2>2 DEF AnswerService
    <3> QED
      BY <1>1, <1>2, <1>6, <2>2, <3>1 DEF AnswerService
  <2> QED
    BY <2>1, <2>2
<1>7. ASSUME NEW ch \in Channels, Fail(ch)
      PROVE  Keeps /\ UNCHANGED view
  BY <1>2, <1>7 DEF Fail
<1>8. ASSUME NEW ch \in LogReads, LogUnread(ch)
      PROVE  Keeps /\ UNCHANGED view
  BY <1>2, <1>8, ChannelKinds DEF LogUnread
<1> QED
  BY <1>3, <1>4, <1>5, <1>6, <1>7, <1>8 DEF Answers

LEMMA SpinnersOutlastEvents ==
  ASSUME SpinnerInv, World \/ Answers, UNCHANGED <<statusPage, toolPages, logPages>>
  PROVE  SpinnerInv'
<1>1. CASE World
  <2>1. UNCHANGED <<calls, view>>
    BY <1>1 DEF World, Stage, Commit, Connect, Drop, Die, Traffic, WriteLog, LoseLines
  <2> QED
    BY <2>1 DEF SpinnerInv, CallsFn, StatusRec, BoxFn, LogRec, OthersClosed, CallsOfPage,
      StatusWaits, ToolsWait, LogWaits, statusPage, toolPages, logPages, Free, At
<1>2. CASE Answers
  <2>1. /\ UNCHANGED view
        /\ \A ch \in Channels : Free(ch) => Free(ch)'
        /\ \A ch \in Channels : ch # ServiceCall => (Free(ch)' => Free(ch))
        /\ At(ServiceCall, "sent") \/ At(ServiceCall, "answered") =>
             At(ServiceCall, "sent")' \/ At(ServiceCall, "answered")'
    BY <1>2, AnswersKeepWaiting DEF SpinnerInv
  <2>2. CallsFn'
    BY <1>2, AnswersAnswer DEF SpinnerInv, AnswerCalls
  <2>3. StatusRec' /\ BoxFn' /\ LogRec' /\ OthersClosed'
    BY <2>1 DEF SpinnerInv, StatusRec, BoxFn, LogRec, OthersClosed, statusPage, toolPages, logPages
  <2>4. CallsOfPage'
    BY <2>1, ChannelsDiffer DEF SpinnerInv, CallsOfPage
  <2>5. StatusWaits'
    BY <2>1, ChannelsDiffer, StatusChannelsDiffer
    DEF SpinnerInv, StatusWaits, StatusChannels, statusPage
  <2>6. ToolsWait'
    BY <2>1, ChannelsDiffer DEF SpinnerInv, ToolsWait, StatusChannels, toolPages
  <2>7. LogWaits'
    BY <2>1, ChannelsDiffer DEF SpinnerInv, LogWaits, StatusChannels, LogChannels, logPages
  <2> QED
    BY <2>2, <2>3, <2>4, <2>5, <2>6, <2>7 DEF SpinnerInv
<1> QED
  BY <1>1, <1>2

\* A step of the Status page while it is open.
LEMMA OpenStatusSpins ==
  ASSUME SpinnerInv, view = "status", UNCHANGED view,
         UNCHANGED <<toolPages, logPages>>,
         CallsFn', StatusRec', StatusWaits',
         \A ch \in Channels \ StatusChannels : calls'[ch] = calls[ch]
  PROVE  SpinnerInv'
<1>1. BoxFn' /\ LogRec' /\ OthersClosed'
  BY DEF SpinnerInv, BoxFn, LogRec, OthersClosed, toolPages, logPages
<1>2. CallsOfPage'
  BY ChannelsDiffer DEF SpinnerInv, CallsOfPage, Free
<1>3. ToolsWait'
  BY ChannelsDiffer DEF SpinnerInv, ToolsWait, Free, toolPages
<1>4. LogWaits'
  BY ChannelsDiffer DEF SpinnerInv, LogWaits, LogChannels, Free, logPages
<1> QED
  BY <1>1, <1>2, <1>3, <1>4 DEF SpinnerInv

\* Leaving a page closes it, with all calls but a start or a stop.
LEMMA LeavingEndsSpinners ==
  ASSUME CallsFn', calls' = Abandoned, view' = "none", status' = StatusClosed,
         BoxFn', \A b \in Boxes : box'[b].kind = "empty",
         logPage' = LogClosed, versions' = VersionsClosed
  PROVE  SpinnerInv'
<1>1. StatusRec' /\ LogRec' /\ OthersClosed'
  BY DEF StatusRec, StatusClosed, LogRec, LogClosed, OthersClosed
<1>2. \A ch \in Channels : ch # ServiceCall => Free(ch)'
  BY DEF Abandoned, NoCalls, Free
<1>3. CallsOfPage'
  BY <1>2, ChannelsDiffer DEF CallsOfPage, StatusChannels
<1>4. StatusWaits' /\ ToolsWait' /\ LogWaits'
  BY DEF StatusWaits, ToolsWait, LogWaits, StatusClosed, NoPreview, LogClosed,
    VersionsClosed
<1> QED
  BY <1>1, <1>3, <1>4 DEF SpinnerInv

\* With another page or none open, the boxes are empty.
LEMMA NoBoxes ==
  ASSUME SpinnerInv, view \notin {"diagnostics", "tools"}
  PROVE  \A b \in Boxes : box[b].kind = "empty" /\ \A k \in Slots : Free(<<b, k>>)
BY DEF SpinnerInv, OthersClosed, CallsOfPage, PageOf

LEMMA StatusSpins ==
  ASSUME SpinnerInv, StatusStep, UNCHANGED <<toolPages, logPages>>
  PROVE  SpinnerInv'
<1> USE DEF StatusChannels
<1>0. /\ CallsFn /\ StatusRec /\ StatusWaits
      /\ view # "status" => status = StatusClosed
  BY DEF SpinnerInv, OthersClosed
<1>c. CallsFn'
  BY <1>0, StatusCalls DEF PageCalls, CallsFn
<1>v. view # "status" =>
        status.phase = "closed" /\ status.modal = "none" /\ status.preview.stage = "none"
  BY <1>0 DEF StatusClosed, NoPreview
<1>1. CASE OpenStatus
  <2>1. /\ view = "none" /\ view' = "status"
        /\ status' = [StatusClosed EXCEPT !.phase = "loading"]
        /\ calls' = Call(StatusCall, None)
    BY <1>1 DEF OpenStatus, Enter
  <2>2. /\ StatusRec' /\ status'.phase = "loading" /\ status'.modal = "none"
        /\ status'.preview = NoPreview
    BY <2>1 DEF StatusRec, StatusClosed
  <2>3. /\ ~Free(StatusCall)'
        /\ \A ch \in Channels \ StatusChannels : calls'[ch] = calls[ch]
    BY <1>0, <2>1, CallChanges, ChannelsDiffer
  <2>4. StatusWaits'
    BY <2>2, <2>3 DEF StatusWaits, NoPreview
  <2>5. BoxFn' /\ LogRec' /\ OthersClosed'
    BY <2>1, NoBoxes DEF SpinnerInv, BoxFn, LogRec, OthersClosed, toolPages, logPages
  <2>6. CallsOfPage'
    BY <2>1, <2>3, ChannelsDiffer DEF SpinnerInv, CallsOfPage, PageOf, Free
  <2>7. ToolsWait' /\ LogWaits'
    BY <2>3, ChannelsDiffer
    DEF SpinnerInv, ToolsWait, LogWaits, LogChannels, Free, toolPages, logPages
  <2> QED
    BY <1>c, <2>2, <2>4, <2>5, <2>6, <2>7 DEF SpinnerInv
<1>2. CASE RenderStatus \/ \E soon \in BOOLEAN : RefreshStatus(soon)
  <2>1. /\ view = "status" /\ UNCHANGED view
        /\ calls' = Hung(StatusCall)
    BY <1>2, <1>v DEF RenderStatus, RefreshStatus
  <2>2. /\ StatusRec' /\ status'.phase \in {"broken", "shown"}
        /\ status'.modal = status.modal /\ status'.preview = status.preview
    BY <1>0, <1>2 DEF RenderStatus, RefreshStatus, Paint, StatusRec
  <2>3. \A ch \in Channels : ch # StatusCall => calls'[ch] = calls[ch]
    BY <1>0, <2>1, HungChanges, ChannelsDiffer
  <2>4. StatusWaits'
    BY <1>0, <2>2, <2>3, ChannelsDiffer, StatusChannelsDiffer DEF StatusWaits, Free, At
  <2> QED
    BY <1>c, <2>1, <2>2, <2>3, <2>4, OpenStatusSpins
<1>3. CASE PollStatus
  <2>1. /\ view = "status" /\ UNCHANGED <<view, statusPage>>
        /\ status.phase = "shown" /\ calls' = Call(StatusCall, None)
    BY <1>3, <1>v DEF PollStatus
  <2>2. \A ch \in Channels : ch # StatusCall => calls'[ch] = calls[ch]
    BY <1>0, <2>1, CallChanges, ChannelsDiffer
  <2>3. StatusRec' /\ StatusWaits'
    BY <1>0, <2>1, <2>2, ChannelsDiffer, StatusChannelsDiffer
    DEF StatusRec, StatusWaits, Free, At, statusPage
  <2> QED
    BY <1>c, <2>1, <2>2, <2>3, OpenStatusSpins
<1>4. CASE LeaveStatus
  <2>1. /\ view = "status" /\ view' = "none"
        /\ status' = StatusClosed /\ calls' = Abandoned
    BY <1>4 DEF LeaveStatus
  <2>2. \A b \in Boxes : box[b].kind = "empty" /\ \A k \in Slots : Free(<<b, k>>)
    BY <2>1, NoBoxes
  <2>3. logPage' = LogClosed /\ versions' = VersionsClosed /\ UNCHANGED box
    BY <2>1 DEF SpinnerInv, OthersClosed, logPages, toolPages
  <2>4. BoxFn' /\ \A b \in Boxes : box'[b].kind = "empty"
    BY <2>2, <2>3 DEF SpinnerInv, BoxFn
  <2> QED
    BY <1>c, <2>1, <2>3, <2>4, LeavingEndsSpinners
<1>5. ASSUME NEW action \in {"start", "stop"}, RunAction(action)
      PROVE  SpinnerInv'
  <2>1. /\ view = "status" /\ UNCHANGED view
        /\ status.phase = "shown" /\ calls' = Call(ServiceCall, action)
        /\ status' = [status EXCEPT !.modal = "wait"]
    BY <1>5, <1>v DEF RunAction
  <2>2. /\ StatusRec' /\ status'.phase = "shown"
        /\ status'.preview = status.preview
    BY <1>0, <2>1 DEF StatusRec
  <2>3. /\ \A ch \in Channels : ch # ServiceCall => calls'[ch] = calls[ch]
        /\ At(ServiceCall, "sent")'
    BY <1>0, <2>1, CallChanges, ChannelsDiffer
  <2>4. StatusWaits'
    BY <1>0, <2>2, <2>3, ChannelsDiffer, StatusChannelsDiffer DEF StatusWaits, Free
  <2> QED
    BY <1>c, <2>1, <2>2, <2>3, <2>4, OpenStatusSpins
<1>6. CASE ActionAnswered
  <2>1. /\ view = "status" /\ UNCHANGED view /\ calls' = Hung(ServiceCall)
    BY <1>6, <1>v DEF ActionAnswered
  <2>2. /\ StatusRec' /\ status'.phase = status.phase /\ status'.modal = "none"
        /\ status'.preview = status.preview
    BY <1>0, <1>6 DEF ActionAnswered, StatusRec
  <2>3. \A ch \in Channels : ch # ServiceCall => calls'[ch] = calls[ch]
    BY <1>0, <2>1, HungChanges, ChannelsDiffer
  <2>4. StatusWaits'
    BY <1>0, <2>2, <2>3, ChannelsDiffer, StatusChannelsDiffer DEF StatusWaits, Free
  <2> QED
    BY <1>c, <2>1, <2>2, <2>3, <2>4, OpenStatusSpins
<1>p. ASSUME view = "status", UNCHANGED view, NEW pv, NEW cs,
             cs = [ch \in Channels |-> cs[ch]],
             \A ch \in Channels \ {UciCall} : cs[ch] = calls[ch],
             "stage" \in DOMAIN pv, pv.stage \in {"checking", "shown"},
             ShowPreview(pv, cs)
      PROVE  SpinnerInv'
  <2>1. /\ StatusRec' /\ status'.phase = status.phase /\ status'.modal = "preview"
        /\ status'.preview = pv
    BY <1>0, <1>p DEF ShowPreview, StatusRec
  <2>2. /\ \A ch \in Channels : ch # RuleCall => calls'[ch] = cs[ch]
        /\ pv.stage = "checking" => ~Free(RuleCall)'
    BY <1>p, NextCheckChanges DEF ShowPreview
  <2>3. \A ch \in Channels \ {UciCall, RuleCall} : calls'[ch] = calls[ch]
    BY <1>p, <2>2
  <2>4. StatusWaits'
    BY <1>0, <1>p, <2>1, <2>2, <2>3, ChannelsDiffer, StatusChannelsDiffer
    DEF StatusWaits, Free
  <2> QED
    BY <1>c, <1>p, <2>1, <2>3, <2>4, OpenStatusSpins
<1>7. CASE OpenPreview
  <2>1. view = "status" /\ UNCHANGED view /\ status.phase = "shown"
    BY <1>7, <1>v DEF OpenPreview
  <2> DEFINE pv == [stage |-> "loading", st |-> status.snap]
  <2>2. CASE cache = None
    <3>1. /\ status' = [status EXCEPT !.modal = "preview", !.preview = pv]
          /\ calls' = IF Free(UciCall) THEN Call(UciCall, None) ELSE calls
      BY <1>7, <2>2 DEF OpenPreview
    <3>2. /\ StatusRec' /\ status'.phase = "shown" /\ status'.modal = "preview"
          /\ status'.preview = pv
      BY <1>0, <2>1, <3>1 DEF StatusRec
    <3>3. /\ \A ch \in Channels : ch # UciCall => calls'[ch] = calls[ch]
          /\ ~Free(UciCall)'
      BY <1>0, <3>1, CallChanges, ChannelsDiffer DEF Free
    <3>4. StatusWaits'
      BY <3>2, <3>3 DEF StatusWaits
    <3> QED
      BY <1>c, <2>1, <3>2, <3>3, <3>4, OpenStatusSpins
  <2>3. CASE cache # None
    <3>1. ShowPreview(Checking(pv, cache), calls)
      BY <1>7, <2>3 DEF OpenPreview
    <3>2. /\ "stage" \in DOMAIN Checking(pv, cache)
          /\ Checking(pv, cache).stage \in {"checking", "shown"}
      BY DEF Checking
    <3> QED
      BY <1>0, <1>p, <2>1, <3>1, <3>2 DEF CallsFn
  <2> QED
    BY <2>2, <2>3
<1>8. CASE PreviewLoaded
  <2>1. view = "status" /\ UNCHANGED view
    BY <1>8 DEF PreviewLoaded
  <2>2. /\ Hung(UciCall) = [ch \in Channels |-> Hung(UciCall)[ch]]
        /\ \A ch \in Channels \ {UciCall} : Hung(UciCall)[ch] = calls[ch]
    BY <1>0 DEF Hung, CallsFn
  <2>3. CASE status.preview.stage # "loading"
    <3>1. calls' = Hung(UciCall) /\ UNCHANGED status
      BY <1>8, <2>3 DEF PreviewLoaded
    <3>2. StatusRec' /\ StatusWaits'
      BY <1>0, <2>2, <2>3, <3>1, ChannelsDiffer, StatusChannelsDiffer
      DEF StatusRec, StatusWaits, Free, At
    <3> QED
      BY <1>c, <2>1, <2>2, <3>1, <3>2, OpenStatusSpins
  <2>4. CASE status.preview.stage = "loading" /\ Answer(UciCall) = Failed
    <3>1. /\ calls' = Hung(UciCall)
          /\ status' = [status EXCEPT !.preview = [stage |-> "error"]]
      BY <1>8, <2>4 DEF PreviewLoaded
    <3>2. /\ StatusRec' /\ status'.phase = status.phase /\ status'.modal = status.modal
          /\ status'.preview = [stage |-> "error"]
      BY <1>0, <3>1 DEF StatusRec
    <3>3. StatusWaits'
      BY <1>0, <2>2, <3>1, <3>2, ChannelsDiffer, StatusChannelsDiffer
      DEF StatusWaits, Free, At
    <3> QED
      BY <1>c, <2>1, <2>2, <3>1, <3>2, <3>3, OpenStatusSpins
  <2>5. CASE status.preview.stage = "loading" /\ Answer(UciCall) # Failed
    <3>1. ShowPreview(Checking(status.preview, Answer(UciCall)), Hung(UciCall))
      BY <1>8, <2>5 DEF PreviewLoaded
    <3>2. /\ "stage" \in DOMAIN Checking(status.preview, Answer(UciCall))
          /\ Checking(status.preview, Answer(UciCall)).stage \in {"checking", "shown"}
      BY DEF Checking
    <3> QED
      BY <1>p, <2>1, <2>2, <3>1, <3>2
  <2> QED
    BY <2>3, <2>4, <2>5
<1>9. CASE PreviewChecked
  <2>1. view = "status" /\ UNCHANGED view /\ status.preview.stage = "checking"
    BY <1>9, <1>v DEF PreviewChecked
  <2> DEFINE pv == status.preview
             rows == Append(pv.rows, [rule |-> calls[RuleCall].arg, answer |-> Answer(RuleCall)])
             next == [pv EXCEPT
               !.rows = rows,
               !.stage = IF Len(rows) = Len(pv.rules) THEN "shown" ELSE "checking"]
  <2>2. ShowPreview(next, calls)
    BY <1>9 DEF PreviewChecked
  <2>3. "stage" \in DOMAIN next /\ next.stage \in {"checking", "shown"}
    BY <1>0 DEF StatusWaits
  <2> HIDE DEF next
  <2> QED
    BY <1>0, <1>p, <2>1, <2>2, <2>3 DEF CallsFn
<1>10. CASE ClosePreview
  <2>1. view = "status" /\ UNCHANGED view /\ calls' = Hung(RuleCall)
    BY <1>10, <1>v DEF ClosePreview
  <2>2. /\ StatusRec' /\ status'.phase = status.phase /\ status'.modal = "none"
        /\ status'.preview = NoPreview
    BY <1>0, <1>10 DEF ClosePreview, StatusRec
  <2>3. \A ch \in Channels : ch # RuleCall => calls'[ch] = calls[ch]
    BY <1>0, <2>1, HungChanges, ChannelsDiffer
  <2>4. StatusWaits'
    BY <1>0, <2>2, <2>3, ChannelsDiffer, StatusChannelsDiffer
    DEF StatusWaits, Free, NoPreview
  <2> QED
    BY <1>c, <2>1, <2>2, <2>3, <2>4, OpenStatusSpins
<1> QED
  BY <1>1, <1>2, <1>3, <1>4, <1>5, <1>6, <1>7, <1>8, <1>9, <1>10 DEF StatusStep

LEMMA ToolSpins ==
  ASSUME SpinnerInv, ToolStep, UNCHANGED <<statusPage, logPages>>
  PROVE  SpinnerInv'
<1>0. CallsFn /\ BoxFn /\ StatusRec' /\ LogRec'
  BY DEF SpinnerInv, StatusRec, LogRec, statusPage, logPages
<1>c. CallsFn'
  BY <1>0, ToolCalls DEF PageCalls, CallsFn
<1>1. ASSUME view \in {"diagnostics", "tools"}, UNCHANGED view, BoxFn',
             \A b \in Boxes : box'[b].kind # "empty" => view = PageOf(b),
             CallsOfPage', ToolsWait',
             \A ch \in StatusChannels \cup LogChannels : calls'[ch] = calls[ch]
      PROVE  SpinnerInv'
  <2>1. OthersClosed'
    BY <1>1 DEF SpinnerInv, OthersClosed, statusPage, logPages
  <2>2. StatusWaits' /\ LogWaits'
    BY <1>1 DEF SpinnerInv, StatusWaits, LogWaits, StatusChannels, LogChannels, Free, At,
      statusPage, logPages
  <2> QED
    BY <1>0, <1>c, <1>1, <2>1, <2>2 DEF SpinnerInv
<1>2. ASSUME NEW page \in {"diagnostics", "tools"}, OpenTools(page)
      PROVE  SpinnerInv'
  <2>1. /\ view = "none" /\ view' = page /\ UNCHANGED calls
        /\ box' = [b \in Boxes |-> Empty]
    BY <1>2 DEF OpenTools, Enter
  <2>2. BoxFn' /\ OthersClosed' /\ ToolsWait'
    BY <2>1 DEF SpinnerInv, BoxFn, OthersClosed, ToolsWait, Empty, statusPage, logPages
  <2>3. CallsOfPage'
    BY <2>1 DEF SpinnerInv, CallsOfPage, PageOf, Free
  <2>4. StatusWaits' /\ LogWaits'
    BY <2>1 DEF SpinnerInv, StatusWaits, LogWaits, Free, At, statusPage, logPages
  <2> QED
    BY <1>0, <1>c, <2>2, <2>3, <2>4 DEF SpinnerInv
<1>3. CASE LeaveTools
  <2>1. /\ view \in {"diagnostics", "tools"} /\ view' = "none" /\ calls' = Abandoned
        /\ box' = [b \in Boxes |-> Empty]
    BY <1>3 DEF LeaveTools
  <2>2. status' = StatusClosed /\ logPage' = LogClosed /\ versions' = VersionsClosed
    BY <2>1 DEF SpinnerInv, OthersClosed, statusPage, logPages
  <2>3. BoxFn' /\ \A b \in Boxes : box'[b].kind = "empty"
    BY <2>1 DEF BoxFn, Empty
  <2> QED
    BY <1>c, <2>1, <2>2, <2>3, LeavingEndsSpinners
<1>4. ASSUME NEW b \in Boxes, NEW k \in Slots, NEW arg, PressButton(b, k, arg)
      PROVE  SpinnerInv'
  <2> DEFINE ch == <<b, k>>
  <2>1. /\ view = PageOf(b) /\ UNCHANGED view
        /\ calls' = Call(ch, arg)
        /\ box' = [box EXCEPT ![b] = Spinning]
    BY <1>4 DEF PressButton
  <2>2. /\ ch \in Channels /\ ch \notin StatusChannels \cup LogChannels
        /\ \A j \in Slots : ch # <<"export", j>>
        /\ \A o \in Boxes, j \in Slots : o # b => <<o, j>> # ch
    BY ChannelsDiffer
  <2> HIDE DEF ch
  <2>3. /\ \A o \in Channels : o # ch => calls'[o] = calls[o]
        /\ ~Free(ch)'
    BY <1>0, <2>1, <2>2, CallChanges
  <2>4. BoxFn' /\ \A o \in Boxes : box'[o] = IF o = b THEN Spinning ELSE box[o]
    BY <1>0, <2>1 DEF BoxFn
  <2>5. view \in {"diagnostics", "tools"}
    BY <2>1 DEF PageOf
  <2>6. \A o \in Boxes : box'[o].kind # "empty" => view = PageOf(o)
    BY <2>1, <2>4 DEF SpinnerInv, OthersClosed
  <2>7. CallsOfPage'
    <3>1. ASSUME NEW o \in Boxes, NEW j \in Slots, ~Free(<<o, j>>)'
          PROVE  view = PageOf(o)
      BY <2>1, <2>2, <2>3, <3>1, ChannelsDiffer DEF SpinnerInv, CallsOfPage, Free
    <3>2. ASSUME NEW j \in Slots, ~Free(<<"export", j>>)'
          PROVE  view = "log"
      BY <2>2, <2>3, <3>2, ChannelsDiffer DEF SpinnerInv, CallsOfPage, Free
    <3> QED
      BY <2>1, <3>1, <3>2 DEF CallsOfPage
  <2>8. ToolsWait'
    BY <2>2, <2>3, <2>4, ChannelsDiffer DEF SpinnerInv, ToolsWait, Free, ch
  <2> QED
    BY <1>1, <2>1, <2>2, <2>3, <2>4, <2>5, <2>6, <2>7, <2>8, ChannelsDiffer
<1>5. ASSUME NEW b \in Boxes, NEW k \in Slots, FillBox(b, k)
      PROVE  SpinnerInv'
  <2> DEFINE ch == <<b, k>>
             v == calls[ch].value
             full == IF v = Failed THEN Error ELSE Filled(calls[ch].arg, v)
  <2>1. /\ At(ch, "answered") /\ UNCHANGED view
        /\ calls' = Hung(ch)
        /\ box' = [box EXCEPT ![b] = full]
    BY <1>5 DEF FillBox
  <2>2. /\ ch \in Channels /\ ch \notin StatusChannels \cup LogChannels
        /\ \A o \in Boxes, j \in Slots : o # b => <<o, j>> # ch
    BY ChannelsDiffer
  <2>3. full.kind \in {"error", "filled"}
    BY DEF Error, Filled
  <2>4. view = PageOf(b)
    BY <2>1 DEF SpinnerInv, CallsOfPage, At, Free, Idle
  <2> HIDE DEF ch, v, full
  <2>5. /\ \A o \in Channels : o # ch => calls'[o] = calls[o]
        /\ Free(ch)'
    BY <1>0, <2>1, <2>2, HungChanges
  <2>6. BoxFn' /\ \A o \in Boxes : box'[o] = IF o = b THEN full ELSE box[o]
    BY <1>0, <2>1 DEF BoxFn
  <2>7. view \in {"diagnostics", "tools"}
    BY <2>4 DEF PageOf
  <2>8. \A o \in Boxes : box'[o].kind # "empty" => view = PageOf(o)
    BY <2>4, <2>6 DEF SpinnerInv, OthersClosed
  <2>9. CallsOfPage'
    BY <2>1, <2>5, ChannelsDiffer DEF SpinnerInv, CallsOfPage, Free
  <2>10. ToolsWait'
    BY <2>2, <2>3, <2>5, <2>6, ChannelsDiffer DEF SpinnerInv, ToolsWait, Free
  <2> QED
    BY <1>1, <2>1, <2>2, <2>5, <2>6, <2>7, <2>8, <2>9, <2>10, ChannelsDiffer
<1>6. CASE CopyReport \/ CloseReport
  <2>1. UNCHANGED <<view, calls, box>>
    BY <1>6 DEF CopyReport, CloseReport
  <2> QED
    BY <1>0, <1>c, <2>1 DEF SpinnerInv, BoxFn, OthersClosed, CallsOfPage, StatusWaits,
      ToolsWait, LogWaits, Free, At, statusPage, logPages
<1> QED
  BY <1>2, <1>3, <1>4, <1>5, <1>6 DEF ToolStep

LEMMA LogSpins ==
  ASSUME SpinnerInv, LogStep, UNCHANGED <<statusPage, toolPages>>
  PROVE  SpinnerInv'
<1>0. CallsFn /\ LogRec /\ LogWaits /\ StatusRec' /\ BoxFn'
  BY DEF SpinnerInv, StatusRec, BoxFn, statusPage, toolPages
<1>c. CallsFn'
  BY <1>0, LogCalls DEF PageCalls, CallsFn
<1>v. /\ view # "log" => logPage.phase = "closed"
      /\ view # "versions" => versions.phase = "closed"
  BY DEF SpinnerInv, OthersClosed, LogClosed, VersionsClosed
<1>p. StatusChannels \cup LogChannels \subseteq Channels
  BY ChannelsDiffer
\* The steps that change no call but one of the two pages, nor the page.
<1>1. ASSUME view \in {"log", "versions"}, UNCHANGED view, LogRec', LogWaits',
             view # "log" => UNCHANGED logPage,
             view # "versions" => UNCHANGED versions,
             \A ch \in Channels :
               ch \in LogChannels \/ calls'[ch] = calls[ch]
                 \/ (view = "log" /\ \E k \in Slots : ch = <<"export", k>>)
      PROVE  SpinnerInv'
  <2>1. OthersClosed'
    BY <1>1 DEF SpinnerInv, OthersClosed, statusPage, toolPages
  <2>2. ASSUME NEW b \in Boxes, NEW k \in Slots
        PROVE  calls'[<<b, k>>] = calls[<<b, k>>]
    <3> DEFINE ch == <<b, k>>
    <3>1. /\ ch \in Channels /\ ch \notin LogChannels
          /\ \A j \in Slots : ch # <<"export", j>>
      BY ChannelsDiffer
    <3> HIDE DEF ch
    <3>2. calls'[ch] = calls[ch]
      BY <1>1, <3>1
    <3> QED
      BY <3>2 DEF ch
  <2>3. CallsOfPage'
    BY <1>1, <2>2, ChannelsDiffer DEF SpinnerInv, CallsOfPage, Free
  <2>4. ToolsWait'
    BY <2>2 DEF SpinnerInv, ToolsWait, Free, toolPages
  <2>5. \A ch \in StatusChannels : calls'[ch] = calls[ch]
    BY <1>1, ChannelsDiffer
  <2>6. StatusWaits'
    BY <2>5 DEF SpinnerInv, StatusWaits, StatusChannels, Free, At, statusPage
  <2> QED
    BY <1>0, <1>c, <1>1, <2>1, <2>3, <2>4, <2>6 DEF SpinnerInv
\* Entering one of them, with one call.
<1>2. ASSUME view = "none", view' \in {"log", "versions"}, LogRec',
             view' # "log" => UNCHANGED logPage,
             view' # "versions" => UNCHANGED versions, LogWaits',
             \A ch \in Channels : ch \in LogChannels \/ calls'[ch] = calls[ch]
      PROVE  SpinnerInv'
  <2>1. /\ \A b \in Boxes, k \in Slots : calls'[<<b, k>>] = calls[<<b, k>>]
        /\ \A k \in Slots : calls'[<<"export", k>>] = calls[<<"export", k>>]
        /\ \A ch \in StatusChannels : calls'[ch] = calls[ch]
    BY <1>2, ChannelsDiffer
  <2>2. OthersClosed'
    BY <1>2, NoBoxes DEF SpinnerInv, OthersClosed, statusPage, toolPages
  <2>3. CallsOfPage'
    BY <1>2, <2>1, NoBoxes DEF SpinnerInv, CallsOfPage, Free
  <2>4. ToolsWait' /\ StatusWaits'
    BY <2>1 DEF SpinnerInv, ToolsWait, StatusWaits, StatusChannels, Free, At,
      statusPage, toolPages
  <2> QED
    BY <1>0, <1>c, <1>2, <2>2, <2>3, <2>4 DEF SpinnerInv
<1>3. CASE OpenLog
  <2>1. /\ view = "none" /\ view' = "log" /\ UNCHANGED versions
        /\ logPage' = [LogClosed EXCEPT !.phase = "loading"]
        /\ calls' = Call(LogCall, None)
    BY <1>3 DEF OpenLog, Enter
  <2>2. /\ \A o \in Channels : o # LogCall => calls'[o] = calls[o]
        /\ ~Free(LogCall)'
    BY <1>0, <1>p, <2>1, CallChanges DEF LogChannels
  <2>3. LogRec' /\ LogWaits'
    BY <1>v, <2>1, <2>2 DEF LogRec, LogClosed, LogWaits
  <2> QED
    BY <1>2, <2>1, <2>2, <2>3 DEF LogChannels
<1>4. CASE OpenVersions
  <2>1. /\ view = "none" /\ view' = "versions" /\ UNCHANGED logPage
        /\ calls' = Call(VersionsCall, None)
    BY <1>4 DEF OpenVersions, Enter
  <2>2. /\ \A o \in Channels : o # VersionsCall => calls'[o] = calls[o]
        /\ ~Free(VersionsCall)'
    BY <1>0, <1>p, <2>1, CallChanges DEF LogChannels
  <2>3. LogRec' /\ LogWaits'
    BY <1>0, <1>v, <2>1, <2>2 DEF LogRec, LogWaits
  <2> QED
    BY <1>2, <2>1, <2>2, <2>3 DEF LogChannels
<1>5. CASE RenderLog \/ RefreshLog
  <2>1. /\ view = "log" /\ UNCHANGED <<view, versions>> /\ calls' = Hung(LogCall)
        /\ LogRec' /\ logPage'.phase \in {"broken", "shown"}
    BY <1>0, <1>5, <1>v DEF RenderLog, RefreshLog, LogRec
  <2>2. \A o \in Channels : o # LogCall => calls'[o] = calls[o]
    BY <1>0, <1>p, <2>1, HungChanges DEF LogChannels
  <2>3. LogWaits'
    BY <1>v, <2>1 DEF LogWaits
  <2> QED
    BY <1>1, <2>1, <2>2, <2>3 DEF LogChannels
<1>6. CASE PollLog
  <2>1. /\ view = "log" /\ UNCHANGED <<view, logPages>> /\ logPage.phase = "shown"
        /\ calls' = Call(LogCall, None)
    BY <1>6, <1>v DEF PollLog
  <2>2. \A o \in Channels : o # LogCall => calls'[o] = calls[o]
    BY <1>0, <1>p, <2>1, CallChanges DEF LogChannels
  <2>3. LogRec' /\ LogWaits'
    BY <1>0, <1>v, <2>1 DEF LogRec, LogWaits, logPages
  <2> QED
    BY <1>1, <2>1, <2>2, <2>3 DEF LogChannels, logPages
<1>7. ASSUME NEW k \in Slots, ExportLog(k) \/ Exported(k)
      PROVE  SpinnerInv'
  <2> DEFINE ch == <<"export", k>>
  <2>1. ch \in Channels /\ ch \notin LogChannels
    BY ChannelsDiffer
  <2>2. view = "log"
    BY <1>7, <1>v DEF ExportLog, Exported, SpinnerInv, CallsOfPage, At, Free, Idle
  <2>3. /\ UNCHANGED <<view, versions>> /\ LogRec' /\ logPage'.phase = logPage.phase
        /\ calls' = Hung(ch) \/ \E arg : calls' = Call(ch, arg)
    BY <1>0, <1>7 DEF ExportLog, Exported, LogRec, logPages
  <2> HIDE DEF ch
  <2>4. \A o \in Channels : o # ch => calls'[o] = calls[o]
    BY <1>0, <2>1, <2>3, HungChanges, CallChanges
  <2>5. LogWaits'
    BY <1>0, <1>p, <2>1, <2>3, <2>4 DEF LogWaits, LogChannels, Free
  <2> QED
    BY <1>1, <2>2, <2>3, <2>4, <2>5 DEF ch
<1>8. CASE RenderVersions
  <2>1. /\ view = "versions" /\ UNCHANGED <<view, logPage>>
        /\ calls' = Hung(VersionsCall) /\ versions'.phase = "shown"
    BY <1>8, <1>v DEF RenderVersions
  <2>2. \A o \in Channels : o # VersionsCall => calls'[o] = calls[o]
    BY <1>0, <1>p, <2>1, HungChanges DEF LogChannels
  <2>3. LogRec' /\ LogWaits'
    BY <1>0, <1>v, <2>1 DEF LogRec, LogWaits
  <2> QED
    BY <1>1, <2>1, <2>2, <2>3 DEF LogChannels
<1>9. CASE LeaveLog \/ LeaveVersions
  <2>1. /\ view \in {"log", "versions"} /\ view' = "none" /\ calls' = Abandoned
        /\ logPage' = LogClosed /\ versions' = VersionsClosed
    BY <1>9 DEF LeaveLog, LeaveVersions, SpinnerInv, OthersClosed
  <2>2. status' = StatusClosed /\ \A b \in Boxes : box'[b].kind = "empty"
    BY <2>1, NoBoxes DEF SpinnerInv, OthersClosed, statusPage, toolPages
  <2> QED
    BY <1>0, <1>c, <2>1, <2>2, LeavingEndsSpinners
<1> QED
  BY <1>3, <1>4, <1>5, <1>6, <1>7, <1>8, <1>9 DEF LogStep

LEMMA SpinnersInit ==
  ASSUME Init
  PROVE  SpinnerInv
<1>1. CallsFn /\ \A ch \in Channels : Free(ch)
  BY DEF Init, BackendInit, CallsFn, NoCalls, Free
<1>2. CallsOfPage
  BY <1>1, ChannelsDiffer DEF CallsOfPage
<1>3. /\ StatusRec /\ BoxFn /\ LogRec /\ OthersClosed
      /\ StatusWaits /\ ToolsWait /\ LogWaits
  BY DEF Init, StatusInit, ToolInit, LogInit, StatusRec, BoxFn, LogRec, OthersClosed,
    StatusWaits, ToolsWait, LogWaits, StatusClosed, NoPreview, Empty, LogClosed,
    VersionsClosed
<1> QED
  BY <1>1, <1>2, <1>3 DEF SpinnerInv

LEMMA SpinnersStep ==
  ASSUME SpinnerInv, [Next]_vars
  PROVE  SpinnerInv'
<1>1. CASE UNCHANGED vars
  BY <1>1 DEF vars, SpinnerInv, CallsFn, StatusRec, BoxFn, LogRec, OthersClosed,
    CallsOfPage, StatusWaits, ToolsWait, LogWaits, statusPage, toolPages, logPages, Free, At
<1> QED
  BY <1>1, SpinnersOutlastEvents, StatusSpins, ToolSpins, LogSpins DEF Next

\* Whatever is answered, lost or left behind, in any order: a page that says it
\* waits has a call under way.
THEOREM SpinnersAreAwaited == Spec => []NoOrphanSpinner
<1>1. Init => SpinnerInv
  BY SpinnersInit
<1>2. SpinnerInv /\ [Next]_vars => SpinnerInv'
  BY SpinnersStep
<1>3. SpinnerInv => NoOrphanSpinner
  BY DEF SpinnerInv, StatusWaits, ToolsWait, LogWaits, NoOrphanSpinner
<1> QED
  BY <1>1, <1>2, <1>3, PTL DEF Spec

-----------------------------------------------------------------------------
(* Type correctness.                                                       *)

\* What a step does to what is painted: nothing, or a new visit or its end, or
\* the error page, or the answer of a poll.
StatusMoves ==
  \/ UNCHANGED <<status.phase, status.snap, lastTraffic>>
  \/ /\ status'.phase \in {"loading", "closed"}
     /\ status'.snap = None /\ status'.rate = None
     /\ lastTraffic' \in {lastTraffic, None}
     /\ status'.phase = "loading" => lastTraffic' = None
  \/ /\ status.phase = "loading" /\ status'.phase = "broken"
     /\ UNCHANGED <<status.snap, lastTraffic>>
  \/ /\ status.phase \in {"loading", "shown"}
     /\ status'.phase = "shown"
     /\ At(StatusCall, "answered") /\ Answer(StatusCall) # Failed
     /\ calls'[StatusCall] = Idle
     /\ UNCHANGED World1
     /\ status'.snap = Answer(StatusCall)
     /\ lastTraffic' = Answer(StatusCall).bytes
     /\ \E soon \in BOOLEAN : status'.rate = Rate(Answer(StatusCall), soon)

LEMMA PaintMoves ==
  ASSUME StatusRec, CallsFn, NEW soon \in BOOLEAN,
         status.phase \in {"loading", "shown"},
         At(StatusCall, "answered"), Answer(StatusCall) # Failed,
         calls' = Hung(StatusCall), UNCHANGED backend,
         Paint(Answer(StatusCall), soon)
  PROVE  StatusRec' /\ StatusMoves
<1>1. StatusCall \in Channels
  BY DEF Channels
<1>2. calls'[StatusCall] = Idle
  BY <1>1 DEF CallsFn, Hung
<1>3. UNCHANGED World1
  BY DEF backend, World1
<1> DEFINE st == Answer(StatusCall)
<1>4. /\ status' = [status EXCEPT !.phase = "shown", !.snap = st, !.rate = Rate(st, soon)]
      /\ lastTraffic' = st.bytes
  BY DEF Paint
<1> HIDE DEF st
<1>5. /\ StatusRec'
      /\ status'.phase = "shown" /\ status'.snap = st
      /\ status'.rate = Rate(st, soon)
  BY <1>4 DEF StatusRec
<1> QED
  BY <1>2, <1>3, <1>4, <1>5 DEF StatusMoves, st

LEMMA StatusStepMoves ==
  ASSUME StatusRec, CallsFn, StatusStep
  PROVE  StatusRec' /\ StatusMoves
<1>1. CASE OpenStatus \/ LeaveStatus
  BY <1>1 DEF OpenStatus, LeaveStatus, StatusClosed, StatusRec, StatusMoves
<1>2. CASE RenderStatus
  <2>1. CASE Answer(StatusCall) = Failed
    BY <1>2, <2>1 DEF RenderStatus, StatusRec, StatusMoves
  <2>2. CASE Answer(StatusCall) # Failed
    BY <1>2, <2>2, PaintMoves DEF RenderStatus
  <2> QED
    BY <2>1, <2>2
<1>3. ASSUME NEW soon \in BOOLEAN, RefreshStatus(soon)
      PROVE  StatusRec' /\ StatusMoves
  <2>1. CASE Answer(StatusCall) = Failed
    BY <1>3, <2>1 DEF RefreshStatus, StatusRec, StatusMoves
  <2>2. CASE Answer(StatusCall) # Failed
    BY <1>3, <2>2, PaintMoves DEF RefreshStatus
  <2> QED
    BY <2>1, <2>2
<1>4. CASE PollStatus
  BY <1>4 DEF PollStatus, statusPage, StatusRec, StatusMoves
<1>5. CASE (\E action \in {"start", "stop"} : RunAction(action)) \/ ActionAnswered
             \/ ClosePreview
  BY <1>5 DEF RunAction, ActionAnswered, ClosePreview, StatusRec, StatusMoves
<1>6. ASSUME NEW pv, NEW cs, ShowPreview(pv, cs), UNCHANGED lastTraffic
      PROVE  StatusRec' /\ StatusMoves
  BY <1>6 DEF ShowPreview, StatusRec, StatusMoves
<1>7. CASE OpenPreview
  <2>1. CASE cache = None
    BY <1>7, <2>1 DEF OpenPreview, StatusRec, StatusMoves
  <2>2. CASE cache # None
    BY <1>6, <1>7, <2>2 DEF OpenPreview
  <2> QED
    BY <2>1, <2>2
<1>8. CASE PreviewLoaded
  <2>1. CASE status.preview.stage # "loading"
    BY <1>8, <2>1 DEF PreviewLoaded, StatusRec, StatusMoves
  <2>2. CASE status.preview.stage = "loading" /\ Answer(UciCall) = Failed
    BY <1>8, <2>2 DEF PreviewLoaded, StatusRec, StatusMoves
  <2>3. CASE status.preview.stage = "loading" /\ Answer(UciCall) # Failed
    BY <1>6, <1>8, <2>3 DEF PreviewLoaded
  <2> QED
    BY <2>1, <2>2, <2>3
<1>9. CASE PreviewChecked
  BY <1>6, <1>9 DEF PreviewChecked
<1> QED
  BY <1>1, <1>2, <1>3, <1>4, <1>5, <1>7, <1>8, <1>9 DEF StatusStep

LEMMA NextMovesStatus ==
  ASSUME StatusRec, CallsFn, [Next]_vars
  PROVE  StatusRec' /\ StatusMoves
<1>1. CASE StatusStep
  BY <1>1, StatusStepMoves
<1>2. CASE UNCHANGED statusPage
  BY <1>2 DEF statusPage, StatusRec, StatusMoves
<1> QED
  BY <1>1, <1>2 DEF Next, vars

\* What a step does to a call of diagnose.
DiagnoseMoves(ch) ==
  \/ calls'[ch] = calls[ch]
  \/ calls'[ch] = Idle
  \/ calls'[ch].stage \notin {"begun", "answered"}
  \/ calls'[ch].stage = "begun" /\ calls'[ch].value = Begun /\ UNCHANGED World1
  \/ calls'[ch].stage = "answered" /\ calls'[ch].value = Failed
  \/ /\ At(ch, "begun")
     /\ UNCHANGED World1
     /\ calls'[ch].stage = "answered"
     /\ \E net \in BOOLEAN : calls'[ch].value = Diagnosis(Answer(ch), net)

LEMMA DiagnoseStep ==
  ASSUME CallsFn, [Next]_vars, NEW k \in Slots
  PROVE  DiagnoseMoves(<<"diagnose", k>>)
<1> DEFINE ch == <<"diagnose", k>>
<1>0. <<"diagnose", k>> # <<"service", 1>>
  OBVIOUS
<1>1. ch \in Channels /\ ch \notin ReadChannels /\ ch # ServiceCall
  BY <1>0, ChannelKinds DEF ServiceCall
<1>2. ASSUME NEW o \in Channels, o # ch, NEW v, calls' = Reply(o, v)
      PROVE  calls'[ch] = calls[ch]
  BY <1>1, <1>2, ReplyCalls
<1>3. ASSUME NEW o \in ReadChannels, AnswerRead(o)
      PROVE  DiagnoseMoves(ch)
  BY <1>1, <1>2, <1>3, ChannelKinds DEF AnswerRead, DiagnoseMoves
<1>u. ASSUME NEW o \in LogReads, LogUnread(o)
      PROVE  DiagnoseMoves(ch)
  BY <1>1, <1>2, <1>u, ChannelKinds DEF LogUnread, DiagnoseMoves
<1>4. ASSUME NEW j \in Slots, BeginDiagnose(<<"diagnose", j>>)
      PROVE  DiagnoseMoves(ch)
  <2> DEFINE o == <<"diagnose", j>>
  <2>1. /\ o \in Channels /\ UNCHANGED World1
        /\ calls' = [calls EXCEPT
             ![o] = [arg |-> @.arg, stage |-> "begun", value |-> Begun]]
    BY <1>4, ChannelKinds DEF BeginDiagnose, backend, World1
  <2> HIDE DEF o
  <2>2. calls'[o] = [arg |-> calls[o].arg, stage |-> "begun", value |-> Begun]
    BY <2>1 DEF CallsFn
  <2>3. calls'[o].stage = "begun" /\ calls'[o].value = Begun
    BY <2>2
  <2>4. o # ch => calls'[ch] = calls[ch]
    BY <1>1, <2>1 DEF CallsFn
  <2> QED
    BY <2>1, <2>3, <2>4 DEF DiagnoseMoves
<1>5. ASSUME NEW j \in Slots, NEW net \in BOOLEAN,
             EndDiagnose(<<"diagnose", j>>, net)
      PROVE  DiagnoseMoves(ch)
  <2> DEFINE o == <<"diagnose", j>>
             d == Diagnosis(Answer(o), net)
  <2>1. /\ o \in Channels /\ calls' = Reply(o, d)
        /\ At(o, "begun") /\ UNCHANGED World1
    BY <1>5, ChannelKinds DEF EndDiagnose, World1
  <2>2. CASE o = ch
    <3> HIDE DEF d, o
    <3>1. calls'[o] = [arg |-> calls[o].arg, stage |-> "answered", value |-> d]
      BY <2>1, ReplyCalls
    <3>2. calls'[ch].stage = "answered" /\ calls'[ch].value = d
      BY <2>2, <3>1
    <3> QED
      BY <2>1, <2>2, <3>2 DEF DiagnoseMoves, d
  <2>3. CASE o # ch
    BY <1>2, <2>1, <2>3 DEF DiagnoseMoves
  <2> QED
    BY <2>2, <2>3
<1>6. ASSUME NEW lost \in BOOLEAN, AnswerService(lost)
      PROVE  DiagnoseMoves(ch)
  <2>1. CASE calls' = Hung(ServiceCall)
    BY <1>1, <2>1 DEF Hung, CallsFn, DiagnoseMoves
  <2>2. CASE calls' # Hung(ServiceCall)
    <3>1. PICK v : calls' = Reply(ServiceCall, v)
      BY <1>6, <2>2 DEF AnswerService
    <3> QED
      BY <1>1, <1>2, <3>1, ChannelKinds DEF DiagnoseMoves
  <2> QED
    BY <2>1, <2>2
<1>7. ASSUME NEW o \in Channels, Fail(o)
      PROVE  DiagnoseMoves(ch)
  <2>1. CASE o = ch
    <3>1. calls' = Reply(o, Failed)
      BY <1>7 DEF Fail
    <3>2. calls'[o] = [arg |-> calls[o].arg, stage |-> "answered", value |-> Failed]
      BY <3>1, ReplyCalls
    <3>3. calls'[ch].stage = "answered" /\ calls'[ch].value = Failed
      BY <2>1, <3>2
    <3> QED
      BY <3>3 DEF DiagnoseMoves
  <2>2. CASE o # ch
    BY <1>2, <1>7, <2>2 DEF Fail, DiagnoseMoves
  <2> QED
    BY <2>1, <2>2
<1>8. CASE World \/ UNCHANGED vars
  BY <1>8, WorldCalls DEF vars, DiagnoseMoves
<1>9. CASE PageStep
  BY <1>1, <1>9, PageMakesNoAnswer DEF PageCalls, DiagnoseMoves
<1> QED
  BY <1>3, <1>u, <1>4, <1>5, <1>6, <1>7, <1>8, <1>9 DEF Next, Answers, PageStep

\* What answers, and the records, are made of.
StatusTyped ==
  (At(StatusCall, "answered") /\ Answer(StatusCall) # Failed) =>
    Answer(StatusCall) \in StatusAnswers

UciTyped ==
  (At(UciCall, "answered") /\ Answer(UciCall) # Failed) => Answer(UciCall) \in Configs

DiagnoseTyped(ch) ==
  /\ At(ch, "begun") => Answer(ch).records \in Exports
  /\ (At(ch, "answered") /\ Answer(ch) # Failed) => Answer(ch) \in Diagnoses

CallTypes ==
  /\ AnswersInv
  /\ records \in Exports
  /\ StatusTyped
  /\ UciTyped
  /\ \A k \in Slots : DiagnoseTyped(<<"diagnose", k>>)

LEMMA ServiceFields ==
  ASSUME BackendInv
  PROVE  service.running \in BOOLEAN /\ service.up \in BOOLEAN
<1>1. CASE service = Stopped
  BY <1>1 DEF Stopped
<1>2. CASE service = Connecting
  BY <1>2 DEF Connecting
<1>3. CASE service = Working
  BY <1>3 DEF Working
<1>4. CASE service = Dead
  BY <1>4 DEF Dead
<1> QED
  BY <1>1, <1>2, <1>3, <1>4 DEF BackendInv, Services

LEMMA StatusIsTyped ==
  ASSUME BackendInv, records \in Exports
  PROVE  Status \in StatusAnswers
<1>1. config.enabled \in BOOLEAN
  BY BackendAssumption DEF BackendInv
<1>2. (service.up /\ (records.proxy => records.listen)) \in BOOLEAN
  BY ServiceFields DEF BackendInv, Records
<1> QED
  BY <1>1, <1>2, ServiceFields DEF Status, StatusAnswers, BackendInv

LEMMA ProbeStatuses ==
  ASSUME NEW rec, NEW net
  PROVE  ProbeStatus(rec, net) \in {"ok", "warn", "fail"}
BY DEF ProbeStatus

LEMMA ChecksAreTyped ==
  ASSUME NEW begun, NEW net
  PROVE  Checks(begun, net) \subseteq Lines
<1> DEFINE Statuses == {"ok", "warn", "fail", "skip"}
           ps == ProbeStatus(begun.records, net)
           run == IF service.running THEN "ok" ELSE "fail"
<1>1. {"config", "prereq", "service", "kernel", "network"} \subseteq Entries(Groups)
  BY DEF Entries, Groups
<1>2. ps \in Statuses /\ run \in Statuses
  BY ProbeStatuses
<1>3. ASSUME NEW s \in Statuses
      PROVE  /\ Check("config", "server", s) \in Lines
             /\ Check("config", "profile", s) \in Lines
             /\ Check("prereq", "client", s) \in Lines
             /\ Check("service", "enabled", s) \in Lines
             /\ Check("service", "running", s) \in Lines
             /\ Check("kernel", "listener", s) \in Lines
             /\ Check("kernel", "meter", s) \in Lines
             /\ Check("kernel", "device", s) \in Lines
             /\ Check("kernel", "ruleset", s) \in Lines
             /\ Check("network", "server", s) \in Lines
             /\ Check("network", "tunnel", s) \in Lines
  BY <1>1 DEF Check, Lines
<1>4. ASSUME NEW c \in Checks(begun, net)
      PROVE  \E s \in Statuses :
               \/ c = Check("config", "server", s) \/ c = Check("config", "profile", s)
               \/ c = Check("prereq", "client", s) \/ c = Check("service", "enabled", s)
               \/ c = Check("service", "running", s) \/ c = Check("kernel", "listener", s)
               \/ c = Check("kernel", "meter", s) \/ c = Check("kernel", "device", s)
               \/ c = Check("kernel", "ruleset", s) \/ c = Check("network", "server", s)
               \/ c = Check("network", "tunnel", s)
  BY <1>2, <1>4 DEF Checks
<1> QED
  BY <1>3, <1>4

LEMMA DiagnosisIsTyped ==
  ASSUME BackendInv, NEW begun, begun.records \in Exports, NEW net \in BOOLEAN
  PROVE  Diagnosis(begun, net) \in Diagnoses
<1>1. VerdictOf(Checks(begun, net)) \in {"ok", "warn", "fail"}
  BY DEF VerdictOf
<1>2. config.enabled \in BOOLEAN /\ service \in Services
  BY BackendAssumption DEF BackendInv
<1>3. (begun = Begun /\ net) \in BOOLEAN
  OBVIOUS
<1> QED
  BY <1>1, <1>2, <1>3, ChecksAreTyped DEF Diagnosis, Diagnoses

\* The records are always those exported from a configuration.
LEMMA RecordsStayExported ==
  ASSUME BackendInv, records \in Exports, World \/ Answers
  PROVE  records' \in Exports
<1>1. Export(config) \in Exports /\ Export(staged) \in Exports
  BY DEF BackendInv, Exports
<1>2. CASE World
  BY <1>1, <1>2 DEF World, Stage, Commit, StartWith, Connect, Drop, Die, Traffic, WriteLog,
    LoseLines
<1>3. CASE Answers
  BY <1>1, <1>3 DEF Answers, AnswerRead, LogUnread, BeginDiagnose, EndDiagnose, AnswerService, Fail,
    StartEffect, StopEffect, StartWith, backend
<1> QED
  BY <1>2, <1>3

LEMMA StatusStaysTyped ==
  ASSUME CallTypes, Moves
  PROVE  StatusTyped'
<1>1. ReadAnswer(StatusCall) = Status
  BY DEF ReadAnswer, StatusCall, UciCall, RuleCall, LogCall, VersionsCall
<1>2. CASE calls'[StatusCall] = calls[StatusCall]
  BY <1>2 DEF CallTypes, StatusTyped, At, Answer, StatusAnswers
<1>3. CASE calls'[StatusCall] = Idle \/ calls'[StatusCall].stage # "answered"
  BY <1>3 DEF StatusTyped, At, Idle
<1>4. CASE calls'[StatusCall].value \in {Status, Failed}
  BY <1>4, StatusIsTyped DEF CallTypes, AnswersInv, StatusTyped, Answer
<1> QED
  BY <1>1, <1>2, <1>3, <1>4, ChannelKinds DEF Moves, CallMoves

LEMMA UciStaysTyped ==
  ASSUME CallTypes, Moves
  PROVE  UciTyped'
<1>1. ReadAnswer(UciCall) = staged /\ UciCall \in ReadChannels \ LogReads
  BY ChannelKinds DEF ReadAnswer, StatusCall, UciCall, RuleCall, LogCall, VersionsCall
<1>2. CASE calls'[UciCall] = calls[UciCall]
  BY <1>2 DEF CallTypes, UciTyped, At, Answer
<1>3. CASE calls'[UciCall] = Idle \/ calls'[UciCall].stage # "answered"
  BY <1>3 DEF UciTyped, At, Idle
<1>4. CASE calls'[UciCall].value \in {staged, Failed}
  BY <1>4 DEF CallTypes, AnswersInv, BackendInv, UciTyped, Answer
<1> QED
  BY <1>1, <1>2, <1>3, <1>4 DEF Moves, CallMoves

LEMMA DiagnosesStayTyped ==
  ASSUME CallTypes, [Next]_vars, NEW k \in Slots
  PROVE  DiagnoseTyped(<<"diagnose", k>>)'
<1> DEFINE ch == <<"diagnose", k>>
<1>1. DiagnoseMoves(ch) /\ DiagnoseTyped(ch)
  BY DiagnoseStep DEF CallTypes, AnswersInv
<1>2. CASE calls'[ch] = calls[ch]
  BY <1>1, <1>2 DEF DiagnoseTyped, At, Answer, Diagnoses
<1>3. CASE calls'[ch] = Idle \/ calls'[ch].stage \notin {"begun", "answered"}
  BY <1>3 DEF DiagnoseTyped, At, Idle
<1>4. CASE calls'[ch].stage = "begun" /\ calls'[ch].value = Begun
  BY <1>4 DEF DiagnoseTyped, At, Answer, Begun, CallTypes
<1>5. CASE calls'[ch].stage = "answered" /\ calls'[ch].value = Failed
  BY <1>5 DEF DiagnoseTyped, At, Answer
<1>6. ASSUME At(ch, "begun"), calls'[ch].stage = "answered", NEW net \in BOOLEAN,
             calls'[ch].value = Diagnosis(Answer(ch), net)
      PROVE  DiagnoseTyped(ch)'
  <2>1. Diagnosis(Answer(ch), net) \in Diagnoses
    BY <1>1, <1>6, DiagnosisIsTyped DEF CallTypes, AnswersInv, DiagnoseTyped
  <2>2. calls'[ch].value \in Diagnoses
    BY <1>6, <2>1
  <2> QED
    BY <1>6, <2>2 DEF DiagnoseTyped, At, Answer, Diagnoses
<1> QED
  BY <1>1, <1>2, <1>3, <1>4, <1>5, <1>6 DEF DiagnoseMoves

LEMMA CallTypesInit ==
  ASSUME Init
  PROVE  CallTypes
<1>1. AnswersInv /\ \A ch \in Channels : Free(ch)
  BY AnswersInit DEF Init, BackendInit, NoCalls, Free
<1>2. records \in Exports
  BY DEF Init, BackendInit, Exports
<1>3. \A ch \in Channels : ~At(ch, "begun") /\ ~At(ch, "answered")
  BY <1>1 DEF At, Free, Idle
<1>4. UciCall \in Channels
  BY DEF Channels
<1> QED
  BY <1>1, <1>2, <1>3, <1>4, ChannelKinds
  DEF CallTypes, StatusTyped, UciTyped, DiagnoseTyped

LEMMA CallTypesStep ==
  ASSUME CallTypes, [Next]_vars
  PROVE  CallTypes'
<1>1. Moves /\ AnswersInv'
  BY AnswersStayGood DEF CallTypes
<1>2. records' \in Exports
  <2>1. CASE World \/ Answers
    BY <2>1, RecordsStayExported DEF CallTypes, AnswersInv
  <2>2. CASE PageStep \/ UNCHANGED vars
    BY <2>2, PageKeepsBackend DEF CallTypes, World1, vars, backend
  <2> QED
    BY <2>1, <2>2 DEF Next, PageStep
<1> QED
  BY <1>1, <1>2, StatusStaysTyped, UciStaysTyped, DiagnosesStayTyped DEF CallTypes

\* Nothing is spent that is not there.
BudgetOK == budget \in [Events -> Nat]

LEMMA SpendKeeps ==
  ASSUME BudgetOK, NEW kind \in Events, Spend(kind)
  PROVE  BudgetOK'
BY DEF BudgetOK, Spend

LEMMA BudgetStays ==
  ASSUME BudgetOK, [Next]_vars
  PROVE  BudgetOK'
<1>1. {"stage", "commit", "service", "traffic", "write", "fault", "press", "status",
       "diagnostics", "tools", "log", "versions"} \subseteq Events
  BY DEF Events, Views
<1>2. CASE UNCHANGED budget
  BY <1>2 DEF BudgetOK
<1>3. CASE World
  BY <1>1, <1>2, <1>3, SpendKeeps
  DEF World, Stage, Commit, Connect, Drop, Die, Traffic, WriteLog,
    LoseLines
<1>4. CASE Answers
  BY <1>1, <1>2, <1>4, SpendKeeps
  DEF Answers, AnswerRead, LogUnread, BeginDiagnose, EndDiagnose, AnswerService, Fail, backend
<1>5. CASE StatusStep
  BY <1>1, <1>2, <1>5, SpendKeeps
  DEF StatusStep, OpenStatus, RenderStatus, PollStatus, RefreshStatus, LeaveStatus,
    RunAction, ActionAnswered, OpenPreview, PreviewLoaded, PreviewChecked, ClosePreview,
    Enter, backend
<1>6. CASE ToolStep
  BY <1>1, <1>2, <1>6, SpendKeeps
  DEF ToolStep, OpenTools, LeaveTools, PressButton, FillBox, CopyReport, CloseReport,
    Enter, backend
<1>7. CASE LogStep
  BY <1>1, <1>2, <1>7, SpendKeeps
  DEF LogStep, OpenLog, RenderLog, PollLog, RefreshLog, ExportLog, Exported, LeaveLog,
    OpenVersions, RenderVersions, LeaveVersions, Enter, backend
<1> QED
  BY <1>2, <1>3, <1>4, <1>5, <1>6, <1>7 DEF Next, vars, backend

\* What the pages keep.
PageTypes ==
  /\ view \in Views \cup {"none"}
  /\ status.modal \in {"none", "wait", "preview"}
  /\ status.snap \in StatusAnswers \cup {None}
  /\ status.phase = "shown" <=> status.snap # None
  /\ lastTraffic \in Counters \cup {None}
  /\ cache \in Configs \cup {None}
  /\ lastDiagnose \in Diagnoses \cup {None}

TypesInv == SpinnerInv /\ CallTypes /\ BudgetOK /\ PageTypes

LEMMA TypesInit ==
  ASSUME Init
  PROVE  TypesInv
<1>1. SpinnerInv /\ CallTypes
  BY SpinnersInit, CallTypesInit
<1>2. BudgetOK
  <2>1. config \in Configs /\ budget \in Budgets[config]
    BY DEF Init, BackendInit
  <2> QED
    BY <2>1, BackendAssumption DEF BudgetOK
<1>3. PageTypes
  BY DEF Init, BackendInit, StatusInit, ToolInit, StatusClosed, PageTypes
<1> QED
  BY <1>1, <1>2, <1>3 DEF TypesInv

LEMMA ViewAndModalStay ==
  ASSUME PageTypes, StatusRec, [Next]_vars
  PROVE  /\ view' \in Views \cup {"none"}
         /\ status'.modal \in {"none", "wait", "preview"}
<1>0. /\ view \in Views \cup {"none"} /\ status.modal \in {"none", "wait", "preview"}
      /\ {"status", "diagnostics", "tools", "log", "versions"} \subseteq Views
  BY DEF PageTypes, Views
<1>1. CASE World /\ UNCHANGED statusPage
  BY <1>0, <1>1
  DEF World, Stage, Commit, Connect, Drop, Die, Traffic, WriteLog, LoseLines,
    statusPage
<1>2. CASE Answers /\ UNCHANGED statusPage
  BY <1>0, <1>2
  DEF Answers, AnswerRead, LogUnread, BeginDiagnose, EndDiagnose, AnswerService, Fail, statusPage
<1>3. CASE StatusStep
  <2>1. view' \in Views \cup {"none"}
    BY <1>0, <1>3
    DEF StatusStep, OpenStatus, RenderStatus, PollStatus, RefreshStatus, LeaveStatus,
      RunAction, ActionAnswered, OpenPreview, PreviewLoaded, PreviewChecked, ClosePreview,
      Enter
  <2>2. ASSUME NEW pv, NEW cs, ShowPreview(pv, cs)
        PROVE  status'.modal = "preview"
    BY <2>2 DEF ShowPreview, StatusRec
  <2>3. CASE OpenPreview
    BY <2>1, <2>2, <2>3 DEF OpenPreview, StatusRec
  <2>4. CASE PreviewLoaded
    BY <1>0, <2>1, <2>2, <2>4 DEF PreviewLoaded, StatusRec
  <2>5. CASE PreviewChecked
    BY <2>1, <2>2, <2>5 DEF PreviewChecked
  <2>6. CASE OpenStatus \/ LeaveStatus
    BY <2>1, <2>6 DEF OpenStatus, LeaveStatus, StatusClosed
  <2>7. CASE RenderStatus \/ PollStatus \/ \E soon \in BOOLEAN : RefreshStatus(soon)
    BY <1>0, <2>1, <2>7 DEF RenderStatus, PollStatus, RefreshStatus, Paint, StatusRec, statusPage
  <2>8. CASE (\E action \in {"start", "stop"} : RunAction(action)) \/ ActionAnswered
               \/ ClosePreview
    BY <2>1, <2>8 DEF RunAction, ActionAnswered, ClosePreview, StatusRec
  <2> QED
    BY <1>3, <2>1, <2>3, <2>4, <2>5, <2>6, <2>7, <2>8 DEF StatusStep
<1>4. CASE ToolStep /\ UNCHANGED statusPage
  BY <1>0, <1>4
  DEF ToolStep, OpenTools, LeaveTools, PressButton, FillBox, CopyReport, CloseReport, Enter,
    statusPage
<1>5. CASE LogStep /\ UNCHANGED statusPage
  BY <1>0, <1>5
  DEF LogStep, OpenLog, RenderLog, PollLog, RefreshLog, ExportLog, Exported, LeaveLog,
    OpenVersions, RenderVersions, LeaveVersions, Enter, statusPage
<1>6. CASE UNCHANGED vars
  BY <1>0, <1>6 DEF vars, statusPage
<1> QED
  BY <1>0, <1>1, <1>2, <1>3, <1>4, <1>5, <1>6 DEF Next, statusPage

LEMMA PaintedStaysTyped ==
  ASSUME TypesInv, [Next]_vars
  PROVE  /\ status'.snap \in StatusAnswers \cup {None}
         /\ status'.phase = "shown" <=> status'.snap # None
         /\ lastTraffic' \in Counters \cup {None}
<1>0. /\ status.snap \in StatusAnswers \cup {None}
      /\ status.phase = "shown" <=> status.snap # None
      /\ lastTraffic \in Counters \cup {None}
  BY DEF TypesInv, PageTypes
<1>1. StatusMoves
  BY NextMovesStatus DEF TypesInv, SpinnerInv
<1>2. CASE UNCHANGED <<status.phase, status.snap, lastTraffic>>
  BY <1>0, <1>2
<1>3. CASE /\ status'.phase \in {"loading", "closed"}
           /\ status'.snap = None
           /\ lastTraffic' \in {lastTraffic, None}
  BY <1>0, <1>3
<1>4. CASE /\ status.phase = "loading" /\ status'.phase = "broken"
           /\ UNCHANGED <<status.snap, lastTraffic>>
  BY <1>0, <1>4
<1>5. CASE /\ status'.phase = "shown"
           /\ At(StatusCall, "answered") /\ Answer(StatusCall) # Failed
           /\ status'.snap = Answer(StatusCall)
           /\ lastTraffic' = Answer(StatusCall).bytes
  <2>1. Answer(StatusCall) \in StatusAnswers
    BY <1>5 DEF TypesInv, CallTypes, StatusTyped
  <2>2. Answer(StatusCall) # None
    BY <2>1, WebPagesAssumption
  <2>3. Answer(StatusCall).bytes \in Counters \cup {None}
    BY <2>1 DEF StatusAnswers
  <2> QED
    BY <1>5, <2>1, <2>2, <2>3
<1> QED
  BY <1>1, <1>2, <1>3, <1>4, <1>5 DEF StatusMoves

LEMMA CacheStaysTyped ==
  ASSUME TypesInv, [Next]_vars
  PROVE  cache' \in Configs \cup {None}
<1>0. cache \in Configs \cup {None}
  BY DEF TypesInv, PageTypes
<1>1. CASE PreviewLoaded
  BY <1>0, <1>1 DEF PreviewLoaded, TypesInv, CallTypes, UciTyped
<1>2. CASE UNCHANGED cache
  BY <1>0, <1>2
<1>3. CASE StatusStep /\ ~PreviewLoaded
  BY <1>2, <1>3
  DEF StatusStep, OpenStatus, RenderStatus, PollStatus, RefreshStatus, LeaveStatus,
    RunAction, ActionAnswered, OpenPreview, PreviewChecked, ClosePreview, statusPage
<1> QED
  BY <1>1, <1>2, <1>3 DEF Next, vars, statusPage

LEMMA LastDiagnoseStaysTyped ==
  ASSUME TypesInv, [Next]_vars
  PROVE  lastDiagnose' \in Diagnoses \cup {None}
<1>0. lastDiagnose \in Diagnoses \cup {None}
  BY DEF TypesInv, PageTypes
<1>1. ASSUME NEW b \in Boxes, NEW k \in Slots, FillBox(b, k)
      PROVE  lastDiagnose' \in Diagnoses \cup {None}
  <2> DEFINE v == calls[<<"diagnose", k>>].value
  <2>1. CASE b = "diagnose" /\ v # Failed
    <3>1. v \in Diagnoses
      BY <1>1, <2>1 DEF FillBox, TypesInv, CallTypes, DiagnoseTyped, Answer
    <3> QED
      BY <1>1, <2>1, <3>1 DEF FillBox
  <2>2. CASE ~(b = "diagnose" /\ v # Failed)
    BY <1>0, <1>1, <2>2 DEF FillBox
  <2> QED
    BY <2>1, <2>2
<1>2. CASE UNCHANGED lastDiagnose
  BY <1>0, <1>2
<1>3. CASE (\E page \in {"diagnostics", "tools"} : OpenTools(page)) \/ LeaveTools
             \/ CopyReport \/ CloseReport
             \/ \E b \in Boxes, k \in Slots, arg \in Queries \cup {None} : PressButton(b, k, arg)
  BY <1>2, <1>3 DEF OpenTools, LeaveTools, CopyReport, CloseReport, PressButton
<1> QED
  BY <1>1, <1>2, <1>3 DEF Next, ToolStep, vars, toolPages

LEMMA TypesStep ==
  ASSUME TypesInv, [Next]_vars
  PROVE  TypesInv'
<1>1. SpinnerInv' /\ CallTypes' /\ BudgetOK'
  BY SpinnersStep, CallTypesStep, BudgetStays DEF TypesInv
<1>2. PageTypes'
  <2>1. /\ view' \in Views \cup {"none"}
        /\ status'.modal \in {"none", "wait", "preview"}
    BY ViewAndModalStay DEF TypesInv, SpinnerInv
  <2> QED
    BY <2>1, PaintedStaysTyped, CacheStaysTyped, LastDiagnoseStaysTyped
    DEF PageTypes, StatusAnswers, Diagnoses
<1> QED
  BY <1>1, <1>2 DEF TypesInv

\* Every variable keeps to its values, and a page that is not open to nothing.
THEOREM PagesTyped == Spec => []TypeOK
<1>1. Init => TypesInv
  BY TypesInit
<1>2. TypesInv /\ [Next]_vars => TypesInv'
  BY TypesStep
<1>3. TypesInv => TypeOK
  BY DEF TypesInv, SpinnerInv, CallTypes, AnswersInv, BackendInv, BudgetOK, PageTypes,
    OthersClosed, CallsFn, TypeOK, Views
<1> QED
  BY <1>1, <1>2, <1>3, PTL DEF Spec

=============================================================================
