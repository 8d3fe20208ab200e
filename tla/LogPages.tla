------------------------------ MODULE LogPages ------------------------------
(***************************************************************************)
(* The Client log and the Versions page.                                   *)
(*                                                                         *)
(*   logPage   phase, as on the Status page; shown: the lines in the box;  *)
(*             file: those of the last export; failed: the export's error  *)
(*   versions  phase; rows: the answer, or None for a page of              *)
(*             "not installed"                                             *)
(***************************************************************************)
EXTENDS Backend

VARIABLES logPage, versions

logPages == <<logPage, versions>>

LogClosed == [phase |-> "closed", shown |-> {}, file |-> None, failed |-> FALSE]
VersionsClosed == [phase |-> "closed", rows |-> None]

LogInit ==
  /\ logPage = LogClosed
  /\ versions = VersionsClosed

-----------------------------------------------------------------------------

OpenLog ==
  /\ Enter("log")
  /\ logPage' = [LogClosed EXCEPT !.phase = "loading"]
  /\ calls' = Call(LogCall, None)
  /\ UNCHANGED versions

\* The load has no catch: the page goes down with it.
RenderLog ==
  /\ logPage.phase = "loading"
  /\ At(LogCall, "answered")
  /\ calls' = Hung(LogCall)
  /\ logPage' = IF Answer(LogCall) = Failed
                  THEN [logPage EXCEPT !.phase = "broken"]
                  ELSE [logPage EXCEPT !.phase = "shown", !.shown = Answer(LogCall)]
  /\ UNCHANGED <<backend, view, versions>>

PollLog ==
  /\ logPage.phase = "shown"
  /\ Free(LogCall)
  /\ calls' = Call(LogCall, None)
  /\ UNCHANGED <<backend, view, logPages>>

\* A slip of the poll loop: never armed again after a failure.
RefreshLogOnce ==
  /\ logPage.phase = "shown"
  /\ At(LogCall, "answered")
  /\ calls' = IF Answer(LogCall) = Failed THEN calls ELSE Hung(LogCall)
  /\ logPage' = [logPage EXCEPT
       !.shown = IF Answer(LogCall) = Failed THEN @ ELSE Answer(LogCall)]
  /\ UNCHANGED <<backend, view, versions>>

\* The whole text is replaced by the answer, an empty one included; a call
\* that is rejected leaves it untouched, and the next tick retries.
RefreshLog ==
  /\ logPage.phase = "shown"
  /\ At(LogCall, "answered")
  /\ calls' = Hung(LogCall)
  /\ logPage' = [logPage EXCEPT
       !.shown = IF Answer(LogCall) = Failed THEN @ ELSE Answer(LogCall)]
  /\ UNCHANGED <<backend, view, versions>>

\* exportLog
ExportLog(k) ==
  /\ logPage.phase = "shown"
  /\ Free(<<"export", k>>)
  /\ Spend("press")
  /\ calls' = Call(<<"export", k>>, None)
  /\ UNCHANGED <<config, staged, records, service, bytes, carried, log, view,
                 logPages>>

Exported(k) ==
  LET c == calls[<<"export", k>>] IN
  /\ At(<<"export", k>>, "answered")
  /\ calls' = Hung(<<"export", k>>)
  /\ logPage' = IF c.value = Failed THEN [logPage EXCEPT !.failed = TRUE]
                ELSE [logPage EXCEPT !.file = c.value]
  /\ UNCHANGED <<backend, view, versions>>

LeaveLog ==
  /\ view = "log"
  /\ view' = "none"
  /\ logPage' = LogClosed
  /\ calls' = Abandoned
  /\ UNCHANGED <<backend, versions>>

OpenVersions ==
  /\ Enter("versions")
  /\ versions' = [VersionsClosed EXCEPT !.phase = "loading"]
  /\ calls' = Call(VersionsCall, None)
  /\ UNCHANGED logPage

\* A slip in load: no catch, as on the pages that need their answer.
RenderVersionsNoCatch ==
  /\ versions.phase = "loading"
  /\ At(VersionsCall, "answered")
  /\ Answer(VersionsCall) # Failed
  /\ calls' = Hung(VersionsCall)
  /\ versions' = [phase |-> "shown", rows |-> Answer(VersionsCall)]
  /\ UNCHANGED <<backend, view, logPage>>

\* A failure must not take the page down: it renders from null.
RenderVersions ==
  /\ versions.phase = "loading"
  /\ At(VersionsCall, "answered")
  /\ calls' = Hung(VersionsCall)
  /\ versions' = [phase |-> "shown",
                  rows |-> IF Answer(VersionsCall) = Failed THEN None
                           ELSE Answer(VersionsCall)]
  /\ UNCHANGED <<backend, view, logPage>>

LeaveVersions ==
  /\ view = "versions"
  /\ view' = "none"
  /\ versions' = VersionsClosed
  /\ calls' = Abandoned
  /\ UNCHANGED <<backend, logPage>>

LogStep ==
  \/ OpenLog
  \/ RenderLog
  \/ PollLog
  \/ RefreshLog
  \/ \E k \in Slots : ExportLog(k)
  \/ \E k \in Slots : Exported(k)
  \/ LeaveLog
  \/ OpenVersions
  \/ RenderVersions
  \/ LeaveVersions

=============================================================================
