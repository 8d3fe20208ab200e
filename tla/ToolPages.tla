----------------------------- MODULE ToolPages -----------------------------
(***************************************************************************)
(* The Diagnostics and the Tools page: buttons that fill a box with the    *)
(* answer of a slow call.                                                  *)
(*                                                                         *)
(*   box           the content of each box                                 *)
(*   lastDiagnose  the last diagnosis, of the script and not of the view   *)
(*   report        copy: whether the Copy report button is enabled; text:  *)
(*                 the report in the dialog, None without one              *)
(*                                                                         *)
(* A button's handler returns no promise, so the button is free again at   *)
(* once, and the domain field also takes the Enter key: several calls can  *)
(* be under way for one box, answered in any order.                        *)
(***************************************************************************)
EXTENDS Backend

VARIABLES box, lastDiagnose, report

toolPages == <<box, lastDiagnose, report>>

PageOf(b) == IF b = "diagnose" THEN "diagnostics" ELSE "tools"

Empty == [kind |-> "empty"]
Spinning == [kind |-> "spinning"]
Error == [kind |-> "error"]
Filled(arg, v) == [kind |-> "filled", arg |-> arg, value |-> v]

NoReport == [copy |-> FALSE, text |-> None]

ToolInit ==
  /\ box = [b \in Boxes |-> Empty]
  /\ lastDiagnose = None
  /\ report = NoReport

-----------------------------------------------------------------------------
(* A diagnosis on the page.                                                *)

Groups == <<"config", "prereq", "service", "kernel", "network">>

\* A slip in renderChecks: a group missing from the order.
RenderFourGroups(checks) ==
  {c \in checks : \E i \in 1 .. 4 : Groups[i] = c.group}

\* renderChecks: a table per group, in a fixed order; a check of a group
\* outside it has no place.
RenderChecks(checks) ==
  {c \in checks : \E i \in DOMAIN Groups : Groups[i] = c.group}

\* renderDiagnose: the problems on top, the rest behind a button.
Problems(res) == RenderChecks({c \in res.checks : c.status \in {"fail", "warn"}})
Folded(res) == RenderChecks({c \in res.checks : c.status \notin {"fail", "warn"}})

\* serializeDiagnose: the verdict and every check, group by group.
Serialize(res) == [verdict |-> res.verdict, lines |-> RenderChecks(res.checks)]

-----------------------------------------------------------------------------
(* The pages' steps.                                                       *)

\* Neither page calls anything before a button is pressed.
OpenTools(page) ==
  /\ Enter(page)
  /\ box' = [b \in Boxes |-> Empty]
  /\ report' = NoReport
  /\ UNCHANGED <<calls, lastDiagnose>>

LeaveTools ==
  /\ view \in {"diagnostics", "tools"}
  /\ view' = "none"
  /\ box' = [b \in Boxes |-> Empty]
  /\ report' = NoReport
  /\ calls' = Abandoned
  /\ UNCHANGED <<backend, lastDiagnose>>

\* A button, or Enter in the domain field; an empty field does nothing.
PressButton(b, k, arg) ==
  /\ view = PageOf(b)
  /\ report.text = None
  /\ Free(<<b, k>>)
  /\ Spend("press")
  /\ arg \in IF b = "domain" THEN Queries ELSE {None}
  /\ box' = [box EXCEPT ![b] = Spinning]
  /\ calls' = Call(<<b, k>>, arg)
  /\ UNCHANGED <<config, staged, records, service, bytes, carried, log, view,
                 lastDiagnose, report>>

\* A slip in the handlers: no catch, so that a rejected call fills nothing.
FillBoxNoCatch(b, k) ==
  LET c == calls[<<b, k>>] IN
  /\ At(<<b, k>>, "answered")
  /\ box' = IF c.value = Failed THEN box
            ELSE [box EXCEPT ![b] = Filled(c.arg, c.value)]
  /\ IF b = "diagnose" /\ c.value # Failed
       THEN /\ lastDiagnose' = c.value
            /\ report' = [report EXCEPT !.copy = TRUE]
       ELSE UNCHANGED <<lastDiagnose, report>>
  /\ calls' = Hung(<<b, k>>)
  /\ UNCHANGED <<backend, view>>

\* An answer fills the box whatever is there, the spinner of a later call
\* included.
FillBox(b, k) ==
  LET c == calls[<<b, k>>] IN
  /\ At(<<b, k>>, "answered")
  /\ box' = [box EXCEPT ![b] = IF c.value = Failed THEN Error
                               ELSE Filled(c.arg, c.value)]
  /\ IF b = "diagnose" /\ c.value # Failed
       THEN /\ lastDiagnose' = c.value
            /\ report' = [report EXCEPT !.copy = TRUE]
       ELSE UNCHANGED <<lastDiagnose, report>>
  /\ calls' = Hung(<<b, k>>)
  /\ UNCHANGED <<backend, view>>

\* handleCopyReport
CopyReport ==
  /\ view = "diagnostics"
  /\ report.copy /\ report.text = None
  /\ lastDiagnose # None
  /\ report' = [report EXCEPT !.text = Serialize(lastDiagnose)]
  /\ UNCHANGED <<backend, view, calls, box, lastDiagnose>>

CloseReport ==
  /\ report.text # None
  /\ report' = [report EXCEPT !.text = None]
  /\ UNCHANGED <<backend, view, calls, box, lastDiagnose>>

ToolStep ==
  \/ \E page \in {"diagnostics", "tools"} : OpenTools(page)
  \/ LeaveTools
  \/ \E b \in Boxes, k \in Slots, arg \in Queries \cup {None} : PressButton(b, k, arg)
  \/ \E b \in Boxes, k \in Slots : FillBox(b, k)
  \/ CopyReport
  \/ CloseReport

=============================================================================
