-------------------------- MODULE ToolPages_proofs --------------------------
(***************************************************************************)
(* What the Check a domain tool and the diagnosis say, for any rules.      *)
(*                                                                         *)
(* A box shows an answer its call was given, whichever of several calls it *)
(* was, so that it is enough that every answer is right when it is made.   *)
(* For the diagnosis the point is its probe: the host it asks for must be  *)
(* one the rules tunnel, whatever they are.                                *)
(***************************************************************************)
EXTENDS WebPages_proofs, FiniteSetTheorems

-----------------------------------------------------------------------------
(* The Check a domain tool.                                                *)

DomainInv ==
  /\ AnswersInv
  /\ BoxFn
  /\ box["domain"].kind = "filled" =>
       VerdictGood(box["domain"].arg, box["domain"].value)

LEMMA DomainInit ==
  ASSUME Init
  PROVE  DomainInv
BY AnswersInit DEF Init, ToolInit, Empty, DomainInv, BoxFn, Boxes

LEMMA DomainStep ==
  ASSUME DomainInv, [Next]_vars
  PROVE  DomainInv'
<1>1. AnswersInv'
  BY AnswersStayGood DEF DomainInv
<1>2. "domain" \in Boxes
  BY DEF Boxes
<1>3. ASSUME BoxFn',
             \/ box'["domain"] = box["domain"]
             \/ box'["domain"].kind # "filled"
             \/ VerdictGood(box'["domain"].arg, box'["domain"].value)
      PROVE  DomainInv'
  BY <1>1, <1>3 DEF DomainInv, VerdictGood
<1>4. CASE (\E page \in {"diagnostics", "tools"} : OpenTools(page)) \/ LeaveTools
  BY <1>2, <1>3, <1>4 DEF OpenTools, LeaveTools, BoxFn, Empty
<1>5. ASSUME NEW b \in Boxes, NEW k \in Slots, NEW arg, PressButton(b, k, arg)
      PROVE  DomainInv'
  BY <1>2, <1>3, <1>5 DEF PressButton, DomainInv, BoxFn, Spinning
<1>6. ASSUME NEW b \in Boxes, NEW k \in Slots, FillBox(b, k)
      PROVE  DomainInv'
  <2>1. BoxFn'
    BY <1>6 DEF FillBox, DomainInv, BoxFn
  <2>2. CASE b # "domain"
    BY <1>2, <1>3, <1>6, <2>1, <2>2 DEF FillBox, DomainInv, BoxFn
  <2>3. CASE b = "domain"
    <3> DEFINE c == calls[<<"domain", k>>]
    <3>1. /\ At(<<"domain", k>>, "answered")
          /\ box'["domain"] = IF c.value = Failed THEN Error ELSE Filled(c.arg, c.value)
      BY <1>2, <1>6, <2>3 DEF FillBox, DomainInv, BoxFn
    <3>2. CASE c.value = Failed
      BY <1>3, <2>1, <3>1, <3>2 DEF Error
    <3>3. CASE c.value # Failed
      <4>1. VerdictGood(c.arg, c.value)
        BY <3>1, <3>3 DEF DomainInv, AnswersInv, DomainGood, Answer, At, Free, Idle
      <4> QED
        BY <1>3, <2>1, <3>1, <3>3, <4>1 DEF Filled
    <3> QED
      BY <3>2, <3>3
  <2> QED
    BY <2>2, <2>3
<1>7. CASE UNCHANGED box
  BY <1>3, <1>7 DEF DomainInv, BoxFn
<1>8. CASE CopyReport \/ CloseReport
  BY <1>7, <1>8 DEF CopyReport, CloseReport
<1> QED
  BY <1>4, <1>5, <1>6, <1>7, <1>8 DEF Next, ToolStep, toolPages, vars

\* When users ask about host names, what the tool shows is what happens to
\* every connection to that name, for all rules that are bare names.
THEOREM DomainTruth ==
  ASSUME Queries \subseteq {NamedRule(n) : n \in Names}
  PROVE  Spec => []DomainTellsTruth
<1>1. Init => DomainInv
  BY DomainInit
<1>2. DomainInv /\ [Next]_vars => DomainInv'
  BY DomainStep
<1>3. DomainInv => DomainTellsTruth
  <2> SUFFICES ASSUME DomainInv, box["domain"].kind = "filled",
                      NEW d \in Destination,
                      d.name = box["domain"].arg.name,
                      ByName(box["domain"].value.records)
               PROVE  box["domain"].value.verdict = "tunnel"
                        <=> Tunneled(box["domain"].value.records, d)
    BY DEF DomainTellsTruth
  <2> DEFINE q == box["domain"].arg
             rec == box["domain"].value.records
  <2>1. /\ q \in Queries /\ rec \in Records
        /\ box["domain"].value.verdict = CheckDomain(rec, q)
    BY DEF DomainInv, VerdictGood
  <2>2. q = NamedRule(d.name) /\ d.name # None
    <3>1. PICK n \in Names : q = NamedRule(n)
      BY <2>1
    <3>2. q.name = n
      BY <3>1 DEF NamedRule
    <3> QED
      BY <3>1, <3>2, RulePolicyAssumption
  <2> QED
    BY <2>1, <2>2, DomainVerdict
<1> QED
  BY <1>1, <1>2, <1>3, PTL DEF Spec

-----------------------------------------------------------------------------
(* The probe of the diagnosis.                                             *)

\* A set of positions has a first one: among the intervals up to each, one
\* contains no other.
LEMMA FirstOfSome ==
  ASSUME NEW n \in Nat, NEW good, good \subseteq 1 .. n, good # {}
  PROVE  \E i \in good : \A j \in good : i <= j
<1> DEFINE upTo == {1 .. i : i \in good}
<1>1. IsFiniteSet(1 .. n)
  BY FS_Interval
<1>2. IsWellFoundedOn(StrictSubsetOrdering(1 .. n), SUBSET (1 .. n))
  BY <1>1, FS_StrictSubsetOrderingWellFounded, FS_FiniteSubsetsOfFinite
<1>3. upTo \subseteq SUBSET (1 .. n) /\ upTo # {}
  <2>1. \A i \in good : 1 .. i \subseteq 1 .. n
    OBVIOUS
  <2> QED
    BY <2>1
<1>4. PICK x \in upTo :
        \A y \in upTo : ~(<<y, x>> \in StrictSubsetOrdering(1 .. n))
  <2> HIDE DEF upTo
  <2> QED
    BY <1>2, <1>3, WFMin
<1>5. PICK i \in good : x = 1 .. i
  BY <1>4
<1>6. ASSUME NEW j \in good, j < i
      PROVE  FALSE
  <2>1. 1 .. j \in upTo /\ 1 .. i \in upTo
    OBVIOUS
  <2>2. 1 .. j \subseteq 1 .. i /\ i \in 1 .. i /\ i \notin 1 .. j
    BY <1>6
  <2>3. <<1 .. j, 1 .. i>> \in StrictSubsetOrdering(1 .. n)
    BY <1>3, <2>1, <2>2 DEF StrictSubsetOrdering
  <2> QED
    BY <1>4, <1>5, <2>1, <2>3
<1> QED
  BY <1>6

LEMMA FirstEchoIsOne ==
  ASSUME NEW hosts, FirstEcho(hosts) # None
  PROVE  FirstEcho(hosts) \in hosts \cap Names
<1> DEFINE good == {i \in DOMAIN EchoHosts : EchoHosts[i] \in hosts}
           first == CHOOSE i \in good : \A j \in good : i <= j
<1>1. good # {} /\ FirstEcho(hosts) = EchoHosts[first]
  BY DEF FirstEcho
<1>2. EchoHosts \in Seq(Names)
  BY BackendAssumption
<1>3. Len(EchoHosts) \in Nat /\ good \subseteq 1 .. Len(EchoHosts)
  BY <1>2
<1>4. \E i \in good : \A j \in good : i <= j
  BY <1>1, <1>3, FirstOfSome
<1>5. first \in good
  BY <1>4
<1> QED
  BY <1>1, <1>2, <1>5

LEMMA ProbeDomainIsListed ==
  ASSUME NEW list \in Seq(Rule), ProbeDomain(list) # None
  PROVE  \E r \in Entries(list) :
           r.kind = "name" /\ r.name = ProbeDomain(list) /\ r.name \in Names
<1> DEFINE bare == {i \in DOMAIN list : list[i].kind = "name"}
           first == CHOOSE i \in bare : \A j \in bare : i <= j
<1>1. bare # {} /\ ProbeDomain(list) = list[first].name
  BY DEF ProbeDomain
<1>2. Len(list) \in Nat /\ bare \subseteq 1 .. Len(list)
  OBVIOUS
<1>3. \E i \in bare : \A j \in bare : i <= j
  BY <1>1, <1>2, FirstOfSome
<1>4. first \in bare
  BY <1>3
<1> HIDE DEF first
<1>5. first \in DOMAIN list /\ list[first].kind = "name"
  BY <1>4
<1>6. list[first] \in Entries(list)
  BY <1>5 DEF Entries
<1>7. list[first] \in Rule
  BY <1>5
<1>8. list[first].name \in Names
  BY <1>5, <1>7, RuleFields
<1> QED
  BY <1>1, <1>5, <1>6, <1>8 DEF first

\* The client tunnels what the probe asks for, when the rules that decide are
\* bare names.
LEMMA ProbeIsTunneled ==
  ASSUME NEW rec \in Records, ByName(rec), rec.proxy \/ Profiled(rec),
         ProbeTarget(rec) # None, NEW addr, NEW port
  PROVE  ClientTunnels(rec, [name |-> ProbeTarget(rec), addr |-> addr, port |-> port])
<1> DEFINE n == ProbeTarget(rec)
           d == [name |-> n, addr |-> addr, port |-> port]
           list == Entries(EffectiveList(rec))
<1>1. /\ ProfileMode(rec) \in {"none", "vpn", "bypass", "other"}
      /\ rec.proxy \in BOOLEAN
      /\ rec.vpn \in Seq(Rule)
  BY ModeValues DEF Records
<1>2. CASE ProfileMode(rec) = "bypass"
  <2>1. \E r \in Entries(rec.vpn) : NameMatches(r, n)
    <3>1. CASE FirstEcho(ListedNames(rec)) # None
      <4>1. n = FirstEcho(ListedNames(rec))
        BY <1>2, <3>1 DEF ProbeTarget
      <4>2. n \in ListedNames(rec)
        BY <3>1, <4>1, FirstEchoIsOne
      <4>3. EffectiveList(rec) = rec.vpn
        BY <1>2 DEF EffectiveList
      <4> HIDE DEF n
      <4> QED
        BY <4>2, <4>3 DEF ListedNames, Listed
    <3>2. CASE FirstEcho(ListedNames(rec)) = None
      BY <1>1, <1>2, <3>2, ProbeDomainIsListed DEF ProbeTarget, NameMatches
    <3> QED
      BY <3>1, <3>2
  <2>2. Matched(Entries(rec.vpn), d)
    BY <2>1 DEF Matched, ClientMatches
  <2> QED
    BY <1>2, <2>2 DEF ClientTunnels, VpnMode, Exclusions
<1>3. CASE ProfileMode(rec) # "bypass"
  <2>1. n \in Names \ ListedNames(rec)
    BY <1>3, FirstEchoIsOne DEF ProbeTarget
  <2>2. \A r \in list : r.kind = "name" /\ ~NameMatches(r, n)
    BY <2>1 DEF ListedNames, Listed, ByName
  <2>3. ~Matched(list, d)
    BY <2>2 DEF Matched, ClientMatches
  <2>4. VpnMode(rec) = "general" /\ Exclusions(rec) = list
    BY <1>1, <1>3 DEF VpnMode, Exclusions, EffectiveList, Profiled
  <2> QED
    BY <2>3, <2>4 DEF ClientTunnels
<1> QED
  BY <1>2, <1>3

-----------------------------------------------------------------------------
(* The diagnosis.                                                          *)

DiagnosisGood(res) ==
  res.steady =>
    LET rec == res.records
        up == res.service.up /\ (rec.proxy => rec.listen)
    IN /\ ~up => res.verdict = "fail"
       /\ (up /\ rec.server /\ ByName(rec) /\ (rec.proxy \/ Profiled(rec))) =>
            res.verdict # "fail"

\* Without a device or a listener some check fails.
LEMMA DownIsReported ==
  ASSUME BackendInv, ~(service.up /\ (records.proxy => records.listen)),
         NEW net \in BOOLEAN
  PROVE  \E c \in Checks(Begun, net) : c.status = "fail"
<1>1. /\ service.running \in BOOLEAN /\ service.up \in BOOLEAN
      /\ service.up => service.running
  <2>1. CASE service = Stopped
    BY <2>1 DEF Stopped
  <2>2. CASE service = Connecting
    BY <2>2 DEF Connecting
  <2>3. CASE service = Working
    BY <2>3 DEF Working
  <2>4. CASE service = Dead
    BY <2>4 DEF Dead
  <2> QED
    BY <2>1, <2>2, <2>3, <2>4 DEF BackendInv, Services
<1>2. records.proxy \in BOOLEAN /\ records.listen \in BOOLEAN
  BY DEF BackendInv, Records
<1>3. Begun.records = records /\ Begun.device = (~records.proxy /\ service.up)
  BY DEF Begun
<1>4. CASE ~service.running
  <2>1. Check("service", "running", "fail") \in Checks(Begun, net)
    BY <1>4 DEF Checks
  <2> QED
    BY <2>1 DEF Check
<1>5. CASE service.running /\ records.proxy
  <2>1. Check("kernel", "listener", "fail") \in Checks(Begun, net)
    BY <1>2, <1>3, <1>5 DEF Checks
  <2> QED
    BY <2>1 DEF Check
<1>6. CASE service.running /\ ~records.proxy
  <2>1. Check("kernel", "device", "fail") \in Checks(Begun, net)
    BY <1>3, <1>6 DEF Checks
  <2> QED
    BY <2>1 DEF Check
<1> QED
  BY <1>2, <1>4, <1>5, <1>6

\* With everything up no check fails, the probe included.
LEMMA UpIsReported ==
  ASSUME BackendInv, service.up, records.proxy => records.listen,
         records.server, ByName(records), records.proxy \/ Profiled(records)
  PROVE  \A c \in Checks(Begun, TRUE) : c.status # "fail"
<1>1. service.running /\ service.up /\ service.wired
  <2>1. CASE service = Stopped
    BY <2>1 DEF Stopped
  <2>2. CASE service = Connecting
    BY <2>2 DEF Connecting
  <2>3. CASE service = Working
    BY <2>3 DEF Working
  <2>4. CASE service = Dead
    BY <2>4 DEF Dead
  <2> QED
    BY <2>1, <2>2, <2>3, <2>4 DEF BackendInv, Services
<1>2. /\ Begun.records = records
      /\ Begun.device = (~records.proxy /\ service.up)
      /\ Begun.ruleset = (~records.proxy /\ service.wired)
  BY DEF Begun
<1>3. ProbeStatus(records, TRUE) # "fail"
  <2> DEFINE n == ProbeTarget(records)
             d == [name |-> n, addr |-> Resolve[n], port |-> Https]
             plain == ~records.proxy /\ records.router /\ service.up /\ Tunneled(records, d)
  <2>1. CASE n = None
    BY <2>1 DEF ProbeStatus
  <2>2. CASE n # None /\ records.router /\ ~records.proxy
    BY <1>1, <2>2 DEF ProbeStatus
  <2>3. CASE n # None /\ ~(records.router /\ ~records.proxy)
    <3>1. ClientTunnels(records, d) /\ ~plain
      BY <2>3, ProbeIsTunneled DEF BackendInv
    <3> QED
      BY <1>1, <2>3, <3>1 DEF ProbeStatus
  <2> QED
    BY <2>1, <2>2, <2>3
<1>4. records.proxy \in BOOLEAN
  BY DEF BackendInv, Records
<1>5. SUFFICES ASSUME NEW c \in Checks(Begun, TRUE)
               PROVE  c.status # "fail"
  OBVIOUS
<1>c. \A g, l, s : Check(g, l, s).status = s
  BY DEF Check
<1>6. CASE records.proxy
  <2>1. /\ records.listen
        /\ c \in {Check("config", "server", "ok"),
             Check("config", "profile", IF records.profile # None THEN "ok" ELSE "warn"),
             Check("prereq", "client", "ok"),
             Check("service", "enabled", IF config.enabled THEN "ok" ELSE "warn"),
             Check("service", "running", "ok"),
             Check("kernel", "listener", "ok"),
             Check("kernel", "meter", IF Begun.metered THEN "ok" ELSE "warn"),
             Check("network", "server", "ok"),
             Check("network", "tunnel", ProbeStatus(records, TRUE))}
    BY <1>1, <1>2, <1>6 DEF Checks
  <2>2. PICK g, l, s :
          c = Check(g, l, s) /\ s \in {"ok", "warn", ProbeStatus(records, TRUE)}
    BY <2>1
  <2>3. c.status = s
    BY <1>c, <2>2
  <2>4. s # "fail"
    BY <1>3, <2>2
  <2> QED
    BY <2>3, <2>4
<1>7. CASE ~records.proxy
  <2>1. c \in {Check("config", "server", "ok"),
           Check("config", "profile", IF records.profile # None THEN "ok" ELSE "warn"),
           Check("prereq", "client", "ok"),
           Check("service", "enabled", IF config.enabled THEN "ok" ELSE "warn"),
           Check("service", "running", "ok"),
           Check("kernel", "device", "ok"),
           Check("kernel", "ruleset", "ok"),
           Check("network", "server", "ok"),
           Check("network", "tunnel", ProbeStatus(records, TRUE))}
    BY <1>1, <1>2, <1>7 DEF Checks
  <2>2. PICK g, l, s :
          c = Check(g, l, s) /\ s \in {"ok", "warn", ProbeStatus(records, TRUE)}
    BY <2>1
  <2>3. c.status = s
    BY <1>c, <2>2
  <2>4. s # "fail"
    BY <1>3, <2>2
  <2> QED
    BY <2>3, <2>4
<1> QED
  BY <1>4, <1>6, <1>7

LEMMA DiagnosisIsGood ==
  ASSUME BackendInv, NEW begun, NEW net \in BOOLEAN
  PROVE  DiagnosisGood(Diagnosis(begun, net))
<1> DEFINE res == Diagnosis(begun, net)
<1>1. /\ res.records = begun.records /\ res.service = service
      /\ res.verdict = VerdictOf(Checks(begun, net))
      /\ res.steady <=> begun = Begun /\ net
  BY DEF Diagnosis
<1> HIDE DEF res
<1>2. Begun.records = records
  BY DEF Begun
<1>3. SUFFICES ASSUME begun = Begun, net
               PROVE  DiagnosisGood(res)
  BY <1>1 DEF DiagnosisGood, res
<1>4. net = TRUE
  BY <1>3
<1>5. CASE ~(service.up /\ (records.proxy => records.listen))
  <2>1. res.verdict = "fail"
    BY <1>1, <1>3, <1>5, DownIsReported DEF VerdictOf
  <2> QED
    BY <1>1, <1>2, <1>3, <1>5, <2>1 DEF DiagnosisGood
<1>6. CASE service.up /\ (records.proxy => records.listen)
  <2>1. (records.server /\ ByName(records) /\ (records.proxy \/ Profiled(records)))
          => res.verdict # "fail"
    BY <1>1, <1>3, <1>4, <1>6, UpIsReported DEF VerdictOf
  <2> QED
    BY <1>1, <1>2, <1>3, <1>6, <2>1 DEF DiagnosisGood
<1> QED
  BY <1>5, <1>6

DiagnoseCallGood(ch) ==
  (At(ch, "answered") /\ Answer(ch) # Failed) => DiagnosisGood(Answer(ch))

DiagnosisInv ==
  /\ AnswersInv
  /\ BoxFn
  /\ \A k \in Slots : DiagnoseCallGood(<<"diagnose", k>>)
  /\ box["diagnose"].kind = "filled" => DiagnosisGood(box["diagnose"].value)

LEMMA CallsStayGood ==
  ASSUME DiagnosisInv, [Next]_vars, NEW k \in Slots
  PROVE  DiagnoseCallGood(<<"diagnose", k>>)'
<1> DEFINE ch == <<"diagnose", k>>
<1>1. DiagnoseMoves(ch)
  BY DiagnoseStep DEF DiagnosisInv, AnswersInv
<1>2. CASE calls'[ch] = calls[ch]
  BY <1>2 DEF DiagnosisInv, DiagnoseCallGood, At, Free, Answer, DiagnosisGood
<1>3. CASE calls'[ch] = Idle \/ calls'[ch].stage # "answered"
  BY <1>3 DEF DiagnoseCallGood, At, Idle
<1>4. CASE calls'[ch].value = Failed
  BY <1>4 DEF DiagnoseCallGood, Answer
<1>5. ASSUME NEW begun, NEW net \in BOOLEAN,
             calls'[ch].value = Diagnosis(begun, net)
      PROVE  DiagnoseCallGood(ch)'
  <2>1. DiagnosisGood(Diagnosis(begun, net))
    BY DiagnosisIsGood DEF DiagnosisInv, AnswersInv
  <2>2. DiagnosisGood(calls'[ch].value)
    BY <1>5, <2>1
  <2> QED
    BY <2>2 DEF DiagnoseCallGood, DiagnosisGood, Answer
<1> QED
  BY <1>1, <1>2, <1>3, <1>4, <1>5 DEF DiagnoseMoves

LEMMA DiagnosisInit ==
  ASSUME Init
  PROVE  DiagnosisInv
<1>1. AnswersInv /\ \A ch \in Channels : Free(ch)
  BY AnswersInit DEF Init, BackendInit, NoCalls, Free
<1>2. BoxFn /\ box["diagnose"].kind # "filled"
  BY DEF Init, ToolInit, Empty, BoxFn, Boxes
<1> QED
  BY <1>1, <1>2, ChannelKinds DEF DiagnosisInv, DiagnoseCallGood, At, Free, Idle

LEMMA DiagnosisStep ==
  ASSUME DiagnosisInv, [Next]_vars
  PROVE  DiagnosisInv'
<1>1. AnswersInv' /\ \A k \in Slots : DiagnoseCallGood(<<"diagnose", k>>)'
  BY AnswersStayGood, CallsStayGood DEF DiagnosisInv
<1>2. "diagnose" \in Boxes
  BY DEF Boxes
<1>3. ASSUME BoxFn',
             \/ box'["diagnose"] = box["diagnose"]
             \/ box'["diagnose"].kind # "filled"
             \/ DiagnosisGood(box'["diagnose"].value)
      PROVE  DiagnosisInv'
  BY <1>1, <1>3 DEF DiagnosisInv, DiagnosisGood
<1>4. CASE (\E page \in {"diagnostics", "tools"} : OpenTools(page)) \/ LeaveTools
  BY <1>2, <1>3, <1>4 DEF OpenTools, LeaveTools, BoxFn, Empty
<1>5. ASSUME NEW b \in Boxes, NEW k \in Slots, NEW arg, PressButton(b, k, arg)
      PROVE  DiagnosisInv'
  BY <1>2, <1>3, <1>5 DEF PressButton, DiagnosisInv, BoxFn, Spinning
<1>6. ASSUME NEW b \in Boxes, NEW k \in Slots, FillBox(b, k)
      PROVE  DiagnosisInv'
  <2>1. BoxFn'
    BY <1>6 DEF FillBox, DiagnosisInv, BoxFn
  <2>2. CASE b # "diagnose"
    BY <1>2, <1>3, <1>6, <2>1, <2>2 DEF FillBox, DiagnosisInv, BoxFn
  <2>3. CASE b = "diagnose"
    <3> DEFINE c == calls[<<"diagnose", k>>]
    <3>1. /\ At(<<"diagnose", k>>, "answered")
          /\ box'["diagnose"] = IF c.value = Failed THEN Error ELSE Filled(c.arg, c.value)
      BY <1>2, <1>6, <2>3 DEF FillBox, DiagnosisInv, BoxFn
    <3>2. CASE c.value = Failed
      BY <1>3, <2>1, <3>1, <3>2 DEF Error
    <3>3. CASE c.value # Failed
      <4>1. DiagnosisGood(c.value)
        BY <3>1, <3>3 DEF DiagnosisInv, DiagnoseCallGood, Answer
      <4> QED
        BY <1>3, <2>1, <3>1, <3>3, <4>1 DEF Filled
    <3> QED
      BY <3>2, <3>3
  <2> QED
    BY <2>2, <2>3
<1>7. CASE UNCHANGED box
  BY <1>3, <1>7 DEF DiagnosisInv, BoxFn
<1>8. CASE CopyReport \/ CloseReport
  BY <1>7, <1>8 DEF CopyReport, CloseReport
<1> QED
  BY <1>4, <1>5, <1>6, <1>7, <1>8 DEF Next, ToolStep, toolPages, vars

\* Whatever the rules, the echo services and the order of events: a diagnosis
\* during which nothing moved reports a problem when the service is down, and
\* none when everything is up.
THEOREM DiagnosisTruth == Spec => []DiagnosisTellsTruth
<1>1. Init => DiagnosisInv
  BY DiagnosisInit
<1>2. DiagnosisInv /\ [Next]_vars => DiagnosisInv'
  BY DiagnosisStep
<1>3. DiagnosisInv => DiagnosisTellsTruth
  BY DEF DiagnosisInv, DiagnosisGood, DiagnosisTellsTruth
<1> QED
  BY <1>1, <1>2, <1>3, PTL DEF Spec

-----------------------------------------------------------------------------
(* The report of a diagnosis.                                              *)

ReportRec == report = [copy |-> report.copy, text |-> report.text]

VerdictIsOfChecks(res) == res \in Diagnoses /\ res.verdict = VerdictOf(res.checks)

\* A diagnosis on the screen is the last one there was.
ReportOfScreen ==
  /\ ReportRec
  /\ report.copy => lastDiagnose # None
  /\ box["diagnose"].kind = "filled" =>
       lastDiagnose = box["diagnose"].value /\ VerdictIsOfChecks(lastDiagnose)

ReportInv ==
  /\ TypesInv
  /\ \A k \in Slots : LET ch == <<"diagnose", k>> IN
       (At(ch, "answered") /\ Answer(ch) # Failed) => VerdictIsOfChecks(Answer(ch))
  /\ ReportOfScreen

LEMMA ReportInit ==
  ASSUME Init
  PROVE  ReportInv
<1>1. TypesInv /\ \A ch \in Channels : Free(ch)
  BY TypesInit DEF Init, BackendInit, NoCalls, Free
<1>2. ReportRec /\ ~report.copy /\ box["diagnose"].kind # "filled"
  BY DEF Init, ToolInit, ReportRec, NoReport, Empty, Boxes
<1> QED
  BY <1>1, <1>2, ChannelKinds DEF ReportInv, ReportOfScreen, At, Free, Idle

LEMMA VerdictsStay ==
  ASSUME ReportInv, [Next]_vars, NEW k \in Slots,
         At(<<"diagnose", k>>, "answered")', Answer(<<"diagnose", k>>)' # Failed
  PROVE  VerdictIsOfChecks(Answer(<<"diagnose", k>>)')
<1> DEFINE ch == <<"diagnose", k>>
<1>1. DiagnoseMoves(ch)
  BY DiagnoseStep DEF ReportInv, TypesInv, SpinnerInv
<1>2. CASE calls'[ch] = calls[ch]
  BY <1>2 DEF ReportInv, At, Answer
<1>3. CASE calls'[ch].value = Diagnosis(Answer(ch), TRUE)
             \/ calls'[ch].value = Diagnosis(Answer(ch), FALSE)
  <2>1. PICK net \in BOOLEAN : calls'[ch].value = Diagnosis(Answer(ch), net)
    BY <1>3
  <2> DEFINE res == Diagnosis(Answer(ch), net)
  <2>2. res.verdict = VerdictOf(res.checks)
    BY DEF Diagnosis
  <2>3. calls'[ch].value \in Diagnoses
    BY CallTypesStep DEF ReportInv, TypesInv, CallTypes, DiagnoseTyped, Answer
  <2> QED
    BY <2>1, <2>2, <2>3 DEF VerdictIsOfChecks, Answer
<1>4. CASE calls'[ch] = Idle \/ calls'[ch].stage # "answered"
  BY <1>4 DEF At, Idle
<1>5. CASE calls'[ch].value = Failed
  BY <1>5 DEF Answer
<1> QED
  BY <1>1, <1>2, <1>3, <1>4, <1>5 DEF DiagnoseMoves

LEMMA ReportStep ==
  ASSUME ReportInv, [Next]_vars
  PROVE  ReportInv'
<1>1. /\ TypesInv' /\ BoxFn
      /\ \A k \in Slots : LET ch == <<"diagnose", k>> IN
           (At(ch, "answered")' /\ Answer(ch)' # Failed) => VerdictIsOfChecks(Answer(ch)')
  BY TypesStep, VerdictsStay DEF ReportInv, TypesInv, SpinnerInv
<1>2. "diagnose" \in Boxes
  BY DEF Boxes
<1>3. ReportOfScreen
  BY DEF ReportInv
<1>9. SUFFICES ReportOfScreen'
  BY <1>1 DEF ReportInv, VerdictIsOfChecks, Diagnoses
<1>4. CASE (\E page \in {"diagnostics", "tools"} : OpenTools(page)) \/ LeaveTools
  <2>1. box' = [b \in Boxes |-> Empty] /\ report' = NoReport
    BY <1>4 DEF OpenTools, LeaveTools
  <2>2. box'["diagnose"].kind # "filled" /\ ReportRec'
    BY <1>2, <2>1 DEF Empty, NoReport, ReportRec
  <2>3. report'.copy = FALSE
    BY <2>1 DEF NoReport
  <2> QED
    BY <2>2, <2>3 DEF ReportOfScreen
<1>5. ASSUME NEW b \in Boxes, NEW k \in Slots, NEW arg, PressButton(b, k, arg)
      PROVE  ReportOfScreen'
  BY <1>1, <1>2, <1>3, <1>5
  DEF PressButton, ReportOfScreen, ReportRec, VerdictIsOfChecks, BoxFn, Spinning, Diagnoses
<1>6. ASSUME NEW b \in Boxes, NEW k \in Slots, FillBox(b, k)
      PROVE  ReportOfScreen'
  <2> DEFINE c == calls[<<b, k>>]
             full == IF c.value = Failed THEN Error ELSE Filled(c.arg, c.value)
  <2>1. /\ At(<<b, k>>, "answered")
        /\ box' = [box EXCEPT ![b] = full]
        /\ IF b = "diagnose" /\ c.value # Failed
             THEN lastDiagnose' = c.value /\ report' = [report EXCEPT !.copy = TRUE]
             ELSE UNCHANGED <<lastDiagnose, report>>
    BY <1>6 DEF FillBox
  <2>2. CASE b # "diagnose"
    BY <1>1, <1>2, <1>3, <2>1, <2>2
    DEF BoxFn, ReportOfScreen, ReportRec, VerdictIsOfChecks, Diagnoses
  <2>3. CASE b = "diagnose" /\ c.value = Failed
    <3>1. box'["diagnose"].kind # "filled"
      BY <1>1, <1>2, <2>1, <2>3 DEF BoxFn, Error
    <3> QED
      BY <1>3, <2>1, <2>3, <3>1 DEF ReportOfScreen, ReportRec
  <2>4. CASE b = "diagnose" /\ c.value # Failed
    <3>1. VerdictIsOfChecks(c.value)
      BY <2>1, <2>4 DEF ReportInv, Answer
    <3>2. c.value # None
      BY <3>1, WebPagesAssumption DEF VerdictIsOfChecks
    <3>3. box'["diagnose"].value = c.value
      BY <1>1, <1>2, <2>1, <2>4 DEF BoxFn, Filled
    <3>4. ReportRec' /\ lastDiagnose' = c.value
      BY <1>3, <2>1, <2>4 DEF ReportOfScreen, ReportRec
    <3>5. VerdictIsOfChecks(lastDiagnose)'
      BY <3>1, <3>4 DEF VerdictIsOfChecks, Diagnoses
    <3> QED
      BY <3>2, <3>3, <3>4, <3>5 DEF ReportOfScreen
  <2> QED
    BY <2>2, <2>3, <2>4
<1>7. CASE CopyReport \/ CloseReport
  <2>1. UNCHANGED <<box, lastDiagnose>>
    BY <1>7 DEF CopyReport, CloseReport
  <2>2. ReportRec' /\ report'.copy = report.copy
    BY <1>3, <1>7 DEF CopyReport, CloseReport, ReportOfScreen, ReportRec
  <2> QED
    BY <1>3, <2>1, <2>2 DEF ReportOfScreen, VerdictIsOfChecks, Diagnoses
<1>8. CASE UNCHANGED <<box, lastDiagnose, report>>
  BY <1>3, <1>8 DEF ReportOfScreen, ReportRec, VerdictIsOfChecks, Diagnoses
<1> QED
  BY <1>4, <1>5, <1>6, <1>7, <1>8 DEF Next, ToolStep, vars, toolPages

\* No check is left out of the tables.
LEMMA AllHavePlaces ==
  ASSUME NEW checks, checks \subseteq Lines
  PROVE  RenderChecks(checks) = checks
<1>1. \A c \in checks : c.group \in Entries(Groups)
  BY DEF Lines
<1> QED
  BY <1>1 DEF RenderChecks, Entries

LEMMA ScreenIsComplete ==
  ASSUME NEW res, VerdictIsOfChecks(res)
  PROVE  /\ Problems(res) \cup Folded(res) = res.checks
         /\ Problems(res) = {} <=> res.verdict = "ok"
         /\ Serialize(res).lines = res.checks
<1>1. res.checks \subseteq Lines
  BY DEF VerdictIsOfChecks, Diagnoses
<1>2. /\ Problems(res) = {c \in res.checks : c.status \in {"fail", "warn"}}
      /\ Folded(res) = {c \in res.checks : c.status \notin {"fail", "warn"}}
      /\ Serialize(res).lines = res.checks
  BY <1>1, AllHavePlaces DEF Problems, Folded, Serialize
<1>3. res.verdict = "ok" <=> ~\E c \in res.checks : c.status \in {"fail", "warn"}
  BY DEF VerdictIsOfChecks, VerdictOf
<1> QED
  BY <1>2, <1>3

\* Whatever several presses of the button bring, in any order: what is on the
\* screen and in the report is every check of the last diagnosis there was.
THEOREM ReportTruth == Spec => []ReportIsComplete
<1>1. Init => ReportInv
  BY ReportInit
<1>2. ReportInv /\ [Next]_vars => ReportInv'
  BY ReportStep
<1>3. ReportInv => ReportIsComplete
  BY ScreenIsComplete DEF ReportInv, ReportOfScreen, ReportIsComplete
<1> QED
  BY <1>1, <1>2, <1>3, PTL DEF Spec

=============================================================================
