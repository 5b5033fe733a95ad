------------------------------ MODULE TaskProofs ------------------------------
(***************************************************************************)
(* Proofs about the tasks of a run: how they are planned (RunPlanning) and  *)
(* what becomes of one after another (ProviderAttempts), for any number of  *)
(* fields, claims, groups, tasks and retries.                              *)
(*                                                                         *)
(* What RunPlanning promises is about the end of a node, so none of it is   *)
(* inductive: ReachInv says at every node what the plan and the results     *)
(* have in common, MandatoryInv and AlikeInv add where the tasks and the    *)
(* credentials come from.  LiveIsEvidence speaks of results only; AttemptsInv *)
(* adds who may be sent a request, and how often that has been done.        *)
(***************************************************************************)
EXTENDS ProviderAttempts, RunPlanning, SequenceTheorems, FiniteSetTheorems,
        WellFoundedInduction, TLAPS

-----------------------------------------------------------------------------
(* The invariant of the attempts                                           *)

Statuses == {"SUCCESS", "FAILED", "TIMEOUT"}
TransientReplies == {"server_error", "timeout", "network_error"}

AttemptResult ==
    [audit : {"VERIFIED", "MISMATCH", "PARTIAL", "UNVERIFIED", "MANUAL_REVIEW"},
     how : {"LOCAL_MOCK", "DEMO_PROVIDER", "LIVE_PROVIDER", "PROVIDER", "RULE_ONLY_FALLBACK",
            "CONNECTOR_CLAIM", "MANUAL_REVIEW"},
     executed : Providers \cup {"none"}, live : BOOLEAN, mock : BOOLEAN, demo : BOOLEAN]

AttemptTrace ==
    [task : Nat, provider : Providers, status : Statuses,
     outbound : {"LOCAL_ONLY", "HTTP_JSON"}, live : BOOLEAN, fallback : BOOLEAN]

AttemptsTypeOK ==
    /\ mode \in Modes
    /\ registered \subseteq Providers
    /\ requests \in [TaskIds -> Nat]
    /\ recorded \in Seq(AttemptResult)
    /\ traces \in Seq(AttemptTrace)
    /\ step \in {"next", "candidate", "request"}
    /\ Len(recorded) <= MaxTasks
    /\ step # "next" => Len(recorded) < MaxTasks

\* Nobody outside is asked unless the process is configured for it, and then only
\* while the budget lasts and nothing has settled the task.
RequestInv ==
    /\ registered \cap External # {} => mode \in {"DEMO_MOCK", "EXTERNAL_CONFIGURED"}
    /\ \A t \in TaskIds : t > Len(recorded) + 1 => requests[t] = 0
    /\ step # "request" => \A t \in TaskIds : t > Len(recorded) => requests[t] = 0
    /\ step = "request" =>
          /\ current \in External
          /\ mode = "EXTERNAL_CONFIGURED"
          /\ requests[Len(recorded) + 1] <= RetryBudget
          /\ requests[Len(recorded) + 1] > 0 => lastReply \in TransientReplies

\* The traces that bear a result out.
Answers(t) ==
    {i \in DOMAIN traces : /\ traces[i].task = t
                           /\ traces[i].provider = recorded[t].executed
                           /\ traces[i].status = "SUCCESS"}

ResultInv(t) ==
    /\ recorded[t].live =>
           mode = "EXTERNAL_CONFIGURED" /\ requests[t] > 0 /\ Answers(t) # {}
    /\ recorded[t].how = "LOCAL_MOCK" => recorded[t].mock
    /\ recorded[t].how = "DEMO_PROVIDER" => recorded[t].demo

AttemptsInv ==
    /\ AttemptsTypeOK
    /\ RequestInv
    /\ \A t \in DOMAIN recorded : ResultInv(t)

-----------------------------------------------------------------------------
(* Answers, results and traces                                             *)

LEMMA AnswersTyped ==
  /\ Nothing \in Answer
  /\ \A v, records : LocalAnswer(v, records) \in Answer
  BY DEF Nothing, LocalAnswer, Says, Answer

\* What is recorded of a response names its provider, and its labels are the provider's.
LEMMA ResponseRecorded ==
  ASSUME mode \in Modes, recorded \in Seq(AttemptResult),
         NEW p \in Providers, NEW status \in Statuses, NEW answer \in Answer,
         NEW answered \in BOOLEAN
  PROVE  LET r == Response(p, status, answer, answered)
             x == EvidenceResult(r)
         IN /\ r.status = status
            /\ x \in AttemptResult /\ x.executed = p
            /\ x.live => answered
            /\ x.how = "LOCAL_MOCK" => x.mock
            /\ x.how = "DEMO_PROVIDER" => x.demo
            /\ \A fallback \in BOOLEAN :
                  /\ Trace(r, fallback) \in AttemptTrace
                  /\ Trace(r, fallback).task = Len(recorded) + 1
                  /\ Trace(r, fallback).provider = p
                  /\ Trace(r, fallback).status = status
            /\ \A audit \in {"PARTIAL", "UNVERIFIED", "MANUAL_REVIEW"} :
                  /\ FallbackResult(r, audit) \in AttemptResult
                  /\ ~FallbackResult(r, audit).live
                  /\ FallbackResult(r, audit).how = "RULE_ONLY_FALLBACK"
<1> DEFINE r == Response(p, status, answer, answered)
<1>1. /\ r.provider = p /\ r.status = status /\ r.answer = answer
      /\ r.live \in BOOLEAN /\ r.mock \in BOOLEAN /\ r.demo \in BOOLEAN
      /\ r.live => answered
      /\ p = "local_mock" => r.mock
      /\ r.outbound \in {"LOCAL_ONLY", "HTTP_JSON"}
  BY DEF Response
<1> HIDE DEF r
<1>2. AuditOf(answer) \in {"VERIFIED", "MISMATCH", "PARTIAL", "UNVERIFIED", "MANUAL_REVIEW"}
  BY DEF AuditOf, Answer
<1>3. /\ ExecutionMode(r) \in {"LOCAL_MOCK", "DEMO_PROVIDER", "LIVE_PROVIDER", "PROVIDER"}
      /\ ExecutionMode(r) = "LOCAL_MOCK" => r.mock
      /\ ExecutionMode(r) = "DEMO_PROVIDER" => r.demo
  BY <1>1 DEF ExecutionMode
<1>4. Len(recorded) \in Nat
  OBVIOUS
<1>5. /\ EvidenceResult(r) \in AttemptResult /\ EvidenceResult(r).executed = p
      /\ EvidenceResult(r).live => answered
      /\ EvidenceResult(r).how = "LOCAL_MOCK" => EvidenceResult(r).mock
      /\ EvidenceResult(r).how = "DEMO_PROVIDER" => EvidenceResult(r).demo
  BY <1>1, <1>2, <1>3 DEF EvidenceResult, Result, AttemptResult
<1>6. \A fallback \in BOOLEAN :
         /\ Trace(r, fallback) \in AttemptTrace
         /\ Trace(r, fallback).task = Len(recorded) + 1
         /\ Trace(r, fallback).provider = p
         /\ Trace(r, fallback).status = status
  BY <1>1, <1>4 DEF Trace, AttemptTrace
<1>7. \A audit \in {"PARTIAL", "UNVERIFIED", "MANUAL_REVIEW"} :
         /\ FallbackResult(r, audit) \in AttemptResult
         /\ ~FallbackResult(r, audit).live
         /\ FallbackResult(r, audit).how = "RULE_ONLY_FALLBACK"
  BY <1>1 DEF FallbackResult, Result, AttemptResult
<1>8. QED
  BY <1>1, <1>5, <1>6, <1>7 DEF r

\* A result that is recorded leaves those of the other tasks as they are.
LEMMA ResultRecorded ==
  ASSUME AttemptsInv, Len(recorded) < MaxTasks, mode' = mode,
         requests' \in [TaskIds -> Nat],
         \A t \in TaskIds : requests'[t] >= requests[t],
         NEW x \in AttemptResult, recorded' = Append(recorded, x),
         \/ traces' = traces
         \/ \E y \in AttemptTrace : traces' = Append(traces, y),
         x.live =>
             /\ mode = "EXTERNAL_CONFIGURED"
             /\ requests'[Len(recorded) + 1] > 0
             /\ \E y \in AttemptTrace :
                   /\ traces' = Append(traces, y)
                   /\ y.task = Len(recorded) + 1
                   /\ y.provider = x.executed
                   /\ y.status = "SUCCESS",
         x.how = "LOCAL_MOCK" => x.mock,
         x.how = "DEMO_PROVIDER" => x.demo
  PROVE  /\ recorded' \in Seq(AttemptResult)
         /\ Len(recorded') = Len(recorded) + 1
         /\ traces' \in Seq(AttemptTrace)
         /\ \A t \in DOMAIN recorded' : ResultInv(t)'
<1>1. /\ recorded \in Seq(AttemptResult) /\ traces \in Seq(AttemptTrace)
      /\ Len(recorded) \in Nat /\ Len(traces) \in Nat
      /\ Len(recorded) <= MaxTasks /\ MaxTasks \in Nat
  BY ProviderAssumption DEF AttemptsInv, AttemptsTypeOK
<1>2. /\ recorded' \in Seq(AttemptResult)
      /\ Len(recorded') = Len(recorded) + 1
      /\ DOMAIN recorded' = 1 .. (Len(recorded) + 1) /\ DOMAIN recorded = 1 .. Len(recorded)
      /\ recorded'[Len(recorded) + 1] = x
      /\ \A t \in DOMAIN recorded : recorded'[t] = recorded[t]
  BY <1>1, AppendProperties
<1>3. /\ traces' \in Seq(AttemptTrace)
      /\ DOMAIN traces \subseteq DOMAIN traces'
      /\ \A i \in DOMAIN traces : traces'[i] = traces[i]
  <2>1. CASE traces' = traces
    BY <1>1, <2>1
  <2>2. CASE \E y \in AttemptTrace : traces' = Append(traces, y)
    <3>1. PICK y \in AttemptTrace : traces' = Append(traces, y)
      BY <2>2
    <3>2. DOMAIN traces = 1 .. Len(traces) /\ DOMAIN traces' = 1 .. (Len(traces) + 1)
      BY <1>1, <3>1, AppendProperties
    <3>3. traces' \in Seq(AttemptTrace)
      BY <1>1, <3>1, AppendProperties
    <3>4. \A i \in 1 .. Len(traces) : traces'[i] = traces[i]
      BY <1>1, <3>1, AppendProperties
    <3>5. QED
      BY <1>1, <3>2, <3>3, <3>4
  <2>3. QED
    BY <2>1, <2>2
<1>4. ASSUME NEW t \in DOMAIN recorded PROVE ResultInv(t)'
  <2>1. ResultInv(t) /\ t \in TaskIds /\ recorded'[t] = recorded[t]
    BY <1>1, <1>2 DEF AttemptsInv, TaskIds
  <2>2. Answers(t) \subseteq Answers(t)'
    BY <1>3, <2>1 DEF Answers
  <2>3. requests[t] \in Nat /\ requests'[t] \in Nat /\ requests'[t] >= requests[t]
    BY <2>1 DEF AttemptsInv, AttemptsTypeOK
  <2>4. QED
    BY <2>1, <2>2, <2>3 DEF ResultInv
<1>5. ASSUME NEW t, t = Len(recorded) + 1 PROVE ResultInv(t)'
  <2>1. recorded'[t] = x
    BY <1>2, <1>5
  <2>2. ASSUME x.live PROVE Answers(t)' # {}
    <3>1. PICK y \in AttemptTrace :
             /\ traces' = Append(traces, y)
             /\ y.task = Len(recorded) + 1
             /\ y.provider = x.executed
             /\ y.status = "SUCCESS"
      BY <2>2
    <3>2. Len(traces) + 1 \in DOMAIN traces' /\ traces'[Len(traces) + 1] = y
      BY <1>1, <3>1, AppendProperties
    <3>3. PICK i : i \in DOMAIN traces' /\ traces'[i] = y
      BY <3>2
    <3>4. i \in Answers(t)'
      BY <1>5, <2>1, <3>1, <3>3 DEF Answers
    <3>5. QED
      BY <3>4
  <2>3. QED
    BY <1>5, <2>1, <2>2 DEF ResultInv
<1>6. \A t \in DOMAIN recorded' : t \in DOMAIN recorded \/ t = Len(recorded) + 1
  BY <1>1, <1>2
<1>7. QED
  BY <1>2, <1>3, <1>4, <1>5, <1>6

\* A task that ends leaves the invariant, whoever answered it.
LEMMA TaskEnds ==
  ASSUME AttemptsInv, step # "next", mode' = mode, registered' = registered,
         requests' \in [TaskIds -> Nat],
         \A t \in TaskIds : requests'[t] >= requests[t],
         \A t \in TaskIds : t # Len(recorded) + 1 => requests'[t] = requests[t],
         NEW x \in AttemptResult, Finish(x),
         \/ traces' = traces
         \/ \E y \in AttemptTrace : traces' = Append(traces, y),
         x.live =>
             /\ mode = "EXTERNAL_CONFIGURED"
             /\ requests'[Len(recorded) + 1] > 0
             /\ \E y \in AttemptTrace :
                   /\ traces' = Append(traces, y)
                   /\ y.task = Len(recorded) + 1
                   /\ y.provider = x.executed
                   /\ y.status = "SUCCESS",
         x.how = "LOCAL_MOCK" => x.mock,
         x.how = "DEMO_PROVIDER" => x.demo
  PROVE  AttemptsInv'
<1>1. Len(recorded) \in Nat /\ MaxTasks \in Nat /\ Len(recorded) < MaxTasks
  BY ProviderAssumption DEF AttemptsInv, AttemptsTypeOK
<1>2. recorded' = Append(recorded, x) /\ step' = "next"
  BY DEF Finish
<1>3. /\ recorded' \in Seq(AttemptResult)
      /\ Len(recorded') = Len(recorded) + 1
      /\ traces' \in Seq(AttemptTrace)
      /\ \A t \in DOMAIN recorded' : ResultInv(t)'
  BY <1>1, <1>2, ResultRecorded
<1>4. AttemptsTypeOK'
  BY <1>1, <1>2, <1>3 DEF AttemptsInv, AttemptsTypeOK
<1>5. RequestInv'
  <2>1. ASSUME NEW t \in TaskIds, t > Len(recorded) + 1 PROVE requests'[t] = 0
    BY <1>1, <2>1 DEF AttemptsInv, RequestInv, TaskIds
  <2>2. QED
    BY <1>1, <1>2, <1>3, <2>1 DEF AttemptsInv, RequestInv, TaskIds
<1>6. QED
  BY <1>3, <1>4, <1>5 DEF AttemptsInv

\* A provider's answer ends the task: as evidence, or by the rules of the verifier.
LEMMA AnswerEndsTask ==
  ASSUME AttemptsInv, step # "next", mode' = mode, registered' = registered,
         requests' \in [TaskIds -> Nat],
         \A t \in TaskIds : requests'[t] >= requests[t],
         \A t \in TaskIds : t # Len(recorded) + 1 => requests'[t] = requests[t],
         NEW p \in Providers, NEW status \in Statuses, NEW answer \in Answer,
         NEW answered \in BOOLEAN,
         Answered(Response(p, status, answer, answered)),
         answered => mode = "EXTERNAL_CONFIGURED" /\ requests'[Len(recorded) + 1] > 0
  PROVE  AttemptsInv'
<1> DEFINE r == Response(p, status, answer, answered)
<1>1. mode \in Modes /\ recorded \in Seq(AttemptResult)
  BY DEF AttemptsInv, AttemptsTypeOK
<1>2. /\ r.status = status
      /\ EvidenceResult(r) \in AttemptResult /\ EvidenceResult(r).executed = p
      /\ EvidenceResult(r).live => answered
      /\ EvidenceResult(r).how = "LOCAL_MOCK" => EvidenceResult(r).mock
      /\ EvidenceResult(r).how = "DEMO_PROVIDER" => EvidenceResult(r).demo
      /\ \A fallback \in BOOLEAN :
            /\ Trace(r, fallback) \in AttemptTrace
            /\ Trace(r, fallback).task = Len(recorded) + 1
            /\ Trace(r, fallback).provider = p
            /\ Trace(r, fallback).status = status
      /\ \A audit \in {"PARTIAL", "UNVERIFIED", "MANUAL_REVIEW"} :
            /\ FallbackResult(r, audit) \in AttemptResult
            /\ ~FallbackResult(r, audit).live
            /\ FallbackResult(r, audit).how = "RULE_ONLY_FALLBACK"
  BY <1>1, ResponseRecorded
<1>3. Answered(r)
  OBVIOUS
<1> HIDE DEF r
<1>4. CASE r.status = "SUCCESS"
  <2>1. traces' = Append(traces, Trace(r, FALSE)) /\ Finish(EvidenceResult(r))
    BY <1>3, <1>4 DEF Answered
  <2>2. \E y \in AttemptTrace :
           /\ traces' = Append(traces, y)
           /\ y.task = Len(recorded) + 1
           /\ y.provider = EvidenceResult(r).executed
           /\ y.status = "SUCCESS"
    BY <1>2, <1>4, <2>1
  <2>3. QED
    BY <1>2, <2>1, <2>2, TaskEnds
<1>5. CASE r.status # "SUCCESS"
  <2>1. PICK audit \in {"PARTIAL", "UNVERIFIED", "MANUAL_REVIEW"} :
           Finish(FallbackResult(r, audit))
    BY <1>3, <1>5 DEF Answered
  <2>2. traces' = Append(traces, Trace(r, TRUE)) /\ Trace(r, TRUE) \in AttemptTrace
    BY <1>2, <1>3, <1>5 DEF Answered
  <2>3. /\ FallbackResult(r, audit) \in AttemptResult
        /\ ~FallbackResult(r, audit).live
        /\ FallbackResult(r, audit).how \notin {"LOCAL_MOCK", "DEMO_PROVIDER"}
    BY <1>2
  <2>4. QED
    BY <2>1, <2>2, <2>3, TaskEnds
<1>6. QED
  BY <1>4, <1>5

-----------------------------------------------------------------------------
(* The actions                                                             *)

LEMMA AttemptsInitially == AttemptsInit => AttemptsInv
<1> SUFFICES ASSUME AttemptsInit PROVE AttemptsInv
  OBVIOUS
<1>1. PICK requested \in Modes \cup {"unset"}, live \in BOOLEAN, allowed \in BOOLEAN,
           configured \in SUBSET External :
         /\ mode = OperatingMode(requested, live)
         /\ registered = Registry(OperatingMode(requested, live), allowed, configured)
  BY DEF AttemptsInit
<1>2. mode \in Modes
  BY <1>1 DEF OperatingMode, Modes
<1>3. registered = {p \in Providers : Enabled(p, mode, allowed, configured)}
  BY <1>1 DEF Registry
<1>4. registered \cap External # {} => mode \in {"DEMO_MOCK", "EXTERNAL_CONFIGURED"}
  BY <1>3 DEF Enabled, External
<1>5. recorded = <<>> /\ traces = <<>> /\ step = "next" /\ requests = [t \in TaskIds |-> 0]
  BY DEF AttemptsInit
<1>6. AttemptsTypeOK
  BY <1>2, <1>3, <1>5, ProviderAssumption DEF AttemptsTypeOK
<1>7. RequestInv
  BY <1>4, <1>5 DEF RequestInv
<1>8. QED
  BY <1>5, <1>6, <1>7 DEF AttemptsInv

LEMMA StartTaskKeeps == AttemptsInv /\ StartTask => AttemptsInv'
<1> SUFFICES ASSUME AttemptsInv, StartTask PROVE AttemptsInv'
  OBVIOUS
<1>1. /\ step = "next" /\ step' = "candidate" /\ Len(recorded) < MaxTasks
      /\ UNCHANGED <<mode, registered, requests, recorded, traces>>
  BY DEF StartTask
<1>2. AttemptsTypeOK'
  BY <1>1 DEF AttemptsInv, AttemptsTypeOK
<1>3. RequestInv'
  BY <1>1 DEF AttemptsInv, RequestInv
<1>4. \A t \in DOMAIN recorded' : ResultInv(t)'
  BY <1>1 DEF AttemptsInv, ResultInv, Answers
<1>5. QED
  BY <1>2, <1>3, <1>4 DEF AttemptsInv

LEMMA SkipCandidateKeeps ==
  ASSUME AttemptsInv, NEW p \in Providers, SkipCandidate(p) PROVE AttemptsInv'
<1>1. UNCHANGED <<mode, registered, requests, lastReply, current, recorded, traces, step>>
  BY DEF SkipCandidate
<1>2. AttemptsTypeOK' /\ RequestInv'
  BY <1>1 DEF AttemptsInv, AttemptsTypeOK, RequestInv
<1>3. \A t \in DOMAIN recorded' : ResultInv(t)'
  BY <1>1 DEF AttemptsInv, ResultInv, Answers
<1>4. QED
  BY <1>2, <1>3 DEF AttemptsInv

LEMMA UseConnectorKeeps ==
  ASSUME AttemptsInv, NEW p \in Providers, UseConnector(p) PROVE AttemptsInv'
<1>1. /\ step = "candidate"
      /\ UNCHANGED <<mode, registered, requests, traces>>
  BY DEF UseConnector, TakeCandidate
<1>2. PICK evidence \in {"match", "mismatch"} : Finish(ConnectorResult(p, evidence))
  BY DEF UseConnector
<1>3. /\ ConnectorResult(p, evidence) \in AttemptResult
      /\ ~ConnectorResult(p, evidence).live
      /\ ConnectorResult(p, evidence).how \notin {"LOCAL_MOCK", "DEMO_PROVIDER"}
  BY DEF ConnectorResult, Result, AttemptResult
<1>4. requests \in [TaskIds -> Nat]
  BY DEF AttemptsInv, AttemptsTypeOK
<1>5. QED
  BY <1>1, <1>2, <1>3, <1>4, TaskEnds

LEMMA TryManualReviewKeeps == AttemptsInv /\ TryManualReview => AttemptsInv'
<1> SUFFICES ASSUME AttemptsInv, TryManualReview PROVE AttemptsInv'
  OBVIOUS
<1>1. /\ step = "candidate"
      /\ Finish(ManualResult("none"))
      /\ UNCHANGED <<mode, registered, requests, traces>>
  BY DEF TryManualReview
<1>2. /\ ManualResult("none") \in AttemptResult
      /\ ~ManualResult("none").live
      /\ ManualResult("none").how \notin {"LOCAL_MOCK", "DEMO_PROVIDER"}
  BY DEF ManualResult, Result, AttemptResult
<1>3. requests \in [TaskIds -> Nat]
  BY DEF AttemptsInv, AttemptsTypeOK
<1>4. QED
  BY <1>1, <1>2, <1>3, TaskEnds

LEMMA AskLocallyKeeps ==
  ASSUME AttemptsInv, NEW p \in Providers, AskLocally(p) PROVE AttemptsInv'
<1>1. /\ step = "candidate"
      /\ UNCHANGED <<mode, registered, requests>>
  BY DEF AskLocally, TakeCandidate
<1>2. PICK answer \in Answer : Answered(Response(p, "SUCCESS", answer, FALSE))
  BY AnswersTyped DEF AskLocally
<1>3. /\ requests' \in [TaskIds -> Nat]
      /\ \A t \in TaskIds : requests'[t] = requests[t] /\ requests'[t] >= requests[t]
  BY <1>1 DEF AttemptsInv, AttemptsTypeOK
<1>4. "SUCCESS" \in Statuses
  BY DEF Statuses
<1>5. step # "next"
  BY <1>1
<1>6. QED
  BY <1>1, <1>2, <1>3, <1>4, <1>5, AnswerEndsTask

LEMMA AskExternallyKeeps ==
  ASSUME AttemptsInv, NEW p \in Providers, AskExternally(p) PROVE AttemptsInv'
<1>1. /\ step = "candidate"
      /\ p # "local_mock" /\ mode # "DEMO_MOCK" /\ p \in registered
      /\ UNCHANGED <<mode, registered, requests, lastReply>>
  BY DEF AskExternally, TakeCandidate, CanAnswer
<1>2. /\ requests' \in [TaskIds -> Nat]
      /\ \A t \in TaskIds : requests'[t] = requests[t] /\ requests'[t] >= requests[t]
  BY <1>1 DEF AttemptsInv, AttemptsTypeOK
<1>3. p \in External
  BY <1>1 DEF Providers
<1>4. CASE Answered(Response(p, "FAILED", Nothing, FALSE))
  <2>1. "FAILED" \in Statuses /\ Nothing \in Answer /\ step # "next"
    BY <1>1, AnswersTyped DEF Statuses
  <2>2. QED
    BY <1>1, <1>2, <1>4, <2>1, AnswerEndsTask
<1>5. CASE step' = "request" /\ current' = p /\ UNCHANGED <<recorded, traces>>
  <2>1. AttemptsTypeOK'
    BY <1>1, <1>5 DEF AttemptsInv, AttemptsTypeOK
  <2>2. mode = "EXTERNAL_CONFIGURED"
    BY <1>1, <1>3 DEF AttemptsInv, RequestInv
  <2>3. Len(recorded) \in Nat /\ Len(recorded) < MaxTasks /\ MaxTasks \in Nat
    BY <1>1, ProviderAssumption DEF AttemptsInv, AttemptsTypeOK
  <2>4. requests[Len(recorded) + 1] = 0
    BY <1>1, <2>3 DEF AttemptsInv, RequestInv, TaskIds
  <2>5. RequestInv'
    BY <1>1, <1>3, <1>5, <2>2, <2>4, ProviderAssumption DEF AttemptsInv, RequestInv
  <2>6. \A t \in DOMAIN recorded' : ResultInv(t)'
    BY <1>1, <1>5 DEF AttemptsInv, ResultInv, Answers
  <2>7. QED
    BY <2>1, <2>5, <2>6 DEF AttemptsInv
<1>6. QED
  BY <1>4, <1>5 DEF AskExternally

\* The counter of the task in execution goes up by one, the others stay.
LEMMA RequestCounted ==
  ASSUME AttemptsInv, NEW reply \in Replies, SendRequest(reply)
  PROVE  /\ Len(recorded) + 1 \in TaskIds
         /\ requests' \in [TaskIds -> Nat]
         /\ requests'[Len(recorded) + 1] = requests[Len(recorded) + 1] + 1
         /\ \A t \in TaskIds : t # Len(recorded) + 1 => requests'[t] = requests[t]
<1>1. /\ step = "request"
      /\ requests' = [requests EXCEPT ![Len(recorded) + 1] = @ + 1]
  BY DEF SendRequest
<1>2. Len(recorded) \in Nat /\ Len(recorded) < MaxTasks /\ MaxTasks \in Nat
  BY <1>1, ProviderAssumption DEF AttemptsInv, AttemptsTypeOK
<1>3. Len(recorded) + 1 \in TaskIds /\ requests \in [TaskIds -> Nat]
  BY <1>2 DEF AttemptsInv, AttemptsTypeOK, TaskIds
<1>4. QED
  BY <1>1, <1>3

LEMMA SendRequestKeeps ==
  ASSUME AttemptsInv, NEW reply \in Replies, SendRequest(reply) PROVE AttemptsInv'
<1>1. /\ step = "request" /\ lastReply' = reply
      /\ UNCHANGED <<mode, registered, current>>
  BY DEF SendRequest
<1>2. /\ current \in External /\ mode = "EXTERNAL_CONFIGURED"
  BY <1>1 DEF AttemptsInv, RequestInv
<1>3. /\ Len(recorded) + 1 \in TaskIds
      /\ requests \in [TaskIds -> Nat] /\ requests' \in [TaskIds -> Nat]
      /\ requests'[Len(recorded) + 1] = requests[Len(recorded) + 1] + 1
      /\ \A t \in TaskIds : t # Len(recorded) + 1 => requests'[t] = requests[t]
  BY RequestCounted DEF AttemptsInv, AttemptsTypeOK
<1>4. \A t \in TaskIds :
         requests[t] \in Nat /\ requests'[t] \in Nat /\ requests'[t] >= requests[t]
  BY <1>3
<1>5. CASE Repeated(reply) /\ Attempts < RetryBudget
  <2>1. UNCHANGED <<recorded, traces, step>>
    BY <1>5 DEF SendRequest
  <2>2. AttemptsTypeOK'
    BY <1>1, <1>3, <2>1 DEF AttemptsInv, AttemptsTypeOK
  <2>3. Len(recorded) \in Nat /\ RetryBudget \in Nat
    BY ProviderAssumption DEF AttemptsInv, AttemptsTypeOK
  <2>4. /\ requests'[Len(recorded) + 1] <= RetryBudget
        /\ lastReply' \in TransientReplies
    BY <1>1, <1>3, <1>4, <1>5, <2>3 DEF Attempts, Repeated, TransientReplies
  <2>5. \A t \in TaskIds : t > Len(recorded) + 1 => requests'[t] = 0
    BY <1>3, <2>3 DEF AttemptsInv, RequestInv, TaskIds
  <2>6. RequestInv'
    BY <1>1, <1>2, <2>1, <2>4, <2>5 DEF AttemptsInv, RequestInv
  <2>7. ASSUME NEW t \in DOMAIN recorded PROVE ResultInv(t)'
    <3>1. t \in TaskIds /\ ResultInv(t)
      <4>1. DOMAIN recorded = 1 .. Len(recorded)
        BY DEF AttemptsInv, AttemptsTypeOK
      <4>2. QED
        BY <1>3, <2>3, <4>1, ProviderAssumption DEF AttemptsInv, TaskIds
    <3>2. Answers(t)' = Answers(t)
      BY <2>1 DEF Answers
    <3>3. QED
      BY <1>1, <1>4, <2>1, <3>1, <3>2 DEF ResultInv
  <2>8. QED
    BY <2>1, <2>2, <2>6, <2>7 DEF AttemptsInv
<1>6. CASE ~(Repeated(reply) /\ Attempts < RetryBudget)
  <2>1. PICK status \in Statuses, answer \in Answer, answered \in BOOLEAN :
           Answered(Response(current, status, answer, answered))
    BY <1>6 DEF SendRequest, Statuses
  <2>2. current \in Providers
    BY <1>2 DEF Providers
  <2>3. requests'[Len(recorded) + 1] > 0
    BY <1>3, <1>4
  <2>4. QED
    BY <1>1, <1>2, <1>3, <1>4, <2>1, <2>2, <2>3, AnswerEndsTask
<1>7. QED
  BY <1>5, <1>6

LEMMA AttemptsStep == AttemptsInv /\ [AttemptsNext]_attemptsVars => AttemptsInv'
<1> SUFFICES ASSUME AttemptsInv, [AttemptsNext]_attemptsVars PROVE AttemptsInv'
  OBVIOUS
<1>1. CASE AttemptsNext
  BY <1>1, StartTaskKeeps, TryManualReviewKeeps, SkipCandidateKeeps, UseConnectorKeeps,
     AskLocallyKeeps, AskExternallyKeeps, SendRequestKeeps DEF AttemptsNext
<1>2. CASE UNCHANGED attemptsVars
  BY <1>2 DEF attemptsVars, AttemptsInv, AttemptsTypeOK, RequestInv, ResultInv, Answers
<1>3. QED
  BY <1>1, <1>2

THEOREM AttemptsInvariant == AttemptsSpec => []AttemptsInv
  BY AttemptsInitially, AttemptsStep, PTL DEF AttemptsSpec

-----------------------------------------------------------------------------
(* The theorems                                                            *)

\* The executor's variables keep their types: as many results and traces as tasks were
\* executed, and never more than the plan has (executor.py, service.py).
THEOREM AttemptsTypeCorrect == AttemptsSpec => []AttemptsTypeOK
<1>1. AttemptsInv => AttemptsTypeOK
  BY DEF AttemptsInv
<1>2. QED
  BY <1>1, AttemptsInvariant, PTL

\* However many tasks, records and retries: a result that says it is live rests on an
\* answer that a configured provider gave over the network (base.py,
\* generic_http_json.py).
THEOREM LiveResultsHaveEvidence == AttemptsSpec => []LiveIsEvidence
<1>1. AttemptsInv => LiveIsEvidence
  <2> SUFFICES ASSUME AttemptsInv, NEW t \in DOMAIN recorded,
                      recorded[t].live
               PROVE  \E trace \in TracesOf(t) :
                         /\ trace.provider = recorded[t].executed
                         /\ trace.status = "SUCCESS"
    BY DEF AttemptsInv, LiveIsEvidence, Finished, ResultInv
  <2>1. PICK i \in DOMAIN traces : /\ traces[i].task = t
                                   /\ traces[i].provider = recorded[t].executed
                                   /\ traces[i].status = "SUCCESS"
    BY DEF AttemptsInv, ResultInv, Answers
  <2>2. QED
    BY <2>1 DEF TracesOf
<1>2. QED
  BY <1>1, AttemptsInvariant, PTL

\* For every retry budget: a task is sent out again only after an answer that settles
\* nothing, and at most RetryBudget times (http_client.py).
THEOREM TasksSettleOnce == AttemptsSpec => SettledOnce
<1> DEFINE Once == \A t \in TaskIds : requests'[t] # requests[t] =>
                      /\ t = Len(recorded) + 1
                      /\ requests'[t] <= RetryBudget + 1
                      /\ requests[t] > 0 =>
                             lastReply \in {"server_error", "timeout", "network_error"}
<1>1. AttemptsInv /\ [AttemptsNext]_attemptsVars => [Once]_attemptsVars
  <2> SUFFICES ASSUME AttemptsInv, AttemptsNext PROVE Once
    OBVIOUS
  <2>1. ASSUME UNCHANGED requests PROVE Once
    BY <2>1
  <2>2. ASSUME NEW reply \in Replies, SendRequest(reply) PROVE Once
    <3>1. /\ Len(recorded) + 1 \in TaskIds
          /\ requests'[Len(recorded) + 1] = requests[Len(recorded) + 1] + 1
          /\ \A t \in TaskIds : t # Len(recorded) + 1 => requests'[t] = requests[t]
      BY <2>2, RequestCounted
    <3>2. /\ requests[Len(recorded) + 1] \in Nat
          /\ requests[Len(recorded) + 1] <= RetryBudget
          /\ requests[Len(recorded) + 1] > 0 => lastReply \in TransientReplies
      BY <2>2, <3>1 DEF SendRequest, AttemptsInv, AttemptsTypeOK, RequestInv
    <3>3. QED
      BY <3>1, <3>2, ProviderAssumption DEF TransientReplies
  <2>3. QED
    BY <2>1, <2>2 DEF AttemptsNext, StartTask, TryManualReview, SkipCandidate, UseConnector,
       AskLocally, AskExternally
<1>2. QED
  BY <1>1, AttemptsInvariant, PTL DEF AttemptsSpec, SettledOnce

-----------------------------------------------------------------------------
(* Sequences of the planning                                               *)

Sequential(s) == s \in Seq(RangeOf(s))

LEMMA FirstElement ==
  ASSUME NEW S \in SUBSET Nat, S # {}
  PROVE  \E k \in S : \A m \in S : k <= m
<1>1. PICK k \in S : \A m \in S : <<m, k>> \notin OpToRel(<, Nat)
  BY NatLessThanWellFounded, WFMin, Zenon
<1>2. \A m \in S : ~(m < k)
  BY <1>1 DEF OpToRel
<1>3. \A m \in S : m \in Nat
  OBVIOUS
<1>4. \A m \in S : k <= m
  BY <1>2, <1>3
<1>5. QED
  BY <1>4

LEMMA LastElement ==
  ASSUME NEW n \in Nat, NEW S \in SUBSET (1 .. n), S # {}
  PROVE  \E k \in S : \A m \in S : m <= k
<1> DEFINE T == {n - k : k \in S}
<1>1. T \in SUBSET Nat /\ T # {}
  <2>1. \A k \in S : k \in 1 .. n /\ n - k \in Nat
    OBVIOUS
  <2>2. QED
    BY <2>1
<1>2. PICK d \in T : \A e \in T : d <= e
  <2> HIDE DEF T
  <2> QED
    BY <1>1, FirstElement
<1>3. PICK k \in S : d = n - k
  BY <1>2
<1>4. \A m \in S : m \in 1 .. n /\ n - m \in T /\ d <= n - m
  BY <1>2
<1>5. \A m \in S : m <= k
  BY <1>3, <1>4
<1>6. QED
  BY <1>5

LEMMA LastFound ==
  ASSUME NEW n \in Nat, NEW S \in SUBSET (1 .. n), S # {}
  PROVE  Last(S) \in S /\ \A m \in S : m <= Last(S)
  BY LastElement DEF Last

\* InOrder lists every position of a set once, and nothing else.
LEMMA InOrderLists ==
  ASSUME NEW n \in Nat, NEW I \in SUBSET (1 .. n)
  PROVE  /\ IsFiniteSet(I) /\ Cardinality(I) \in Nat
         /\ Cardinality(I) = 0 <=> I = {}
         /\ DOMAIN InOrder(I) = 1 .. Cardinality(I)
         /\ InOrder(I) \in [1 .. Cardinality(I) -> I]
         /\ \A i \in I : \E k \in 1 .. Cardinality(I) : InOrder(I)[k] = i
         /\ \A k, m \in 1 .. Cardinality(I) : InOrder(I)[k] = InOrder(I)[m] => k = m
<1> DEFINE upTo(i) == {j \in I : j <= i}
           rank == [i \in I |-> Cardinality(upTo(i))]
           N == Cardinality(I)
<1>1. IsFiniteSet(I) /\ N \in Nat /\ (N = 0 <=> I = {})
  <2>1. IsFiniteSet(1 .. n)
    BY FS_Interval
  <2>2. IsFiniteSet(I)
    BY <2>1, FS_Subset
  <2>3. QED
    BY <2>2, FS_CardinalityType, FS_EmptySet
<1>2. ASSUME NEW i \in I PROVE IsFiniteSet(upTo(i)) /\ rank[i] \in 1 .. N
  <2>1. IsFiniteSet(upTo(i)) /\ Cardinality(upTo(i)) <= N
    <3>1. upTo(i) \in SUBSET I
      OBVIOUS
    <3>2. QED
      BY <1>1, <3>1, FS_Subset
  <2>2. i \in upTo(i)
    OBVIOUS
  <2>3. Cardinality(upTo(i)) \in Nat /\ Cardinality(upTo(i)) # 0
    BY <2>1, <2>2, FS_CardinalityType, FS_EmptySet
  <2>4. QED
    BY <1>1, <2>1, <2>3
<1>3. ASSUME NEW i \in I, NEW j \in I, i < j PROVE rank[i] < rank[j]
  <2>1. upTo(i) \in SUBSET upTo(j) /\ j \in upTo(j) /\ j \notin upTo(i)
    <3>1. i \in Nat /\ j \in Nat /\ \A m \in I : m \in Nat
      OBVIOUS
    <3>2. \A m \in I : m <= i => m <= j
      BY <1>3, <3>1
    <3>3. j <= j /\ ~(j <= i)
      BY <1>3, <3>1
    <3>4. QED
      BY <3>2, <3>3
  <2>2. Cardinality(upTo(i)) <= Cardinality(upTo(j))
        /\ Cardinality(upTo(i)) # Cardinality(upTo(j))
    <3>1. upTo(i) # upTo(j)
      BY <2>1
    <3>2. QED
      BY <1>2, <2>1, <3>1, FS_Subset
  <2>3. QED
    BY <1>2, <2>2
<1>4. \A i, j \in I : rank[i] = rank[j] => i = j
  <2> SUFFICES ASSUME NEW i \in I, NEW j \in I, i # j PROVE rank[i] # rank[j]
    OBVIOUS
  <2>1. i < j \/ j < i
    OBVIOUS
  <2>2. rank[i] \in Nat /\ rank[j] \in Nat
    BY <1>2
  <2> HIDE DEF rank
  <2>3. QED
    BY <1>3, <2>1, <2>2
<1>5. \A k \in 1 .. N : \E i \in I : rank[i] = k
  <2>1. IsFiniteSet(1 .. N) /\ Cardinality(1 .. N) = N
    BY <1>1, FS_Interval
  <2>2. rank \in [I -> 1 .. N]
    BY <1>2
  <2> HIDE DEF rank
  <2>3. rank \in Injection(I, 1 .. N)
    BY <1>4, <2>2 DEF Injection, IsInjective
  <2>4. rank \in Surjection(I, 1 .. N)
    BY <2>1, <2>3, FS_Injection
  <2>5. QED
    BY <2>4 DEF Surjection
<1>6. \A k \in 1 .. N : InOrder(I)[k] \in I /\ rank[InOrder(I)[k]] = k
  <2> SUFFICES ASSUME NEW k \in 1 .. N
               PROVE  InOrder(I)[k] \in I /\ rank[InOrder(I)[k]] = k
    OBVIOUS
  <2>1. \E i \in I : Cardinality(upTo(i)) = k
    BY <1>5
  <2>2. InOrder(I)[k] = CHOOSE i \in I : Cardinality(upTo(i)) = k
    BY DEF InOrder
  <2>3. QED
    BY <2>1, <2>2
<1>7. \A i \in I : InOrder(I)[rank[i]] = i
  <2> HIDE DEF rank
  <2> QED
    BY <1>2, <1>4, <1>6
<1>8. InOrder(I) \in [1 .. N -> I] /\ DOMAIN InOrder(I) = 1 .. N
  BY <1>6 DEF InOrder
<1>9. \A k, m \in 1 .. N : InOrder(I)[k] = InOrder(I)[m] => k = m
  <2> HIDE DEF rank
  <2> QED
    BY <1>6
<1>10. QED
  BY <1>1, <1>2, <1>7, <1>8, <1>9

\* Those of a sequence are what it has at the positions.
LEMMA ThoseListed ==
  ASSUME NEW s, NEW n \in Nat, DOMAIN s = 1 .. n, NEW I \in SUBSET (1 .. n)
  PROVE  /\ Sequential(Those(s, I))
         /\ RangeOf(Those(s, I)) = {s[i] : i \in I}
         /\ Those(s, I) = <<>> <=> I = {}
<1> DEFINE t == Those(s, I)
<1>1. /\ Cardinality(I) \in Nat
      /\ Cardinality(I) = 0 <=> I = {}
      /\ InOrder(I) \in [1 .. Cardinality(I) -> I]
      /\ \A i \in I : \E k \in 1 .. Cardinality(I) : InOrder(I)[k] = i
  BY InOrderLists
<1>2. t = [k \in 1 .. Cardinality(I) |-> s[InOrder(I)[k]]]
  BY DEF Those
<1> HIDE DEF t
<1>3. DOMAIN t = 1 .. Cardinality(I) /\ \A k \in DOMAIN t : t[k] = s[InOrder(I)[k]]
  BY <1>2
<1>4. RangeOf(t) = {s[i] : i \in I}
  <2>1. \A k \in DOMAIN t : t[k] \in {s[i] : i \in I}
    BY <1>1, <1>3
  <2>2. ASSUME NEW i \in I PROVE \E k \in DOMAIN t : t[k] = s[i]
    BY <1>1, <1>3
  <2>3. QED
    BY <2>1, <2>2 DEF RangeOf
<1>5. t \in [1 .. Cardinality(I) -> RangeOf(t)]
  BY <1>2 DEF RangeOf
<1>6. Sequential(t)
  BY <1>1, <1>5 DEF Sequential
<1>7. t = <<>> <=> I = {}
  BY <1>1, <1>3, <1>6 DEF Sequential
<1>8. QED
  BY <1>4, <1>6, <1>7 DEF t

LEMMA WithoutRepeatsRange ==
  ASSUME NEW s, Sequential(s)
  PROVE  /\ Sequential(WithoutRepeats(s))
         /\ RangeOf(WithoutRepeats(s)) = RangeOf(s)
         /\ WithoutRepeats(s) = <<>> <=> s = <<>>
         /\ \A k, m \in DOMAIN WithoutRepeats(s) :
               WithoutRepeats(s)[k] = WithoutRepeats(s)[m] => k = m
<1>1. PICK n \in Nat : DOMAIN s = 1 .. n
  BY DEF Sequential
<1>2. Distinct(s) \in SUBSET (1 .. n)
  BY <1>1 DEF Distinct
<1>3. ASSUME NEW i \in 1 .. n PROVE \E k \in Distinct(s) : s[k] = s[i]
  <2> DEFINE T == {j \in 1 .. n : s[j] = s[i]}
  <2>1. T \in SUBSET Nat /\ T # {}
    BY <1>3
  <2>2. PICK k \in T : \A m \in T : k <= m
    BY <2>1, FirstElement
  <2>3. \A j \in 1 .. k - 1 : s[j] # s[k]
    BY <1>1, <2>2
  <2>4. QED
    BY <1>1, <2>2, <2>3 DEF Distinct
<1>4. {s[k] : k \in Distinct(s)} = RangeOf(s)
  BY <1>1, <1>2, <1>3 DEF RangeOf
<1>5. Distinct(s) = {} <=> s = <<>>
  <2>1. CASE n = 0
    BY <1>1, <1>2, <2>1 DEF Sequential
  <2>2. CASE n # 0
    BY <1>1, <1>3, <2>2
  <2>3. QED
    BY <2>1, <2>2
<1>6. ASSUME NEW k \in DOMAIN WithoutRepeats(s), NEW m \in DOMAIN WithoutRepeats(s),
             WithoutRepeats(s)[k] = WithoutRepeats(s)[m]
      PROVE  k = m
  <2> DEFINE order == InOrder(Distinct(s))
             N == Cardinality(Distinct(s))
  <2>1. /\ order \in [1 .. N -> Distinct(s)]
        /\ \A a, b \in 1 .. N : order[a] = order[b] => a = b
    BY <1>2, InOrderLists
  <2>2. WithoutRepeats(s) = [a \in 1 .. N |-> s[order[a]]]
    BY DEF WithoutRepeats, Those
  <2> HIDE DEF order, N
  <2>3. s[order[k]] = s[order[m]] /\ order[k] \in Distinct(s) /\ order[m] \in Distinct(s)
    BY <1>6, <2>1, <2>2
  <2>4. order[k] = order[m]
    <3>1. order[k] \in 1 .. n /\ order[m] \in 1 .. n
      BY <1>2, <2>3
    <3>2. ~(order[k] < order[m]) /\ ~(order[m] < order[k])
      BY <2>3, <3>1 DEF Distinct
    <3>3. QED
      BY <3>1, <3>2
  <2>5. QED
    BY <2>1, <2>2, <2>4
<1>7. QED
  BY <1>1, <1>2, <1>4, <1>5, <1>6, ThoseListed DEF WithoutRepeats

LEMMA ConcatRange ==
  ASSUME NEW s, NEW t, Sequential(s), Sequential(t)
  PROVE  Sequential(s \o t) /\ RangeOf(s \o t) = RangeOf(s) \cup RangeOf(t)
<1> DEFINE S == RangeOf(s) \cup RangeOf(t)
<1>1. s \in Seq(S) /\ t \in Seq(S)
  BY DEF Sequential
<1>2. Len(s) \in Nat /\ Len(t) \in Nat
      /\ DOMAIN s = 1 .. Len(s) /\ DOMAIN t = 1 .. Len(t)
  BY <1>1
<1>3. s \o t \in Seq(S) /\ Len(s \o t) = Len(s) + Len(t)
  BY <1>1
<1>4. DOMAIN (s \o t) = 1 .. (Len(s) + Len(t))
  BY <1>1, <1>3
<1>5. \A i \in 1 .. Len(s) : (s \o t)[i] = s[i]
  BY <1>1, <1>2
<1>6. \A i \in 1 .. Len(t) : (s \o t)[Len(s) + i] = t[i]
  BY <1>1, <1>2
<1>7. RangeOf(s \o t) = S
  <2>1. ASSUME NEW i \in 1 .. Len(s) PROVE s[i] \in RangeOf(s \o t)
    <3>1. i \in DOMAIN (s \o t) /\ (s \o t)[i] = s[i]
      BY <1>2, <1>4, <1>5
    <3>2. QED
      BY <3>1 DEF RangeOf
  <2>2. ASSUME NEW i \in 1 .. Len(t) PROVE t[i] \in RangeOf(s \o t)
    <3>1. Len(s) + i \in DOMAIN (s \o t) /\ (s \o t)[Len(s) + i] = t[i]
      BY <1>2, <1>4, <1>6
    <3>2. QED
      BY <3>1 DEF RangeOf
  <2>3. RangeOf(s \o t) \subseteq S
    BY <1>3 DEF RangeOf
  <2>4. S \subseteq RangeOf(s \o t)
    BY <1>2, <2>1, <2>2 DEF RangeOf
  <2>5. QED
    BY <2>3, <2>4
<1>8. QED
  BY <1>3, <1>7 DEF Sequential

LEMMA MappedSequential ==
  ASSUME NEW s, Sequential(s), NEW f, f = [i \in DOMAIN s |-> f[i]]
  PROVE  Sequential(f) /\ DOMAIN f = DOMAIN s /\ RangeOf(f) = {f[i] : i \in DOMAIN s}
<1>1. PICK n \in Nat : DOMAIN s = 1 .. n
  BY DEF Sequential
<1>2. f \in [1 .. n -> RangeOf(f)]
  BY <1>1 DEF RangeOf
<1>3. Sequential(f)
  BY <1>2 DEF Sequential
<1>4. DOMAIN f = DOMAIN s
  OBVIOUS
<1>5. RangeOf(f) = {f[i] : i \in DOMAIN s}
  BY <1>4 DEF RangeOf
<1>6. QED
  BY <1>3, <1>4, <1>5

LEMMA AppendRange ==
  ASSUME NEW s, Sequential(s), NEW x
  PROVE  /\ Sequential(Append(s, x))
         /\ DOMAIN Append(s, x) = 1 .. (Len(s) + 1) /\ DOMAIN s = 1 .. Len(s) /\ Len(s) \in Nat
         /\ \A i \in 1 .. Len(s) : Append(s, x)[i] = s[i]
         /\ Append(s, x)[Len(s) + 1] = x
<1> DEFINE S == RangeOf(s) \cup {x}
           t == Append(s, x)
<1>1. s \in Seq(S) /\ x \in S
  BY DEF Sequential
<1>2. t \in Seq(S) /\ Len(t) = Len(s) + 1 /\ Len(s) \in Nat
  BY <1>1, AppendProperties
<1>3. \A i \in 1 .. Len(s) : t[i] = s[i]
  BY <1>1, AppendProperties
<1>4. t[Len(s) + 1] = x
  BY <1>1, AppendProperties
<1>5. DOMAIN t = 1 .. (Len(s) + 1) /\ DOMAIN s = 1 .. Len(s)
  BY <1>1, <1>2
<1> HIDE DEF t
<1>6. t \in [1 .. (Len(s) + 1) -> RangeOf(t)]
  BY <1>2, <1>5 DEF RangeOf
<1>7. Sequential(t)
  BY <1>2, <1>6 DEF Sequential
<1>8. QED
  BY <1>2, <1>3, <1>4, <1>5, <1>7 DEF t

LEMMA UpToSequential ==
  ASSUME NEW n \in Nat, NEW S, NEW s \in UpTo(n, S)
  PROVE  Sequential(s)
<1>1. PICK k \in 0 .. n : s \in [1 .. k -> S]
  BY DEF UpTo
<1>2. s \in [1 .. k -> RangeOf(s)]
  BY <1>1 DEF RangeOf
<1>3. QED
  BY <1>2 DEF Sequential

-----------------------------------------------------------------------------
(* Plans                                                                   *)

\* Whatever is to be verified has somebody to verify it.
LEMMA VerifierNamed ==
  /\ \A type : VerifierKey(type) # "not_required"
  /\ \A type : GraphVerifier(type) # "not_required"
<1>1. \A type : VerifierKey(type) # "not_required"
  BY DEF VerifierKey, RegistryVerifier
<1>2. QED
  BY <1>1 DEF GraphVerifier

LEMMA PlannedSequential ==
  ASSUME NEW s, Sequential(s), NEW f
  PROVE  Sequential(PlannedCredentials(s, f))
<1> DEFINE I == {i \in DOMAIN s : s[i].value # Blank}
           entries == Entries(s, f)
           planned == [i \in DOMAIN entries |->
                          Credential(entries[i], PlanningDecision(entries, i, f))]
           J == {i \in DOMAIN planned : planned[i].status = "eligible"}
           cs == Those(planned, J)
           F == {i \in DOMAIN cs : \A j \in 1 .. i - 1 : ~Same(cs[j], cs[i])}
           P == PlannedCredentials(s, f)
<1>1. Sequential(Those(s, I))
  BY ThoseListed DEF Sequential
<1>2. Sequential(entries)
  BY <1>1, MappedSequential DEF Entries
<1> HIDE DEF entries
<1>3. Sequential(planned)
  BY <1>2, MappedSequential
<1> HIDE DEF planned
<1>4. Sequential(cs)
  BY <1>3, ThoseListed DEF Sequential
<1>5. P = Dedupe(cs)
  BY DEF PlannedCredentials, entries, planned
<1> HIDE DEF cs
<1>6. Cardinality(F) \in Nat /\ DOMAIN InOrder(F) = 1 .. Cardinality(F)
  <2>1. PICK n \in Nat : DOMAIN cs = 1 .. n
    BY <1>4 DEF Sequential
  <2>2. F \in SUBSET (1 .. n)
    BY <2>1
  <2> HIDE DEF F
  <2>3. QED
    BY <2>2, InOrderLists
<1>7. DOMAIN P = 1 .. Cardinality(F) /\ P = [k \in DOMAIN P |-> P[k]]
  BY <1>5, <1>6 DEF Dedupe
<1> HIDE DEF P, F
<1>8. P \in [1 .. Cardinality(F) -> RangeOf(P)]
  BY <1>7 DEF RangeOf
<1>9. Sequential(P)
  BY <1>6, <1>8 DEF Sequential
<1>10. QED
  BY <1>9 DEF P

LEMMA PlannerTasks ==
  ASSUME NEW s, Sequential(s), NEW f, NEW p
  PROVE  /\ Sequential(CredentialTasks(s, f, p))
         /\ \A i \in DOMAIN CredentialTasks(s, f, p) :
               /\ \E c \in RangeOf(s) : CredentialTasks(s, f, p)[i].credential = c.id
               /\ CredentialTasks(s, f, p)[i].verifier # "not_required"
<1> DEFINE I == {i \in DOMAIN s : s[i].required}
           own == CredentialTasks(s, f, p)
           verified == Those(s, I)
<1>1. Sequential(verified) /\ RangeOf(verified) = {s[i] : i \in I}
  BY ThoseListed DEF Sequential
<1>2. own = [i \in DOMAIN verified |-> CredentialTask(verified[i], f, p)]
  BY DEF CredentialTasks
<1> HIDE DEF own, verified
<1>3. Sequential(own) /\ DOMAIN own = DOMAIN verified
  BY <1>1, <1>2, MappedSequential
<1>4. ASSUME NEW i \in DOMAIN own
      PROVE  /\ \E c \in RangeOf(s) : own[i].credential = c.id
             /\ own[i].verifier # "not_required"
  <2>1. own[i] = CredentialTask(verified[i], f, p)
    BY <1>2, <1>3
  <2>2. own[i].credential = verified[i].id /\ own[i].verifier # "not_required"
    BY <2>1, VerifierNamed DEF CredentialTask
  <2>3. verified[i] \in RangeOf(s)
    BY <1>1, <1>3 DEF RangeOf
  <2>4. QED
    BY <2>2, <2>3
<1>5. QED
  BY <1>3, <1>4 DEF own

\* The credentials that the tasks refer to are all there, and nobody else's value.
LEMMA ReferencedKnown ==
  ASSUME NEW known, Sequential(known), NEW ts, Sequential(ts)
  PROVE  /\ Sequential(WithReferenced(known, ts))
         /\ RangeOf(known) \subseteq RangeOf(WithReferenced(known, ts))
         /\ \A t \in RangeOf(ts) : \E c \in RangeOf(WithReferenced(known, ts)) :
               c.id = t.credential
         /\ \A c \in RangeOf(WithReferenced(known, ts)) : c \in RangeOf(known) \/ c.value = Blank
<1> DEFINE ids == {c.id : c \in RangeOf(known)}
           new == {i \in DOMAIN ts : /\ ts[i].credential \notin ids
                                     /\ \A j \in 1 .. i - 1 : ts[j].credential # ts[i].credential}
           all == [i \in DOMAIN ts |-> ReferencedCredential(ts[i])]
           W == WithReferenced(known, ts)
<1>1. PICK n \in Nat : DOMAIN ts = 1 .. n
  BY DEF Sequential
<1>2. Sequential(Those(all, new)) /\ RangeOf(Those(all, new)) = {all[i] : i \in new}
  BY <1>1, ThoseListed
<1>3. W = known \o Those(all, new)
  BY DEF WithReferenced
<1>4. Sequential(W) /\ RangeOf(W) = RangeOf(known) \cup {all[i] : i \in new}
  BY <1>2, <1>3, ConcatRange
<1>5. \A i \in new : all[i].id = ts[i].credential /\ all[i].value = Blank
  BY DEF ReferencedCredential
<1>6. ASSUME NEW i \in 1 .. n PROVE \E c \in RangeOf(W) : c.id = ts[i].credential
  <2>1. CASE ts[i].credential \in ids
    BY <1>4, <2>1
  <2>2. CASE ts[i].credential \notin ids
    <3> DEFINE T == {j \in 1 .. n : ts[j].credential = ts[i].credential}
    <3>1. T \in SUBSET Nat /\ T # {}
      BY <1>6
    <3>2. PICK k \in T : \A m \in T : k <= m
      BY <3>1, FirstElement
    <3>3. \A j \in 1 .. k - 1 : ts[j].credential # ts[k].credential
      BY <3>2
    <3>4. k \in new
      BY <1>1, <2>2, <3>2, <3>3
    <3>5. all[k] \in RangeOf(W) /\ all[k].id = ts[i].credential
      BY <1>4, <1>5, <3>2, <3>4
    <3>6. QED
      BY <3>5
  <2>3. QED
    BY <2>1, <2>2
<1> HIDE DEF W, new, all
<1>7. \A t \in RangeOf(ts) : \E c \in RangeOf(W) : c.id = t.credential
  BY <1>1, <1>6 DEF RangeOf
<1>8. RangeOf(known) \subseteq RangeOf(W)
      /\ \A c \in RangeOf(W) : c \in RangeOf(known) \/ c.value = Blank
  BY <1>4, <1>5
<1>9. QED
  BY <1>4, <1>7, <1>8 DEF W

-----------------------------------------------------------------------------
(* The invariant of a run's planning                                       *)

\* Nothing is executed before there is a plan.
PlanningNodes == {"extracted", "grouping", "tasking", "planning"}

PlanShape ==
    /\ pc \in PlanningNodes \cup {"running", "done"}
    /\ Sequential(items) /\ Sequential(groups) /\ Sequential(tasks)
    /\ Sequential(credentials) /\ Sequential(plan.tasks) /\ Sequential(results)
    /\ pc \in PlanningNodes => results = <<>>

TasksRouted ==
    pc \in {"running", "done"} =>
        \A t \in RangeOf(plan.tasks) :
            /\ \E r \in RangeOf(plan.routes) :
                  r.credential = t.credential /\ r.verifier # "not_required"
            /\ \E c \in RangeOf(credentials) : c.id = t.credential

ResultsKnown ==
    \A i \in DOMAIN results :
        /\ results[i].known
        /\ \E c \in RangeOf(credentials) : c.id = results[i].credential

Bundled == pc = "done" => bundles = [i \in DOMAIN credentials |-> Bundle(credentials[i])]

ReachInv == PlanShape /\ TasksRouted /\ ResultsKnown /\ Bundled

LEMMA ReachInitially == Init => ReachInv
<1> SUFFICES ASSUME Init PROVE ReachInv
  OBVIOUS
<1>1. Sequential(<<>>)
  BY DEF Sequential
<1>2. /\ pc = "extracted" /\ items = <<>> /\ groups = <<>> /\ tasks = <<>>
      /\ credentials = <<>> /\ results = <<>> /\ plan.tasks = <<>>
  BY DEF Init, Plan
<1>3. QED
  BY <1>1, <1>2 DEF ReachInv, PlanShape, PlanningNodes, TasksRouted, ResultsKnown, Bundled

\* Until the plan is made nothing has been executed.
LEMMA PlanningKeeps ==
  ASSUME ReachInv, pc \in PlanningNodes, pc' \in PlanningNodes,
         Sequential(items)', Sequential(groups)', Sequential(tasks)',
         UNCHANGED <<credentials, plan, results>>
  PROVE  ReachInv'
  BY DEF ReachInv, PlanShape, PlanningNodes, TasksRouted, ResultsKnown, Bundled

LEMMA DiscoveryKeeps ==
  ReachInv /\ (KeepCandidates \/ FieldsNameClaims \/ GeminiNamesClaims) => ReachInv'
<1> SUFFICES ASSUME ReachInv, KeepCandidates \/ FieldsNameClaims \/ GeminiNamesClaims
             PROVE  ReachInv'
  OBVIOUS
<1>1. PICK described, asClaims :
         Discovered(asClaims) /\ items' = described /\ Sequential(described)
  <2>1. CASE KeepCandidates
    <3>1. PICK found \in Documents :
             Discovered(FALSE) /\ items' = [i \in DOMAIN found |-> ByExtraction(found[i])]
      BY <2>1 DEF KeepCandidates
    <3>2. Sequential(found)
      BY <3>1, UpToSequential, RunPlanningAssumption DEF Documents
    <3>3. QED
      BY <3>1, <3>2, MappedSequential
  <2>2. CASE FieldsNameClaims
    <3>1. PICK found \in Documents :
             Discovered(TRUE) /\ items' = [i \in DOMAIN found |-> ByLabel(found[i])]
      BY <2>2 DEF FieldsNameClaims
    <3>2. Sequential(found)
      BY <3>1, UpToSequential, RunPlanningAssumption DEF Documents
    <3>3. QED
      BY <3>1, <3>2, MappedSequential
  <2>3. CASE GeminiNamesClaims
    <3>1. PICK found \in UpTo(MaxClaims, Fields) : \E d \in [DOMAIN found -> Descriptions] :
             /\ Discovered(TRUE)
             /\ items' = [i \in DOMAIN found |->
                              Described(found[i], d[i].source, d[i].intent, d[i].important)]
      BY <2>3 DEF GeminiNamesClaims
    <3>2. Sequential(found)
      BY <3>1, UpToSequential, RunPlanningAssumption
    <3>3. QED
      BY <3>1, <3>2, MappedSequential
  <2>4. QED
    BY <2>1, <2>2, <2>3
<1>2. /\ pc = "extracted" /\ pc' = "grouping" /\ items' = described
      /\ UNCHANGED <<groups, tasks, credentials, plan, results>>
  BY <1>1 DEF Discovered
<1>3. Sequential(items)' /\ Sequential(groups)' /\ Sequential(tasks)'
  BY <1>1, <1>2 DEF ReachInv, PlanShape, Sequential, RangeOf
<1>4. QED
  BY <1>2, <1>3, PlanningKeeps DEF PlanningNodes

LEMMA NormalizedSequential ==
  ASSUME Sequential(items)
  PROVE  Sequential(Normalized) /\ Normalized # <<>>
<1>1. CASE items = <<>>
  <2>1. Normalized = TrustFields
    BY <1>1 DEF Normalized
  <2>2. Sequential(TrustFields) /\ TrustFields # <<>>
    BY DEF TrustFields, Sequential, RangeOf
  <2>3. QED
    BY <2>1, <2>2
<1>2. CASE items # <<>>
  <2>1. Normalized = [i \in DOMAIN items |-> [id |-> items[i].id, type |-> GroupType(i),
                                              mandatory |-> items[i].mandatory]]
    BY <1>2 DEF Normalized
  <2>2. Sequential(Normalized) /\ DOMAIN Normalized = DOMAIN items
    BY <2>1, MappedSequential
  <2>3. DOMAIN items # {}
    <3>1. DOMAIN items = 1 .. Len(items) /\ Len(items) \in Nat /\ Len(items) # 0
      BY <1>2, EmptySeq DEF Sequential
    <3>2. QED
      BY <3>1
  <2>4. QED
    BY <2>2, <2>3
<1>3. QED
  BY <1>1, <1>2

LEMMA DeterministicGroupsSequential ==
  ASSUME Sequential(items) PROVE Sequential(DeterministicGroups)
<1> DEFINE types == WithoutRepeats([i \in DOMAIN Normalized |-> Normalized[i].type])
<1>1. Sequential(types)
  BY NormalizedSequential, MappedSequential, WithoutRepeatsRange
<1>2. DeterministicGroups =
         [k \in DOMAIN types |-> DeterministicGroup(<<"credential", k>>, types[k])]
  BY DEF DeterministicGroups
<1> HIDE DEF types
<1>3. QED
  BY <1>1, <1>2, MappedSequential

LEMMA GroupingKeeps == ReachInv /\ (GroupByType \/ GroupByGemini) => ReachInv'
<1> SUFFICES ASSUME ReachInv, GroupByType \/ GroupByGemini PROVE ReachInv'
  OBVIOUS
<1>1. PICK answer : Grouped(answer) /\ Sequential(answer)
  <2>1. CASE GroupByType
    BY <2>1, DeterministicGroupsSequential DEF GroupByType, ReachInv, PlanShape
  <2>2. CASE GroupByGemini
    BY <2>2, UpToSequential, RunPlanningAssumption DEF GroupByGemini
  <2>3. QED
    BY <2>1, <2>2
<1>2. /\ pc = "grouping" /\ pc' = "tasking" /\ groups' = answer
      /\ UNCHANGED <<items, tasks, credentials, plan, results>>
  BY <1>1 DEF Grouped, document
<1>3. Sequential(items)' /\ Sequential(groups)' /\ Sequential(tasks)'
  BY <1>1, <1>2 DEF ReachInv, PlanShape, Sequential, RangeOf
<1>4. QED
  BY <1>2, <1>3, PlanningKeeps DEF PlanningNodes

LEMMA PlanTasksKeeps == ReachInv /\ PlanTasks => ReachInv'
<1> SUFFICES ASSUME ReachInv, PlanTasks PROVE ReachInv'
  OBVIOUS
<1>1. /\ pc = "tasking" /\ pc' = "planning"
      /\ tasks' = [i \in DOMAIN groups |-> GroupTask(groups[i])]
      /\ UNCHANGED <<items, groups, credentials, plan, results>>
  BY DEF PlanTasks, document
<1>2. \A s : s = [i \in DOMAIN groups |-> GroupTask(groups[i])] => Sequential(s)
  BY MappedSequential DEF ReachInv, PlanShape
<1>3. Sequential(items)' /\ Sequential(groups)' /\ Sequential(tasks)'
  BY <1>1, <1>2 DEF ReachInv, PlanShape, Sequential, RangeOf
<1>4. QED
  BY <1>1, <1>3, PlanningKeeps DEF PlanningNodes

LEMMA PlanMade ==
  ASSUME ReachInv, pc = "planning", pc' = "running",
         UNCHANGED <<items, groups, tasks, results>>,
         Sequential(credentials)', Sequential(plan.tasks)', TasksRouted'
  PROVE  ReachInv'
<1>1. results = <<>> /\ results' = <<>>
  BY DEF ReachInv, PlanShape, PlanningNodes
<1>2. PlanShape'
  BY <1>1 DEF ReachInv, PlanShape, PlanningNodes, Sequential, RangeOf
<1>3. ResultsKnown' /\ Bundled'
  BY <1>1 DEF ResultsKnown, Bundled
<1>4. QED
  BY <1>2, <1>3 DEF ReachInv

LEMMA PlanForRuntimeKeeps == ReachInv /\ PlanForRuntime => ReachInv'
<1> SUFFICES ASSUME ReachInv, PlanForRuntime PROVE ReachInv'
  OBVIOUS
<1> DEFINE planned == PlannedCredentials(items, family)
           grouped == [i \in DOMAIN tasks |-> DomainTask(tasks[i])]
           own == CredentialTasks(planned, family, providers)
<1>1. /\ pc = "planning" /\ pc' = "running"
      /\ UNCHANGED <<items, groups, tasks, results>>
  BY DEF PlanForRuntime, document
<1>2. Sequential(planned) /\ Sequential(grouped)
  BY PlannedSequential, MappedSequential DEF ReachInv, PlanShape
<1>3. CASE tasks # <<>>
  <2> DEFINE routes == [i \in DOMAIN grouped |-> GroupRoute(grouped[i])]
  <2>1. credentials' = WithReferenced(planned, grouped) /\ plan' = Plan(grouped, routes)
    BY <1>3 DEF PlanForRuntime
  <2>2. plan'.tasks = grouped /\ plan'.routes = routes
    BY <2>1 DEF Plan
  <2>3. /\ Sequential(credentials')
        /\ \A t \in RangeOf(grouped) : \E c \in RangeOf(credentials') : c.id = t.credential
    <3> HIDE DEF grouped, planned
    <3> QED
      BY <1>2, <2>1, ReferencedKnown
  <2>4. ASSUME NEW t \in RangeOf(grouped)
        PROVE  \E r \in RangeOf(routes) :
                  r.credential = t.credential /\ r.verifier # "not_required"
    <3>1. PICK i \in DOMAIN grouped : t = grouped[i]
      BY DEF RangeOf
    <3>2. routes[i] \in RangeOf(routes) /\ routes[i] = GroupRoute(t)
      BY <3>1 DEF RangeOf
    <3>3. t.verifier # "not_required"
      BY <3>1, VerifierNamed DEF DomainTask
    <3>4. QED
      BY <3>2, <3>3 DEF GroupRoute
  <2> HIDE DEF grouped, routes
  <2>5. TasksRouted'
    BY <2>2, <2>3, <2>4 DEF TasksRouted
  <2>6. Sequential(credentials)' /\ Sequential(plan.tasks)'
    BY <1>2, <2>2, <2>3 DEF Sequential, RangeOf
  <2>7. QED
    BY <1>1, <2>5, <2>6, PlanMade
<1>4. CASE tasks = <<>>
  <2> DEFINE routes == [i \in DOMAIN planned |-> RouteOfCredential(planned[i], own)]
  <2>1. credentials' = planned /\ plan' = Plan(own, routes)
    BY <1>4 DEF PlanForRuntime
  <2>2. plan'.tasks = own /\ plan'.routes = routes
    BY <2>1 DEF Plan
  <2> HIDE DEF planned
  <2>3. /\ Sequential(own)
        /\ \A i \in DOMAIN own : /\ \E c \in RangeOf(planned) : own[i].credential = c.id
                                 /\ own[i].verifier # "not_required"
    BY <1>2, PlannerTasks
  <2> HIDE DEF own
  <2>4. ASSUME NEW t \in RangeOf(own)
        PROVE  /\ \E c \in RangeOf(planned) : c.id = t.credential
               /\ \E r \in RangeOf(routes) :
                     r.credential = t.credential /\ r.verifier # "not_required"
    <3>1. PICK k \in DOMAIN own : t = own[k]
      BY DEF RangeOf
    <3>2. PICK i \in DOMAIN planned : planned[i].id = t.credential
      BY <2>3, <3>1 DEF RangeOf
    <3> DEFINE S == {m \in DOMAIN own : own[m].credential = planned[i].id}
    <3>3. Last(S) \in S
      <4>1. PICK n \in Nat : DOMAIN own = 1 .. n
        BY <2>3 DEF Sequential
      <4>2. S \in SUBSET (1 .. n) /\ S # {}
        BY <3>1, <3>2, <4>1
      <4> HIDE DEF S
      <4>3. QED
        BY <4>2, LastFound
    <3>4. routes[i] = RouteDecision(own[Last(S)])
      BY <3>2, <3>3 DEF RouteOfCredential
    <3>5. routes[i].credential = t.credential /\ routes[i].verifier # "not_required"
      BY <2>3, <3>2, <3>3, <3>4 DEF RouteDecision
    <3>6. routes[i] \in RangeOf(routes) /\ planned[i] \in RangeOf(planned)
      BY <3>2 DEF RangeOf
    <3> HIDE DEF routes
    <3>7. QED
      BY <3>2, <3>5, <3>6
  <2> HIDE DEF routes
  <2>5. TasksRouted'
    BY <2>1, <2>2, <2>4 DEF TasksRouted
  <2>6. Sequential(credentials)' /\ Sequential(plan.tasks)'
    BY <1>2, <2>1, <2>2, <2>3 DEF Sequential, RangeOf
  <2>7. QED
    BY <1>1, <2>5, <2>6, PlanMade
<1>5. QED
  BY <1>3, <1>4

LEMMA ExecutionKeeps == ReachInv /\ (ExecuteByProvider \/ ExecuteManually) => ReachInv'
<1> SUFFICES ASSUME ReachInv, ExecuteByProvider \/ ExecuteManually PROVE ReachInv'
  OBVIOUS
<1>1. pc = "running" /\ TasksLeft /\ \E audit : Recorded(audit)
  BY DEF ExecuteByProvider, ExecuteManually
<1>2. PICK audit : Recorded(audit)
  BY <1>1
<1> DEFINE x == [credential |-> Task.credential, audit |-> audit,
                 known |-> CredentialsWith(Task.credential) # {}]
<1>3. /\ results' = Append(results, x)
      /\ UNCHANGED <<pc, items, groups, tasks, credentials, plan, bundles>>
  BY <1>2 DEF Recorded, document
<1>4. Sequential(results) /\ Sequential(plan.tasks)
  BY DEF ReachInv, PlanShape
<1>5. Task \in RangeOf(plan.tasks)
  <2>1. /\ Len(results) \in Nat /\ Len(plan.tasks) \in Nat
        /\ DOMAIN plan.tasks = 1 .. Len(plan.tasks)
    BY <1>4, AppendRange
  <2>2. Len(results) + 1 \in DOMAIN plan.tasks
    BY <1>1, <2>1 DEF TasksLeft
  <2>3. QED
    BY <2>2 DEF Task, RangeOf
<1>6. PICK c \in RangeOf(credentials) : c.id = Task.credential
  BY <1>1, <1>5 DEF ReachInv, TasksRouted
<1>7. x.known /\ x.credential = c.id
  BY <1>6 DEF CredentialsWith, RangeOf
<1> HIDE DEF x
<1>8. /\ Sequential(results')
      /\ DOMAIN results' = 1 .. (Len(results) + 1) /\ DOMAIN results = 1 .. Len(results)
      /\ Len(results) \in Nat
      /\ \A i \in 1 .. Len(results) : results'[i] = results[i]
      /\ results'[Len(results) + 1] = x
  BY <1>3, <1>4, AppendRange
<1>9. ResultsKnown'
  <2> SUFFICES ASSUME NEW i \in DOMAIN results'
               PROVE  /\ results'[i].known
                      /\ \E d \in RangeOf(credentials) : d.id = results'[i].credential
    BY <1>3 DEF ResultsKnown
  <2>1. CASE i \in 1 .. Len(results)
    BY <1>8, <2>1 DEF ReachInv, ResultsKnown
  <2>2. CASE i = Len(results) + 1
    BY <1>6, <1>7, <1>8, <2>2
  <2>3. QED
    BY <1>8, <2>1, <2>2
<1>10. PlanShape'
  BY <1>1, <1>3, <1>8 DEF ReachInv, PlanShape, PlanningNodes, Sequential, RangeOf
<1>11. TasksRouted' /\ Bundled'
  BY <1>1, <1>3 DEF ReachInv, TasksRouted, Bundled
<1>12. QED
  BY <1>9, <1>10, <1>11 DEF ReachInv

LEMMA BuildBundlesKeeps == ReachInv /\ BuildBundles => ReachInv'
<1> SUFFICES ASSUME ReachInv, BuildBundles PROVE ReachInv'
  OBVIOUS
<1>1. /\ pc = "running" /\ pc' = "done"
      /\ bundles' = [i \in DOMAIN credentials |-> Bundle(credentials[i])]
      /\ UNCHANGED <<items, groups, tasks, credentials, plan, results>>
  BY DEF BuildBundles, document
<1>2. PlanShape'
  BY <1>1 DEF ReachInv, PlanShape, PlanningNodes
<1>3. TasksRouted' /\ ResultsKnown'
  BY <1>1 DEF ReachInv, TasksRouted, ResultsKnown
<1>4. Bundled'
  BY <1>1 DEF Bundled, Bundle
<1>5. QED
  BY <1>2, <1>3, <1>4 DEF ReachInv

LEMMA ReachStep == ReachInv /\ [Next]_vars => ReachInv'
<1> SUFFICES ASSUME ReachInv, [Next]_vars PROVE ReachInv'
  OBVIOUS
<1>1. CASE Next
  BY <1>1, DiscoveryKeeps, GroupingKeeps, PlanTasksKeeps, PlanForRuntimeKeeps, ExecutionKeeps,
     BuildBundlesKeeps DEF Next
<1>2. CASE UNCHANGED vars
  <2>1. UNCHANGED <<pc, items, groups, tasks, credentials, plan, results, bundles>>
    BY <1>2 DEF vars
  <2>2. PlanShape'
    BY <2>1 DEF ReachInv, PlanShape
  <2>3. TasksRouted' /\ ResultsKnown'
    BY <2>1 DEF ReachInv, TasksRouted, ResultsKnown
  <2>4. Bundled'
    BY <2>1 DEF ReachInv, Bundled, Bundle
  <2>5. QED
    BY <2>2, <2>3, <2>4 DEF ReachInv
<1>3. QED
  BY <1>1, <1>2

THEOREM ReachInvariant == Spec => []ReachInv
  BY ReachInitially, ReachStep, PTL DEF Spec

\* A contradiction is the audit of a bundle whatever else was found.
LEMMA ContradictionFirst ==
  ASSUME NEW found, "MISMATCH" \in found PROVE BestOf(found) = "MISMATCH"
<1> DEFINE rules == [i \in DOMAIN Priority |-> <<Priority[i] \in found, Priority[i]>>]
           first(i) == rules[i][1] /\ \A j \in 1 .. i - 1 : ~rules[j][1]
<1>1. DOMAIN rules = 1 .. 6 /\ rules[1][1] /\ rules[1][2] = "MISMATCH"
  <2>1. DOMAIN Priority = 1 .. 6 /\ Priority[1] = "MISMATCH"
    BY DEF Priority
  <2>2. rules[1] = <<Priority[1] \in found, Priority[1]>>
    BY <2>1
  <2>3. (Priority[1] \in found) = TRUE
    BY <2>1
  <2>4. rules[1] = <<TRUE, "MISMATCH">>
    BY <2>1, <2>2, <2>3, Zenon
  <2>5. DOMAIN rules = 1 .. 6
    BY <2>1
  <2> HIDE DEF rules
  <2>6. rules[1][1] = TRUE
    BY <2>4
  <2>7. rules[1][2] = "MISMATCH"
    BY <2>4
  <2>8. QED
    BY <2>5, <2>6, <2>7
<1> HIDE DEF rules
<1>2. \A i \in DOMAIN rules : first(i) => i = 1
  BY <1>1
<1>3. 1 \in DOMAIN rules /\ first(1)
  BY <1>1
<1>4. (CHOOSE i \in DOMAIN rules : first(i)) = 1
  BY <1>2, <1>3
<1>5. FirstOf(rules) = rules[1][2]
  BY <1>4 DEF FirstOf
<1>6. QED
  BY <1>1, <1>5 DEF BestOf, rules

\* For documents, groups and results of any number: every task that is planned has a
\* route and a credential, and what it finds reaches the bundle of that credential, a
\* contradiction whatever the other tasks find (graph.py, adapters.py, executor.py).
THEOREM EveryResultReachesItsBundle == Spec => []ResultsReachBundles
<1>1. ReachInv => ResultsReachBundles
  <2> SUFFICES ASSUME ReachInv PROVE ResultsReachBundles
    OBVIOUS
  <2>1. JustPlanned => \A t \in RangeOf(plan.tasks) : \E r \in RangeOf(plan.routes) :
           r.credential = t.credential /\ r.verifier # "not_required"
    BY DEF JustPlanned, ReachInv, TasksRouted
  <2>2. ASSUME pc = "done", NEW r \in RangeOf(results)
        PROVE  /\ r.known
               /\ \E b \in RangeOf(bundles) :
                     b.credential = r.credential /\ (r.audit = "MISMATCH" => b.audit = "MISMATCH")
    <3>1. PICK i \in DOMAIN results : r = results[i]
      BY DEF RangeOf
    <3>2. r.known /\ \E c \in RangeOf(credentials) : c.id = r.credential
      BY <3>1 DEF ReachInv, ResultsKnown
    <3>3. PICK k \in DOMAIN credentials : credentials[k].id = r.credential
      BY <3>2 DEF RangeOf
    <3> DEFINE b == Bundle(credentials[k])
               found == {results[m].audit : m \in {m \in DOMAIN results :
                                                      results[m].credential = credentials[k].id}}
    <3>4. b \in RangeOf(bundles)
      BY <2>2, <3>3 DEF ReachInv, Bundled, RangeOf
    <3>5. r.audit \in found
      BY <3>1, <3>3
    <3>6. b.credential = credentials[k].id /\ b.audit = BestOf(found)
      BY <3>5 DEF Bundle
    <3> HIDE DEF b, found
    <3>7. r.audit = "MISMATCH" => b.audit = "MISMATCH"
      BY <3>5, <3>6, ContradictionFirst
    <3>8. QED
      BY <3>2, <3>3, <3>4, <3>6, <3>7
  <2>3. QED
    BY <2>1, <2>2 DEF ResultsReachBundles
<1>2. QED
  BY <1>1, ReachInvariant, PTL

-----------------------------------------------------------------------------
(* Mandatory fields                                                        *)

IdsApart == ~claimed => \A i, j \in DOMAIN items : items[i].id = items[j].id => i = j

TasksOfGroups == pc = "planning" => tasks = [i \in DOMAIN groups |-> GroupTask(groups[i])]

\* What is claimed of a field is said of its id.
LEMMA TypeOfId ==
  ASSUME IdsApart, NEW i \in DOMAIN Normalized, NEW j \in DOMAIN Normalized,
         Normalized[i].id = Normalized[j].id
  PROVE  Normalized[i].type = Normalized[j].type
<1>1. CASE items = <<>>
  <2>1. Normalized = TrustFields
    BY <1>1 DEF Normalized
  <2>2. \A k, m \in DOMAIN TrustFields : TrustFields[k].id = TrustFields[m].id => k = m
    BY DEF TrustFields
  <2>3. QED
    BY <2>1, <2>2
<1>2. CASE items # <<>>
  <2>1. /\ DOMAIN Normalized = DOMAIN items
        /\ \A k \in DOMAIN items : /\ Normalized[k].id = items[k].id
                                  /\ Normalized[k].type = GroupType(k)
    BY <1>2 DEF Normalized
  <2>2. items[i].id = items[j].id
    BY <2>1
  <2>3. GroupType(i) = GroupType(j)
    <3>1. CASE claimed
      BY <2>2, <3>1 DEF GroupType
    <3>2. CASE ~claimed
      BY <2>1, <2>2, <3>2 DEF IdsApart
    <3>3. QED
      BY <3>1, <3>2
  <2>4. QED
    BY <2>1, <2>3
<1>3. QED
  BY <1>1, <1>2

\* The types of the groups, and the fields that the task of a type is about.
TypesFound == WithoutRepeats([i \in DOMAIN Normalized |-> Normalized[i].type])
Required(type) == {i \in Members(type) : Normalized[i].mandatory}
Covered(type) == IF Required(type) = {} THEN Members(type) ELSE Required(type)

LEMMA TypesOfItems ==
  ASSUME Sequential(Normalized)
  PROVE  /\ Sequential(TypesFound)
         /\ RangeOf(TypesFound) = {Normalized[i].type : i \in DOMAIN Normalized}
         /\ \A k, m \in DOMAIN TypesFound : TypesFound[k] = TypesFound[m] => k = m
         /\ \A k \in DOMAIN TypesFound : Members(TypesFound[k]) # {}
<1> DEFINE s == [i \in DOMAIN Normalized |-> Normalized[i].type]
<1>1. Sequential(s) /\ RangeOf(s) = {Normalized[i].type : i \in DOMAIN Normalized}
  BY MappedSequential
<1>2. /\ Sequential(TypesFound)
      /\ RangeOf(TypesFound) = {Normalized[i].type : i \in DOMAIN Normalized}
      /\ \A k, m \in DOMAIN TypesFound : TypesFound[k] = TypesFound[m] => k = m
  <2> HIDE DEF s
  <2> QED
    BY <1>1, WithoutRepeatsRange DEF TypesFound, s
<1>3. ASSUME NEW k \in DOMAIN TypesFound PROVE Members(TypesFound[k]) # {}
  <2>1. TypesFound[k] \in RangeOf(TypesFound)
    BY DEF RangeOf
  <2>2. PICK i \in DOMAIN Normalized : TypesFound[k] = Normalized[i].type
    BY <1>2, <2>1
  <2>3. QED
    BY <2>2 DEF Members
<1>4. QED
  BY <1>2, <1>3

\* The task of a group is about the mandatory fields of its type, if it has any, and
\* then somebody has to answer for it.
LEMMA TaskOfType ==
  ASSUME Sequential(Normalized), groups = DeterministicGroups, TypesFound # <<>>,
         NEW k \in DOMAIN TypesFound
  PROVE  /\ DOMAIN groups = DOMAIN TypesFound
         /\ RangeOf(GroupTask(groups[k]).fields) =
               {Normalized[i].id : i \in Covered(TypesFound[k])}
         /\ GroupTask(groups[k]).required = (Required(TypesFound[k]) # {})
<1> DEFINE type == TypesFound[k]
           ids == [i \in DOMAIN Normalized |-> Normalized[i].id]
           required == Those(ids, Covered(type))
           g == groups[k]
<1>1. groups = [m \in DOMAIN TypesFound |->
                   DeterministicGroup(<<"credential", m>>, TypesFound[m])]
  BY DEF DeterministicGroups, TypesFound
<1>2. \A m \in DOMAIN TypesFound :
         /\ groups[m].id = <<"credential", m>>
         /\ groups[m].optional = (Required(TypesFound[m]) = {})
  BY <1>1 DEF DeterministicGroup, Required
<1>3. g.required = required
  <2>1. g = DeterministicGroup(<<"credential", k>>, type)
    BY <1>1
  <2>2. g.required = Those(ids, IF {i \in Members(type) : Normalized[i].mandatory} = {}
                                THEN Members(type)
                                ELSE {i \in Members(type) : Normalized[i].mandatory})
    BY <2>1 DEF DeterministicGroup
  <2>3. QED
    BY <2>2, Zenon DEF Required, Covered
<1>4. Covered(type) \subseteq DOMAIN Normalized /\ Covered(type) # {}
  BY TypesOfItems DEF Covered, Required, Members
<1>5. /\ Sequential(required) /\ required # <<>>
      /\ RangeOf(required) = {Normalized[i].id : i \in Covered(type)}
  <2>1. PICK n \in Nat : DOMAIN Normalized = 1 .. n
    BY DEF Sequential
  <2>2. DOMAIN ids = 1 .. n /\ \A i \in 1 .. n : ids[i] = Normalized[i].id
    BY <2>1
  <2> HIDE DEF ids
  <2>3. /\ Sequential(required) /\ required # <<>>
        /\ RangeOf(required) = {ids[i] : i \in Covered(type)}
    BY <1>4, <2>1, <2>2, ThoseListed
  <2>4. QED
    BY <1>4, <2>1, <2>2, <2>3
<1> HIDE DEF required
<1>6. /\ WithoutRepeats(required) # <<>>
      /\ RangeOf(WithoutRepeats(required)) = {Normalized[i].id : i \in Covered(type)}
  BY <1>5, WithoutRepeatsRange
<1>7. GroupTask(g).fields = WithoutRepeats(required)
  BY <1>3, <1>5, <1>6 DEF GroupTask
<1>8. RouteFor(g.id).optional = g.optional
  <2>1. {m \in DOMAIN groups : groups[m].id = g.id} = {k}
    BY <1>1, <1>2
  <2>2. Last({k}) = k
    <3>1. PICK n \in Nat : DOMAIN TypesFound = 1 .. n
      BY TypesOfItems DEF Sequential
    <3>2. {k} \in SUBSET (1 .. n) /\ {k} # {}
      BY <3>1
    <3>3. Last({k}) \in {k}
      BY <3>2, LastFound
    <3>4. QED
      BY <3>3
  <2>3. QED
    BY <2>1, <2>2 DEF RouteFor, Route
<1>9. GroupTask(g).required = (Required(type) # {})
  BY <1>2, <1>8 DEF GroupTask
<1>10. DOMAIN groups = DOMAIN TypesFound
  BY <1>1
<1>11. QED
  BY <1>6, <1>7, <1>9, <1>10

LEMMA MandatoryPlanned ==
  ASSUME Sequential(Normalized), Normalized # <<>>, IdsApart, TasksOfGroups
  PROVE  MandatoryFieldsPlanned
<1> SUFFICES ASSUME groups = DeterministicGroups, pc = "planning",
                    NEW i \in DOMAIN Normalized, Normalized[i].mandatory
             PROVE  LET about == {k \in DOMAIN tasks : Normalized[i].id \in RangeOf(tasks[k].fields)}
                    IN Cardinality(about) = 1 /\ \A k \in about : tasks[k].required
  BY DEF MandatoryFieldsPlanned
<1> DEFINE about == {k \in DOMAIN tasks : Normalized[i].id \in RangeOf(tasks[k].fields)}
<1>1. PICK own \in DOMAIN TypesFound : TypesFound[own] = Normalized[i].type
  BY TypesOfItems DEF RangeOf
<1>2. TypesFound # <<>>
  BY <1>1
<1>3. /\ DOMAIN tasks = DOMAIN TypesFound
      /\ \A k \in DOMAIN tasks :
            /\ RangeOf(tasks[k].fields) = {Normalized[j].id : j \in Covered(TypesFound[k])}
            /\ tasks[k].required = (Required(TypesFound[k]) # {})
  <2>1. tasks = [k \in DOMAIN groups |-> GroupTask(groups[k])]
    BY DEF TasksOfGroups
  <2>2. DOMAIN groups = DOMAIN TypesFound
    BY <1>1, <1>2, TaskOfType
  <2>3. QED
    BY <1>2, <2>1, <2>2, TaskOfType
<1>4. i \in Required(TypesFound[own]) /\ i \in Covered(TypesFound[own])
  BY <1>1 DEF Required, Covered, Members
<1>5. own \in about
  BY <1>3, <1>4
<1>6. ASSUME NEW k \in about PROVE k = own
  <2>1. PICK j \in Covered(TypesFound[k]) : Normalized[j].id = Normalized[i].id
    BY <1>3
  <2>2. j \in DOMAIN Normalized /\ Normalized[j].type = TypesFound[k]
    BY <2>1 DEF Covered, Required, Members
  <2>3. TypesFound[k] = TypesFound[own]
    BY <1>1, <2>1, <2>2, TypeOfId
  <2>4. QED
    BY <1>3, <2>3, TypesOfItems
<1>7. about = {own}
  BY <1>5, <1>6
<1>8. Cardinality(about) = 1
  BY <1>7, FS_Singleton
<1>9. tasks[own].required
  BY <1>3, <1>4, <1>5
<1>10. QED
  BY <1>7, <1>8, <1>9

MandatoryInv == ReachInv /\ IdsApart /\ TasksOfGroups

LEMMA MandatoryStep == MandatoryInv /\ [Next]_vars => MandatoryInv'
<1> SUFFICES ASSUME MandatoryInv, [Next]_vars PROVE MandatoryInv'
  OBVIOUS
<1>1. ReachInv'
  BY ReachStep DEF MandatoryInv
<1>2. CASE KeepCandidates
  <2>1. PICK found \in Documents :
           Discovered(FALSE) /\ items' = [i \in DOMAIN found |-> ByExtraction(found[i])]
    BY <1>2 DEF KeepCandidates
  <2>2. /\ items' = [i \in DOMAIN found |-> ByExtraction(found[i])]
        /\ pc' = "grouping"
    BY <2>1 DEF Discovered
  <2>3. \A i \in DOMAIN found : items'[i].id = found[i].id
    BY <2>2 DEF ByExtraction, Described
  <2>4. IdsApart' /\ TasksOfGroups'
    BY <2>1, <2>2, <2>3 DEF Documents, IdsApart, TasksOfGroups
  <2>5. QED
    BY <1>1, <2>4 DEF MandatoryInv
<1>3. CASE FieldsNameClaims \/ GeminiNamesClaims
  <2>1. claimed' = TRUE /\ pc' = "grouping"
    BY <1>3 DEF FieldsNameClaims, GeminiNamesClaims, Discovered
  <2>2. QED
    BY <1>1, <2>1 DEF MandatoryInv, IdsApart, TasksOfGroups
<1>4. CASE PlanTasks
  BY <1>1, <1>4 DEF PlanTasks, document, MandatoryInv, IdsApart, TasksOfGroups, GroupTask, RouteFor,
     Route
<1>5. CASE GroupByType \/ GroupByGemini \/ PlanForRuntime \/ ExecuteByProvider \/ ExecuteManually
           \/ BuildBundles
  <2>1. UNCHANGED <<items, claimed>> /\ pc' # "planning"
    BY <1>5 DEF GroupByType, GroupByGemini, Grouped, PlanForRuntime, ExecuteByProvider,
       ExecuteManually, Recorded, BuildBundles, document
  <2>2. QED
    BY <1>1, <2>1 DEF MandatoryInv, IdsApart, TasksOfGroups
<1>6. CASE UNCHANGED vars
  BY <1>1, <1>6 DEF vars, MandatoryInv, IdsApart, TasksOfGroups, GroupTask, RouteFor, Route
<1>7. QED
  BY <1>2, <1>3, <1>4, <1>5, <1>6 DEF Next

\* For documents of any number of fields and Gemini's repeated ids: of each mandatory field
\* exactly one task is about, and it has to succeed, unless Gemini groups (graph.py).
THEOREM MandatoryFieldsAlwaysPlanned == Spec => []MandatoryFieldsPlanned
<1>1. Init => MandatoryInv
  BY ReachInitially DEF Init, MandatoryInv, IdsApart, TasksOfGroups
<1>2. MandatoryInv => MandatoryFieldsPlanned
  BY MandatoryPlanned, NormalizedSequential DEF MandatoryInv, ReachInv, PlanShape
<1>3. QED
  BY <1>1, <1>2, MandatoryStep, PTL DEF Spec

-----------------------------------------------------------------------------
(* Alike fields                                                            *)

\* Two entries that differ in their values and pages only, and in nothing that an id tells.
LEMMA KeyByNature ==
  ASSUME NEW d, NEW e, NEW f, IdTokens[d.id] = IdTokens[e.id],
         d.source = e.source, d.words = e.words, d.matches = e.matches
  PROVE  SemanticKey(d, f) = SemanticKey(e, f)
<1>1. Haystack(d) = Haystack(e)
  BY DEF Haystack
<1>2. QED
  BY <1>1 DEF SemanticKey

LEMMA DecisionByNature ==
  ASSUME NEW entries, NEW p, NEW q, NEW f,
         entries[p].words = entries[q].words, entries[p].matches = entries[q].matches,
         entries[p].confidence = entries[q].confidence, entries[p].boxed = entries[q].boxed,
         entries[p].source = entries[q].source, entries[p].intent = entries[q].intent,
         entries[p].important = entries[q].important, entries[p].key = entries[q].key,
         entries[p].value # Blank, entries[q].value # Blank
  PROVE  PlanningDecision(entries, p, f) = PlanningDecision(entries, q, f)
<1> DEFINE d == entries[p]
           e == entries[q]
<1>1. Grounded(d) = Grounded(e)
  BY DEF Grounded
<1>2. DynamicallyEligible(d) = DynamicallyEligible(e)
  BY DEF DynamicallyEligible
<1>3. DynamicallyManual(d) = DynamicallyManual(e)
  BY DEF DynamicallyManual
<1>4. \A context : SupportsContext(entries, p, f, context) = SupportsContext(entries, q, f, context)
  BY DEF SupportsContext, Anchored
<1>5. Passes(entries, p, f) = Passes(entries, q, f)
  BY <1>4 DEF Passes
<1>6. QED
  BY <1>1, <1>2, <1>3, <1>4, <1>5 DEF PlanningDecision

\* The entry of a field, and the credentials before those that are the same go.
EntryOf(e, f) ==
    [id |-> e.id, words |-> e.words, matches |-> e.matches, value |-> e.value,
     confidence |-> e.confidence, page |-> e.page, boxed |-> e.boxed,
     source |-> e.source, intent |-> e.intent, important |-> e.important,
     key |-> SemanticKey(e, f)]

CandidatesOf(s, f) ==
    [p \in DOMAIN Entries(s, f) |->
        Credential(Entries(s, f)[p], PlanningDecision(Entries(s, f), p, f))]

Eligible(s, f, p) == PlanningDecision(Entries(s, f), p, f).status = "eligible"

LEMMA EntriesListed ==
  ASSUME NEW s, Sequential(s), NEW f
  PROVE  /\ Sequential(Entries(s, f))
         /\ \A p \in DOMAIN Entries(s, f) : \E i \in DOMAIN s :
               s[i].value # Blank /\ Entries(s, f)[p] = EntryOf(s[i], f)
         /\ \A i \in DOMAIN s : s[i].value # Blank =>
               \E p \in DOMAIN Entries(s, f) : Entries(s, f)[p] = EntryOf(s[i], f)
<1> DEFINE I == {i \in DOMAIN s : s[i].value # Blank}
           valued == Those(s, I)
           entries == Entries(s, f)
<1>1. Sequential(valued) /\ RangeOf(valued) = {s[i] : i \in I}
  BY ThoseListed DEF Sequential
<1>2. entries = [p \in DOMAIN valued |-> EntryOf(valued[p], f)]
  BY DEF Entries, EntryOf
<1> HIDE DEF entries, valued
<1>3. Sequential(entries) /\ DOMAIN entries = DOMAIN valued
  BY <1>1, <1>2, MappedSequential
<1>4. ASSUME NEW p \in DOMAIN entries
      PROVE  \E i \in DOMAIN s : s[i].value # Blank /\ entries[p] = EntryOf(s[i], f)
  <2>1. valued[p] \in RangeOf(valued)
    BY <1>3 DEF RangeOf
  <2>2. PICK i \in I : valued[p] = s[i]
    BY <1>1, <2>1
  <2>3. QED
    BY <1>2, <1>3, <2>2
<1>5. ASSUME NEW i \in DOMAIN s, s[i].value # Blank
      PROVE  \E p \in DOMAIN entries : entries[p] = EntryOf(s[i], f)
  <2>1. s[i] \in RangeOf(valued)
    BY <1>1, <1>5
  <2>2. PICK p \in DOMAIN valued : valued[p] = s[i]
    BY <2>1 DEF RangeOf
  <2>3. QED
    BY <1>2, <1>3, <2>2
<1>6. QED
  BY <1>3, <1>4, <1>5 DEF entries

\* Of credentials that are the same one stays.
LEMMA DedupeKeeps ==
  ASSUME NEW cs, Sequential(cs), \A i \in DOMAIN cs : cs[i].confidence \in 0 .. 100
  PROVE  /\ \A c \in RangeOf(Dedupe(cs)) : c \in RangeOf(cs)
         /\ \A m \in DOMAIN cs : \E c \in RangeOf(Dedupe(cs)) : Same(c, cs[m])
<1> DEFINE first == {i \in DOMAIN cs : \A j \in 1 .. i - 1 : ~Same(cs[j], cs[i])}
           isBest(i, b) == /\ Same(cs[b], cs[i])
                           /\ \A d \in DOMAIN cs : Same(cs[d], cs[i]) =>
                                 \/ cs[d].confidence < cs[b].confidence
                                 \/ cs[d].confidence = cs[b].confidence /\ b <= d
           best(i) == CHOOSE b \in DOMAIN cs : isBest(i, b)
           N == Cardinality(first)
<1>1. PICK n \in Nat : DOMAIN cs = 1 .. n
  BY DEF Sequential
<1>2. /\ InOrder(first) \in [1 .. N -> first]
      /\ DOMAIN InOrder(first) = 1 .. N
      /\ \A i \in first : \E k \in 1 .. N : InOrder(first)[k] = i
  <2>1. first \in SUBSET (1 .. n)
    BY <1>1
  <2> HIDE DEF first
  <2>2. QED
    BY <2>1, InOrderLists
<1>3. ASSUME NEW i \in DOMAIN cs PROVE best(i) \in DOMAIN cs /\ Same(cs[best(i)], cs[i])
  <2> DEFINE S == {d \in DOMAIN cs : Same(cs[d], cs[i])}
             short == {100 - cs[d].confidence : d \in S}
  <2>1. i \in S
    BY DEF Same
  <2>2. short \in SUBSET Nat /\ short # {}
    BY <2>1
  <2>3. PICK least \in short : \A x \in short : least <= x
    <3> HIDE DEF short
    <3> QED
      BY <2>2, FirstElement
  <2>4. PICK top \in S : least = 100 - cs[top].confidence
    BY <2>3
  <2>5. \A d \in S : cs[d].confidence <= cs[top].confidence
    <3>1. \A d \in S : 100 - cs[d].confidence \in short /\ cs[d].confidence \in 0 .. 100
      OBVIOUS
    <3> HIDE DEF short
    <3>2. \A d \in S : 100 - cs[top].confidence <= 100 - cs[d].confidence
      BY <2>3, <2>4, <3>1
    <3>3. cs[top].confidence \in Int /\ \A d \in S : cs[d].confidence \in Int
      BY <3>1
    <3> HIDE DEF S
    <3>4. QED
      BY <3>2, <3>3
  <2> DEFINE U == {d \in S : cs[d].confidence = cs[top].confidence}
  <2>6. U \in SUBSET Nat /\ U # {}
    BY <1>1, <2>4
  <2>7. PICK b \in U : \A d \in U : b <= d
    <3> HIDE DEF U
    <3> QED
      BY <2>6, FirstElement
  <2>8. b \in DOMAIN cs /\ isBest(i, b)
    <3>1. ASSUME NEW d \in S PROVE \/ cs[d].confidence < cs[b].confidence
                                   \/ cs[d].confidence = cs[b].confidence /\ b <= d
      <4>1. cs[b].confidence = cs[top].confidence /\ cs[b].confidence \in 0 .. 100
        BY <2>7
      <4>2. CASE d \in U
        BY <2>7, <4>1, <4>2
      <4>3. CASE d \notin U
        <5>1. cs[d].confidence # cs[top].confidence /\ cs[d].confidence <= cs[top].confidence
              /\ cs[d].confidence \in 0 .. 100
          BY <2>5, <4>3
        <5>2. QED
          BY <4>1, <5>1
      <4>4. QED
        BY <4>2, <4>3
    <3>2. QED
      BY <2>7, <3>1
  <2> HIDE DEF isBest
  <2>9. QED
    <3>1. best(i) \in DOMAIN cs /\ isBest(i, best(i))
      BY <2>8
    <3>2. QED
      BY <3>1 DEF isBest
<1>4. Dedupe(cs) = [k \in 1 .. N |-> cs[best(InOrder(first)[k])]]
  BY <1>2 DEF Dedupe
<1> HIDE DEF best, isBest
<1>5. ASSUME NEW c \in RangeOf(Dedupe(cs)) PROVE c \in RangeOf(cs)
  <2>1. PICK k \in 1 .. N : c = cs[best(InOrder(first)[k])]
    BY <1>4 DEF RangeOf
  <2>2. InOrder(first)[k] \in DOMAIN cs
    BY <1>2
  <2>3. QED
    BY <1>3, <2>1, <2>2 DEF RangeOf
<1>6. ASSUME NEW m \in DOMAIN cs PROVE \E c \in RangeOf(Dedupe(cs)) : Same(c, cs[m])
  <2> DEFINE S == {j \in DOMAIN cs : Same(cs[j], cs[m])}
  <2>1. S \in SUBSET Nat /\ S # {}
    BY <1>1 DEF Same
  <2>2. PICK i \in S : \A j \in S : i <= j
    <3> HIDE DEF S
    <3> QED
      BY <2>1, FirstElement
  <2>3. i \in first
    BY <1>1, <2>2 DEF Same
  <2>4. PICK k \in 1 .. N : InOrder(first)[k] = i
    BY <1>2, <2>3
  <2>5. Dedupe(cs)[k] \in RangeOf(Dedupe(cs)) /\ Dedupe(cs)[k] = cs[best(i)]
    BY <1>4, <2>4 DEF RangeOf
  <2>6. Same(cs[best(i)], cs[m])
    BY <1>3, <2>2 DEF Same
  <2>7. QED
    BY <2>5, <2>6
<1>7. QED
  BY <1>5, <1>6

\* What is planned is what is eligible, with its value and its page.
LEMMA PlannedListed ==
  ASSUME NEW s, Sequential(s), NEW f, \A i \in DOMAIN s : s[i].confidence \in 0 .. 100
  PROVE  /\ \A c \in RangeOf(PlannedCredentials(s, f)) : \E p \in DOMAIN Entries(s, f) :
               /\ Eligible(s, f, p)
               /\ c.value = Entries(s, f)[p].value /\ c.page = Entries(s, f)[p].page
         /\ \A p \in DOMAIN Entries(s, f) : Eligible(s, f, p) =>
               \E c \in RangeOf(PlannedCredentials(s, f)) :
                  c.value = Entries(s, f)[p].value /\ c.page = Entries(s, f)[p].page
<1> DEFINE entries == Entries(s, f)
           planned == CandidatesOf(s, f)
           J == {p \in DOMAIN planned : planned[p].status = "eligible"}
           cs == Those(planned, J)
<1>1. Sequential(entries)
  BY EntriesListed
<1>2. Sequential(planned) /\ DOMAIN planned = DOMAIN entries
  BY <1>1, MappedSequential DEF CandidatesOf
<1>3. \A p \in DOMAIN entries :
         /\ planned[p].value = entries[p].value /\ planned[p].page = entries[p].page
         /\ planned[p].confidence = entries[p].confidence
         /\ planned[p].status = "eligible" <=> Eligible(s, f, p)
  BY DEF CandidatesOf, Credential, Eligible
<1>4. \A p \in DOMAIN entries : entries[p].confidence \in 0 .. 100
  BY EntriesListed DEF EntryOf
<1>5. PlannedCredentials(s, f) = Dedupe(cs)
  BY DEF PlannedCredentials, CandidatesOf
<1> HIDE DEF planned, entries
<1>6. Sequential(cs) /\ RangeOf(cs) = {planned[p] : p \in J}
  BY <1>2, ThoseListed DEF Sequential
<1> HIDE DEF cs
<1>7. \A i \in DOMAIN cs : cs[i].confidence \in 0 .. 100
  <2> SUFFICES ASSUME NEW i \in DOMAIN cs PROVE cs[i].confidence \in 0 .. 100
    OBVIOUS
  <2>1. cs[i] \in RangeOf(cs)
    BY DEF RangeOf
  <2>2. QED
    BY <1>2, <1>3, <1>4, <1>6, <2>1
<1>8. /\ \A c \in RangeOf(Dedupe(cs)) : c \in RangeOf(cs)
      /\ \A m \in DOMAIN cs : \E c \in RangeOf(Dedupe(cs)) : Same(c, cs[m])
  BY <1>6, <1>7, DedupeKeeps
<1>9. ASSUME NEW c \in RangeOf(PlannedCredentials(s, f))
      PROVE  \E p \in DOMAIN entries :
                Eligible(s, f, p) /\ c.value = entries[p].value /\ c.page = entries[p].page
  <2>1. c \in RangeOf(cs)
    BY <1>5, <1>8
  <2>2. QED
    BY <1>2, <1>3, <1>6, <2>1
<1>10. ASSUME NEW p \in DOMAIN entries, Eligible(s, f, p)
       PROVE  \E c \in RangeOf(PlannedCredentials(s, f)) :
                 c.value = entries[p].value /\ c.page = entries[p].page
  <2>1. planned[p] \in RangeOf(cs)
    BY <1>2, <1>3, <1>6, <1>10
  <2>2. PICK m \in DOMAIN cs : cs[m] = planned[p]
    BY <2>1 DEF RangeOf
  <2>3. PICK c \in RangeOf(Dedupe(cs)) : Same(c, planned[p])
    BY <1>8, <2>2
  <2>4. QED
    BY <1>3, <1>5, <2>3 DEF Same
<1>11. QED
  BY <1>9, <1>10 DEF entries

\* A field has a confidence, and what is said of it comes with what was found.
ItemFields ==
    \A i \in DOMAIN items :
        /\ DOMAIN items[i] = {"id", "words", "matches", "value", "confidence", "page", "boxed",
                              "mandatory", "source", "intent", "important"}
        /\ items[i].confidence \in 0 .. 100

PlannedStay ==
    pc \in {"running", "done"} =>
        /\ RangeOf(PlannedCredentials(items, family)) \subseteq RangeOf(credentials)
        /\ \A c \in RangeOf(credentials) :
              c \in RangeOf(PlannedCredentials(items, family)) \/ c.value = Blank

AlikeInv == ReachInv /\ ItemFields /\ PlannedStay

LEMMA AlikePlanned ==
  ASSUME AlikeInv
  PROVE  AlikeFieldsAlikePlanned
<1> DEFINE nature(i) == [items[i] EXCEPT !.id = IdTokens[@], !.value = 0, !.page = 0]
           planned(i) == \E c \in RangeOf(credentials) :
                             c.value = items[i].value /\ c.page = items[i].page
           entries == Entries(items, family)
           P == PlannedCredentials(items, family)
<1>1. Sequential(items) /\ \A i \in DOMAIN items : items[i].confidence \in 0 .. 100
  BY DEF AlikeInv, ReachInv, PlanShape, ItemFields
<1>2. ASSUME JustPlanned, NEW i \in DOMAIN items, NEW j \in DOMAIN items,
             HasValueOfItsOwn(i), HasValueOfItsOwn(j), nature(i) = nature(j), planned(i)
      PROVE  planned(j)
  <2>1. /\ RangeOf(P) \subseteq RangeOf(credentials)
        /\ \A c \in RangeOf(credentials) : c \in RangeOf(P) \/ c.value = Blank
    BY <1>2 DEF JustPlanned, AlikeInv, PlannedStay
  <2>2. PICK c \in RangeOf(P) : c.value = items[i].value /\ c.page = items[i].page
    BY <1>2, <2>1 DEF HasValueOfItsOwn
  <2>3. PICK q \in DOMAIN entries : /\ Eligible(items, family, q)
                                    /\ c.value = entries[q].value /\ c.page = entries[q].page
    BY <1>1, <2>2, PlannedListed
  <2>4. PICK k \in DOMAIN items : entries[q] = EntryOf(items[k], family)
    BY <1>1, EntriesListed
  <2>5. k = i
    BY <1>2, <2>2, <2>3, <2>4 DEF EntryOf, HasValueOfItsOwn
  <2>6. PICK p \in DOMAIN entries : entries[p] = EntryOf(items[j], family)
    BY <1>1, <1>2, EntriesListed DEF HasValueOfItsOwn
  <2>7. /\ items[i].words = items[j].words /\ items[i].matches = items[j].matches
        /\ items[i].confidence = items[j].confidence /\ items[i].boxed = items[j].boxed
        /\ items[i].source = items[j].source /\ items[i].intent = items[j].intent
        /\ items[i].important = items[j].important
        /\ IdTokens[items[i].id] = IdTokens[items[j].id]
    <3>1. ASSUME NEW m \in DOMAIN items
          PROVE  /\ nature(m).words = items[m].words /\ nature(m).matches = items[m].matches
                 /\ nature(m).confidence = items[m].confidence
                 /\ nature(m).boxed = items[m].boxed
                 /\ nature(m).source = items[m].source /\ nature(m).intent = items[m].intent
                 /\ nature(m).important = items[m].important
                 /\ nature(m).id = IdTokens[items[m].id]
      BY DEF AlikeInv, ItemFields
    <3> HIDE DEF nature
    <3>2. QED
      BY <1>2, <3>1
  <2>8. SemanticKey(items[i], family) = SemanticKey(items[j], family)
    BY <2>7, KeyByNature
  <2>9. PlanningDecision(entries, q, family) = PlanningDecision(entries, p, family)
    <3>1. entries[q] = EntryOf(items[i], family)
      BY <2>4, <2>5
    <3>2. entries[q].value # Blank /\ entries[p].value # Blank
      BY <1>2, <2>6, <3>1 DEF EntryOf, HasValueOfItsOwn
    <3>3. /\ entries[q].words = entries[p].words /\ entries[q].matches = entries[p].matches
          /\ entries[q].confidence = entries[p].confidence
          /\ entries[q].boxed = entries[p].boxed /\ entries[q].source = entries[p].source
          /\ entries[q].intent = entries[p].intent /\ entries[q].important = entries[p].important
          /\ entries[q].key = entries[p].key
      BY <2>6, <2>7, <2>8, <3>1 DEF EntryOf
    <3> HIDE DEF entries
    <3>4. QED
      BY <3>2, <3>3, DecisionByNature
  <2>10. Eligible(items, family, p)
    BY <2>3, <2>9 DEF Eligible
  <2>11. PICK d \in RangeOf(P) : d.value = entries[p].value /\ d.page = entries[p].page
    BY <1>1, <2>10, PlannedListed
  <2>12. d.value = items[j].value /\ d.page = items[j].page
    BY <2>6, <2>11 DEF EntryOf
  <2>13. QED
    BY <2>1, <2>11, <2>12
<1> HIDE DEF planned
<1>3. QED
  BY <1>2 DEF AlikeFieldsAlikePlanned, planned

LEMMA DescribedFields ==
  ASSUME NEW e \in Field, NEW source, NEW intent, NEW important
  PROVE  /\ DOMAIN Described(e, source, intent, important) =
               {"id", "words", "matches", "value", "confidence", "page", "boxed",
                "mandatory", "source", "intent", "important"}
         /\ Described(e, source, intent, important).confidence \in 0 .. 100
  BY DEF Described, Field

LEMMA AlikeStep == AlikeInv /\ [Next]_vars => AlikeInv'
<1> SUFFICES ASSUME AlikeInv, [Next]_vars PROVE AlikeInv'
  OBVIOUS
<1>1. ReachInv'
  BY ReachStep DEF AlikeInv
<1>2. CASE KeepCandidates \/ FieldsNameClaims \/ GeminiNamesClaims
  <2>1. pc' = "grouping"
    BY <1>2 DEF KeepCandidates, FieldsNameClaims, GeminiNamesClaims, Discovered
  <2>2. \A n \in Nat : \A found \in UpTo(n, Fields) : \A i \in DOMAIN found : found[i] \in Field
    BY RunPlanningAssumption DEF UpTo
  <2>3. CASE KeepCandidates
    <3>1. PICK found \in Documents : items' = [i \in DOMAIN found |-> ByExtraction(found[i])]
      BY <2>3 DEF KeepCandidates, Discovered
    <3>2. \A i \in DOMAIN found : found[i] \in Field
      BY <2>2, RunPlanningAssumption DEF Documents
    <3>3. \A i \in DOMAIN found :
             /\ DOMAIN ByExtraction(found[i]) = {"id", "words", "matches", "value", "confidence", "page",
                    "boxed", "mandatory", "source", "intent", "important"}
             /\ ByExtraction(found[i]).confidence \in 0 .. 100
      BY <3>2, DescribedFields DEF ByExtraction
    <3>4. ItemFields'
      BY <3>1, <3>3 DEF ItemFields
    <3>5. QED
      BY <1>1, <2>1, <3>4 DEF AlikeInv, PlannedStay
  <2>4. CASE FieldsNameClaims
    <3>1. PICK found \in Documents : items' = [i \in DOMAIN found |-> ByLabel(found[i])]
      BY <2>4 DEF FieldsNameClaims, Discovered
    <3>2. \A i \in DOMAIN found : found[i] \in Field
      BY <2>2, RunPlanningAssumption DEF Documents
    <3>3. \A i \in DOMAIN found :
             /\ DOMAIN ByLabel(found[i]) = {"id", "words", "matches", "value", "confidence", "page",
                    "boxed", "mandatory", "source", "intent", "important"}
             /\ ByLabel(found[i]).confidence \in 0 .. 100
      BY <3>2, DescribedFields DEF ByLabel
    <3>4. ItemFields'
      BY <3>1, <3>3 DEF ItemFields
    <3>5. QED
      BY <1>1, <2>1, <3>4 DEF AlikeInv, PlannedStay
  <2>5. CASE GeminiNamesClaims
    <3>1. PICK found \in UpTo(MaxClaims, Fields) : \E d \in [DOMAIN found -> Descriptions] :
             items' = [i \in DOMAIN found |->
                          Described(found[i], d[i].source, d[i].intent, d[i].important)]
      BY <2>5 DEF GeminiNamesClaims, Discovered
    <3>2. \A i \in DOMAIN found : found[i] \in Field
      BY <2>2, RunPlanningAssumption
    <3>3. ItemFields'
      BY <3>1, <3>2, DescribedFields DEF ItemFields
    <3>4. QED
      BY <1>1, <2>1, <3>3 DEF AlikeInv, PlannedStay
  <2>6. QED
    BY <1>2, <2>3, <2>4, <2>5
<1>3. CASE PlanForRuntime
  <2> DEFINE planned == PlannedCredentials(items, family)
             grouped == [i \in DOMAIN tasks |-> DomainTask(tasks[i])]
  <2>1. UNCHANGED <<items, family>> /\ pc = "planning"
    BY <1>3 DEF PlanForRuntime, document
  <2>2. Sequential(planned) /\ Sequential(grouped)
    BY PlannedSequential, MappedSequential DEF AlikeInv, ReachInv, PlanShape
  <2>3. credentials' = WithReferenced(planned, grouped) \/ credentials' = planned
    BY <1>3 DEF PlanForRuntime
  <2>4. /\ RangeOf(planned) \subseteq RangeOf(credentials')
        /\ \A c \in RangeOf(credentials') : c \in RangeOf(planned) \/ c.value = Blank
    <3> HIDE DEF planned, grouped
    <3> QED
      BY <2>2, <2>3, ReferencedKnown
  <2>5. ItemFields' /\ PlannedStay'
    BY <2>1, <2>4 DEF AlikeInv, ItemFields, PlannedStay
  <2>6. QED
    BY <1>1, <2>5 DEF AlikeInv
<1>4. CASE GroupByType \/ GroupByGemini \/ PlanTasks \/ ExecuteByProvider \/ ExecuteManually
           \/ BuildBundles \/ UNCHANGED vars
  <2>1. /\ UNCHANGED <<items, family, credentials>>
        /\ pc' \in {"running", "done"} => pc \in {"running", "done"}
    BY <1>4 DEF GroupByType, GroupByGemini, Grouped, PlanTasks, ExecuteByProvider,
       ExecuteManually, Recorded, BuildBundles, document, vars
  <2>2. ItemFields' /\ PlannedStay'
    BY <2>1 DEF AlikeInv, ItemFields, PlannedStay
  <2>3. QED
    BY <1>1, <2>2 DEF AlikeInv
<1>5. QED
  BY <1>2, <1>3, <1>4 DEF Next

\* For documents of any number of fields, in any order: of two fields that differ in their
\* values and pages only, and in nothing that the planner reads in their ids, it makes
\* credentials of both or of neither (planner.py).
THEOREM AlikeFieldsAlwaysAlikePlanned == Spec => []AlikeFieldsAlikePlanned
<1>1. Init => AlikeInv
  BY ReachInitially DEF Init, AlikeInv, ItemFields, PlannedStay
<1>2. QED
  BY <1>1, AlikePlanned, AlikeStep, PTL DEF Spec
=============================================================================
