--------------------------- MODULE ProviderAttempts ---------------------------
(***************************************************************************)
(* What happens to one verification task after another: which providers    *)
(* there are, which of them is asked, what it answers and how the answer   *)
(* is recorded and traced.                                                 *)
(*   backend/app/verifier_providers/policies.py, registry.py   the mode    *)
(*   backend/app/verifier_providers/service.py     one attempt, its trace  *)
(*   backend/app/verifier_providers/http_client.py the outbound request    *)
(*   backend/app/verifier_providers/providers/*.py the answers             *)
(*   backend/app/verifier_execution/verifiers/base.py  the recorded result *)
(*   backend/app/verifier_execution/executor.py    the candidates of a task *)
(*                                                                         *)
(* A value of a document is a model value; those of LongValues have more   *)
(* characters than an outbound payload may carry.  The local store is      *)
(* known by the records that the route of a task reaches: any MaxRecords.  *)
(* academic_registry_http is identity_http for another kind of claim.      *)
(***************************************************************************)
EXTENDS Naturals, Sequences

CONSTANTS Contents,     \* values of credentials, up to normalisation
          LongValues,   \* those longer than max_string_chars
          NoValue,      \* a credential or a record without a value
          RetryBudget,  \* VERIFIER_PROVIDER_..._RETRY_BUDGET
          MaxTasks,     \* bound: tasks of the plan
          MaxRecords    \* bound: records the route of a task reaches

ASSUME ProviderAssumption ==
    /\ LongValues \subseteq Contents
    /\ NoValue \notin Contents
    /\ RetryBudget \in Nat
    /\ MaxTasks \in Nat
    /\ MaxRecords \in Nat

VARIABLES mode,        \* transition_config.provider_operating_mode
          registered,  \* keys of build_default_provider_registry()
          entry,       \* who executes the plan: the worker or POST /run
          task,        \* the task in execution
          candidates,  \* its provider candidates not tried yet
          current,     \* the provider an outbound request is for
          requests,    \* outbound requests of each task
          lastReply,   \* what became of the last of them
          recorded,    \* a VerificationTaskResult for each task executed
          traces,      \* runtime.traces
          failed,      \* runtime.error is set
          step         \* what the executor is about to do

attemptsVars == <<mode, registered, entry, task, candidates, current, requests,
          lastReply, recorded, traces, failed, step>>

Modes == {"DEMO_MOCK", "LOCAL_MOCK", "EXTERNAL_CONFIGURED", "LIVE_DISABLED",
          "MANUAL_ONLY"}
External == {"entra_verified_id", "identity_http"}
Providers == External \cup {"local_mock"}
Kinds == {"identity", "certificate", "address", "status"}
TaskIds == 1 .. MaxTasks
Truncated == <<"truncated">>   \* a value cut off, equal to none of the store

-----------------------------------------------------------------------------
(* The mode and the providers of a process, from its environment.          *)

\* A live provider overrides every request but a demonstration's or manual work.
OperatingMode(requested, live) ==
    IF live /\ requested \notin {"DEMO_MOCK", "MANUAL_ONLY"}
    THEN "EXTERNAL_CONFIGURED"
    ELSE IF requested \in Modes THEN requested ELSE "LIVE_DISABLED"

\* configured: enabled, with a base URL and among the enabled keys, or, for a
\* demonstration, demo_enabled and among the enabled keys.
Enabled(p, m, allowed, configured) ==
    IF p = "local_mock" THEN m # "MANUAL_ONLY"
    ELSE /\ p \in configured
         /\ m = "DEMO_MOCK" \/ (m = "EXTERNAL_CONFIGURED" /\ allowed)

Registry(m, allowed, configured) == {p \in Providers : Enabled(p, m, allowed, configured)}

\* Providers are registered, and so come to be candidates, in this order.
InOrderOfRegistry(ps) ==
    LET only(p) == IF p \in ps THEN <<p>> ELSE <<>>
    IN only("entra_verified_id") \o only("identity_http") \o only("local_mock")

\* The capabilities of a provider for the verifier and category of a claim.
Covers(p, kind) ==
    \/ kind \in {"identity", "certificate"} /\ p \in {"entra_verified_id", "local_mock"}
    \/ kind = "identity" /\ p = "identity_http"
    \/ kind = "address" /\ p = "local_mock"

ManualReview == <<"manual_review">>

CandidatesFor(kind) ==
    LET able == {p \in registered : Covers(p, kind)}
    IN  IF mode = "MANUAL_ONLY" \/ able = {} THEN ManualReview ELSE InOrderOfRegistry(able)

\* The graph knows no verifier for certificates, whatever the registry says.
CanAnswer(p, kind) ==
    /\ p \in registered
    /\ Covers(p, kind)
    /\ ~(entry = "run" /\ kind = "certificate")

-----------------------------------------------------------------------------
(* Answers.                                                                *)

Answer == [matched : BOOLEAN, mismatched : BOOLEAN, missing : BOOLEAN,
           review : BOOLEAN]
Says(matched, mismatched, missing, review) ==
    [matched |-> matched, mismatched |-> mismatched, missing |-> missing,
     review |-> review]
Nothing == Says(FALSE, FALSE, FALSE, FALSE)

Record == [label : BOOLEAN, value : Contents \cup {NoValue}]

\* _collect_local_record_candidates(): what the route of a task reaches.
Stores == {{f[i] : i \in 1 .. MaxRecords} : f \in [1 .. MaxRecords -> Record]}
          \cup {{}}

\* minimize_payload() of what is sent to a provider that takes no documents.
Minimized(v) == IF v \in LongValues THEN Truncated ELSE v

SameValue(v, w) == v # NoValue /\ w # NoValue /\ v = w

\* _match_local_record(): records of the label that hold another value
\* contradict the document when they agree with each other.
LocalAnswer(t, records) ==
    LET value == Minimized(t.value)
        others == {r.value : r \in {r \in records : r.label}} \ {NoValue}
    IN  IF records = {} THEN Says(FALSE, FALSE, TRUE, FALSE)
        ELSE IF \E r \in records : SameValue(value, r.value)
             THEN Says(TRUE, FALSE, FALSE, FALSE)
        ELSE IF \E w \in others : others = {w}
             THEN Says(FALSE, TRUE, FALSE, FALSE)
        ELSE Says(FALSE, FALSE, TRUE, TRUE)

\* A ProviderResponse: the answer, and what kind of result it claims to be.
Response(p, status, answer, answered) ==
    [provider |-> p, status |-> status, answer |-> answer,
     live |-> answered /\ p # "local_mock",
     mock |-> p = "local_mock",
     demo |-> mode = "DEMO_MOCK",
     outbound |-> IF p = "local_mock" \/ mode = "DEMO_MOCK"
                  THEN "LOCAL_ONLY" ELSE "HTTP_JSON"]

-----------------------------------------------------------------------------
(* Results and traces.                                                     *)

Result(audit, how, executed, live, mock, demo) ==
    [audit |-> audit, how |-> how, executed |-> executed, live |-> live,
     mock |-> mock, demo |-> demo]

AuditOf(answer) ==
    CASE answer.mismatched -> "MISMATCH"
      [] ~answer.mismatched /\ answer.matched ->
             IF answer.missing THEN "PARTIAL" ELSE "VERIFIED"
      [] OTHER -> IF answer.review THEN "MANUAL_REVIEW" ELSE "UNVERIFIED"

ExecutionMode(r) ==
    CASE r.provider = "local_mock" -> "LOCAL_MOCK"
      [] r.provider # "local_mock" /\ r.demo -> "DEMO_PROVIDER"
      [] OTHER -> IF r.live THEN "LIVE_PROVIDER" ELSE "PROVIDER"

EvidenceResult(r) ==
    Result(AuditOf(r.answer), ExecutionMode(r), r.provider, r.live, r.mock, r.demo)

\* Mutant: the result of the rules keeps the labels of the failed response.
FallbackKeepsLabels(r, audit) ==
    Result(audit, "RULE_ONLY_FALLBACK", r.provider, r.live, r.mock, r.demo)

\* execute_without_connector(): the rules of a verifier verify nothing, and
\* the executor enters the candidate as the provider that executed.
FallbackResult(r, audit) ==
    Result(audit, "RULE_ONLY_FALLBACK", r.provider, FALSE, FALSE, FALSE)

ConnectorResult(p, evidence) ==
    Result(IF evidence = "match" THEN "VERIFIED" ELSE "MISMATCH",
           "CONNECTOR_CLAIM", p, FALSE, FALSE, FALSE)

ManualResult(executed) ==
    Result("MANUAL_REVIEW", "MANUAL_REVIEW", executed, FALSE, FALSE, FALSE)

Trace(r, fallback) ==
    [task |-> Len(recorded) + 1, provider |-> r.provider, status |-> r.status,
     outbound |-> r.outbound, live |-> r.live, fallback |-> fallback]

Finish(result) ==
    /\ recorded' = Append(recorded, result)
    /\ step' = "next"

\* attempt_verification() and what _execute_via_provider() makes of it.
Answered(r) ==
    IF r.status = "SUCCESS"
    THEN /\ traces' = Append(traces, Trace(r, FALSE))
         /\ Finish(EvidenceResult(r))
    ELSE /\ traces' = Append(traces, Trace(r, TRUE))
         /\ \E audit \in {"PARTIAL", "UNVERIFIED", "MANUAL_REVIEW"} :
                Finish(FallbackResult(r, audit))

-----------------------------------------------------------------------------
NoTask == [kind |-> "status", value |-> NoValue]

AttemptsInit ==
    /\ \E requested \in Modes \cup {"unset"}, live \in BOOLEAN,
          allowed \in BOOLEAN, configured \in SUBSET External :
           /\ mode = OperatingMode(requested, live)
           /\ registered = Registry(OperatingMode(requested, live), allowed, configured)
    /\ entry \in {"worker", "run"}
    /\ task = NoTask
    /\ candidates = <<>>
    /\ current = "none"
    /\ requests = [t \in TaskIds |-> 0]
    /\ lastReply = "none"
    /\ recorded = <<>>
    /\ traces = <<>>
    /\ failed = FALSE
    /\ step = "next"

StartTask ==
    /\ step = "next"
    /\ Len(recorded) < MaxTasks
    /\ \E kind \in Kinds, value \in Contents \cup {NoValue} :
           /\ task' = [kind |-> kind, value |-> value]
           /\ candidates' = CandidatesFor(kind)
    /\ step' = "candidate"
    /\ current' = "none"
    /\ lastReply' = "none"
    /\ UNCHANGED <<mode, registered, entry, requests, recorded, traces, failed>>

TakeCandidate(p) ==
    /\ step = "candidate"
    /\ candidates # <<>>
    /\ p = Head(candidates)
    /\ candidates' = Tail(candidates)

SkipCandidate(p) ==
    /\ TakeCandidate(p)
    /\ p # "manual_review"
    /\ ~CanAnswer(p, task.kind)
    /\ UNCHANGED <<mode, registered, entry, task, current, requests, lastReply,
                   recorded, traces, failed, step>>

\* The verifier looks for a connector's evidence before it asks a provider;
\* connector responses reach the worker's verifiers only.
UseConnector(p) ==
    /\ TakeCandidate(p)
    /\ CanAnswer(p, task.kind)
    /\ entry = "worker"
    /\ \E evidence \in {"match", "mismatch"} : Finish(ConnectorResult(p, evidence))
    /\ UNCHANGED <<mode, registered, entry, task, current, requests, lastReply,
                   traces, failed>>

AskLocally(p) ==
    /\ TakeCandidate(p)
    /\ CanAnswer(p, task.kind)
    /\ \/ /\ p = "local_mock"
          /\ \E records \in Stores :
                 Answered(Response(p, "SUCCESS", LocalAnswer(task, records), FALSE))
       \/ /\ p # "local_mock"
          /\ mode = "DEMO_MOCK"
          /\ \E answer \in Answer : Answered(Response(p, "SUCCESS", answer, FALSE))
    /\ UNCHANGED <<mode, registered, entry, task, current, requests, lastReply, failed>>

\* A provider of the outside is asked; its host may not be on the allowlist, or
\* the request be too large, and then nothing is sent.
AskExternally(p) ==
    /\ TakeCandidate(p)
    /\ CanAnswer(p, task.kind)
    /\ p # "local_mock"
    /\ mode # "DEMO_MOCK"
    /\ \/ Answered(Response(p, "FAILED", Nothing, FALSE)) /\ UNCHANGED current
       \/ step' = "request" /\ current' = p /\ UNCHANGED <<recorded, traces>>
    /\ UNCHANGED <<mode, registered, entry, task, requests, lastReply, failed>>

TryManualReview ==
    /\ step = "candidate"
    /\ \/ candidates = <<>> /\ Finish(ManualResult("none"))
       \/ candidates = ManualReview /\ Finish(ManualResult("none"))
    /\ candidates' = <<>>
    /\ UNCHANGED <<mode, registered, entry, task, current, requests, lastReply,
                   traces, failed>>

-----------------------------------------------------------------------------
(* The request: post_json() and what execute() makes of its outcome.       *)

Replies == {"ok", "refused", "server_error", "unreadable", "timeout",
            "network_error", "broken"}

\* Mutant: a client error is tried again, too.
RepeatedWhenRefused(reply) ==
    reply \in {"refused", "server_error", "timeout", "network_error"}

\* A request is repeated after these, as long as the budget lasts.
Repeated(reply) == reply \in {"server_error", "timeout", "network_error"}

Attempts == requests[Len(recorded) + 1]

\* What a request ends with; the payload of an answer may name a technical
\* status of its own.
Outcome(reply, status, answer, answered) ==
    \/ reply = "ok" /\ answered
    \/ /\ reply # "ok"
       /\ status = (IF reply = "timeout" THEN "TIMEOUT" ELSE "FAILED")
       /\ answer = Nothing
       /\ answered = (reply \in {"refused", "server_error"})

SendRequest(reply) ==
    /\ step = "request"
    /\ requests' = [requests EXCEPT ![Len(recorded) + 1] = @ + 1]
    /\ lastReply' = reply
    /\ IF Repeated(reply) /\ Attempts < RetryBudget
       THEN UNCHANGED <<recorded, traces, step>>
       ELSE \E status \in {"SUCCESS", "FAILED", "TIMEOUT"}, answer \in Answer,
               answered \in BOOLEAN :
                   /\ Outcome(reply, status, answer, answered)
                   /\ Answered(Response(current, status, answer, answered))
    /\ failed' = (failed \/ reply = "broken")
    /\ UNCHANGED <<mode, registered, entry, task, candidates, current>>

AttemptsNext ==
    \/ StartTask
    \/ TryManualReview
    \/ \E p \in Providers :
           SkipCandidate(p) \/ UseConnector(p) \/ AskLocally(p) \/ AskExternally(p)
    \/ \E reply \in Replies : SendRequest(reply)

AttemptsSpec == AttemptsInit /\ [][AttemptsNext]_attemptsVars

-----------------------------------------------------------------------------
Finished == DOMAIN recorded
TracesOf(t) == {traces[i] : i \in {i \in DOMAIN traces : traces[i].task = t}}

\* A result that says it is live rests on an answer that a configured provider
\* gave over the network and that counted as a success; local and demonstration
\* evidence says what it is (base.py, generic_http_json.py).
LiveIsEvidence ==
    \A t \in Finished :
        /\ recorded[t].live =>
               /\ mode = "EXTERNAL_CONFIGURED"
               /\ requests[t] > 0
               /\ \E trace \in TracesOf(t) :
                      /\ trace.provider = recorded[t].executed
                      /\ trace.status = "SUCCESS"
        /\ recorded[t].how = "LOCAL_MOCK" => recorded[t].mock
        /\ recorded[t].how = "DEMO_PROVIDER" => recorded[t].demo

\* No task is sent to a provider again after an answer that settles it, nor more
\* often than the budget allows (http_client.py).
SettledOnce ==
    [][\A t \in TaskIds : requests'[t] # requests[t] =>
           /\ t = Len(recorded) + 1
           /\ requests'[t] <= RetryBudget + 1
           /\ requests[t] > 0 =>
                  lastReply \in {"server_error", "timeout", "network_error"}]_attemptsVars

=============================================================================
