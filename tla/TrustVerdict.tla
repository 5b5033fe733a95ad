----------------------------- MODULE TrustVerdict -----------------------------
(***************************************************************************)
(* From a verification plan to the colour of a document.                   *)
(*   backend/app/verifier_execution/executor.py  the loop over the tasks and *)
(*                                    the provider candidates of each       *)
(*   backend/app/verifier_execution/verifiers/base.py  what an answer means *)
(*   backend/app/trust/findings.py    a finding for each claim              *)
(*   backend/app/trust/trust_engine.py, backend/app/agent_orchestration/    *)
(*   graph.py                         the two callers, and the verdict      *)
(*                                                                          *)
(* The worker hands the task results to evaluate_trust() as they are; the   *)
(* /run graph turns each into a VerifierResult first, which carries the      *)
(* audit status in another field.  A confidence is a level, a matched or     *)
(* mismatched field is whether there is one.                                 *)
(***************************************************************************)
EXTENDS Naturals, Sequences

CONSTANTS Claims,           \* field ids
          OtherCredentials, \* ids of credentials that are no field id
          RequiredFields,   \* of build_policy(): four fields, always
          Providers,
          ManualReview,     \* the candidate "manual_review"
          MaxTasks,         \* bound: tasks of the plan
          MaxCandidates,    \* bound: provider candidates of a task
          MaxConfidence     \* bound: levels of confidence

ASSUME TrustAssumption ==
    /\ RequiredFields \subseteq Claims
    /\ MaxTasks \in Nat
    /\ MaxCandidates \in Nat
    /\ MaxConfidence \in Nat

VARIABLES entry,        \* who asks: the worker's pipeline or the /run graph
          claims,       \* the claims of the document, by field id
          unsafe,       \* document_understanding.unsafe_or_malformed (graph only)
          tasks,        \* the plan: the credential_id of each task
          candidates,   \* of the task being executed, those not tried yet
          pc,
          results,      \* a VerificationTaskResult for each task executed
          decisions,    \* the colour of each claim
          verdict

inputs == <<entry, claims, unsafe, tasks>>
vars == <<inputs, candidates, pc, results, decisions, verdict>>

-----------------------------------------------------------------------------

Entries == {"worker", "run"}
Credentials == Claims \cup OtherCredentials
Claim == [mandatory : BOOLEAN, has_extracted_value : BOOLEAN]
AuditStatus == {"VERIFIED", "MISMATCH", "PARTIAL", "UNVERIFIED", "MANUAL_REVIEW"}
Confidence == 0..MaxConfidence
Colours == {"GREEN", "AMBER", "RED"}
UpTo(n, S) == UNION {[1..k -> S] : k \in 0..n}

VerificationTaskResult ==
    [credential_id : Credentials, matched_fields : BOOLEAN,
     mismatched_fields : BOOLEAN, audit_status : AuditStatus, confidence : Confidence]

TypeOK ==
    /\ entry \in Entries
    /\ claims \in UNION {[S -> Claim] : S \in SUBSET Claims}
    /\ unsafe \in BOOLEAN
    /\ tasks \in Seq(Credentials)
    /\ candidates \in Seq(Providers \cup {ManualReview})
    /\ pc \in {"next_task", "direct", "trying", "fused", "decided"}
    /\ results \in Seq(VerificationTaskResult)
    /\ decisions \in UNION {[S -> Colours] : S \in SUBSET Claims}
    /\ verdict \in Colours \cup {"none"}

\* The worker's claims are the extracted fields and the policy's required ones; the
\* graph normalises the extracted fields.  Extraction yields one at least.
Init ==
    /\ entry \in Entries
    /\ claims \in UNION {[S -> Claim] : S \in SUBSET Claims}
    /\ DOMAIN claims # {}
    /\ entry = "worker" =>
          \A c \in RequiredFields : c \in DOMAIN claims /\ claims[c].mandatory
    /\ unsafe \in BOOLEAN /\ (unsafe => entry = "run")
    /\ tasks \in UpTo(MaxTasks, Credentials)
    /\ candidates = <<>>
    /\ pc = "next_task"
    /\ results = <<>>
    /\ decisions = <<>>
    /\ verdict = "none"

-----------------------------------------------------------------------------
(* Executing the plan                                                      *)

TasksLeft == Len(results) < Len(tasks)
Task == tasks[Len(results) + 1]

\* execute_plan() comes to its next task: with provider candidates, or without.
StartTask ==
    /\ pc = "next_task" /\ TasksLeft
    /\ candidates' \in UpTo(MaxCandidates, Providers \cup {ManualReview})
    /\ pc' = IF candidates' = <<>> THEN "direct" ELSE "trying"
    /\ UNCHANGED <<inputs, results, decisions, verdict>>

\* The result of the task, and on to the next one.
Record(matched, mismatched, audit, confidence) ==
    /\ results' = Append(results,
          [credential_id |-> Task, matched_fields |-> matched,
           mismatched_fields |-> mismatched, audit_status |-> audit,
           confidence |-> confidence])
    /\ candidates' = <<>>
    /\ pc' = "next_task"
    /\ UNCHANGED <<inputs, decisions, verdict>>

\* ManualReviewVerifier.execute(), and the results the executor makes up itself.
RecordManualReview ==
    \E confidence \in Confidence :
        Record(FALSE, FALSE, "MANUAL_REVIEW", confidence)

\* What a provider's technically successful answer says of the credential.
AuditOf(matched, mismatched, missing, manual) ==
    IF mismatched THEN "MISMATCH"
    ELSE IF matched /\ missing THEN "PARTIAL"
    ELSE IF matched THEN "VERIFIED"
    ELSE IF manual THEN "MANUAL_REVIEW"
    ELSE "UNVERIFIED"

\* ConnectorAwareVerifier.execute(): the provider's answer, or the rule-only result
\* when the provider is not available or failed.
VerifierAnswers ==
    \E confidence \in Confidence :
       \/ \E matched, mismatched, missing, manual \in BOOLEAN :
             Record(matched, mismatched,
                    AuditOf(matched, mismatched, missing, manual), confidence)
       \/ \E audit \in {"PARTIAL", "MANUAL_REVIEW"} :
             Record(FALSE, FALSE, audit, confidence)

\* A task without candidates: its verifier answers, or it is missing or raises, or
\* the credential is not in the collection.
ExecuteDirectly ==
    /\ pc = "direct"
    /\ VerifierAnswers \/ RecordManualReview

Candidate == Head(candidates)

TryManualReview ==
    /\ pc = "trying" /\ candidates # <<>> /\ Candidate = ManualReview
    /\ RecordManualReview

\* The candidate is not registered, does not support the category, or raises.
SkipCandidate ==
    /\ pc = "trying" /\ candidates # <<>> /\ Candidate # ManualReview
    /\ candidates' = Tail(candidates)
    /\ UNCHANGED <<inputs, pc, results, decisions, verdict>>

CandidateAnswers ==
    /\ pc = "trying" /\ candidates # <<>> /\ Candidate # ManualReview
    /\ VerifierAnswers

\* No candidate answered.
CandidatesExhausted ==
    /\ pc = "trying" /\ candidates = <<>>
    /\ RecordManualReview

-----------------------------------------------------------------------------
(* Findings                                                                *)

Own(c) == {i \in DOMAIN results : results[i].credential_id = c}

\* Mutant: the results of other credentials always count.
ResultsForAny(c) == DOMAIN results

\* _best_result_for_claim(): the results for the claim, else all of them, those of
\* other credentials.
ResultsFor(c) == IF Own(c) # {} THEN Own(c) ELSE DOMAIN results

\* Mutant: a mismatch does not come first.
AuditPriorityVerifiedFirst(r) ==
    IF entry = "run" THEN 1
    ELSE CASE r.audit_status = "VERIFIED" -> 4
           [] r.audit_status = "MISMATCH" -> 3
           [] r.audit_status \in {"PARTIAL", "UNVERIFIED"} -> 2
           [] r.audit_status = "MANUAL_REVIEW" -> 1

\* Mutant: a verified and a mismatched result rank the same.
AuditPriorityDecisive(r) ==
    IF entry = "run" THEN 1
    ELSE CASE r.audit_status \in {"MISMATCH", "VERIFIED"} -> 3
           [] r.audit_status \in {"PARTIAL", "UNVERIFIED"} -> 2
           [] r.audit_status = "MANUAL_REVIEW" -> 1

\* _result_priority(): it reads audit_status and outcome_color, which the results of
\* the graph do not have: _canonical_result_from_verifier() calls it status.
AuditPriority(r) ==
    IF entry = "run" THEN 1
    ELSE CASE r.audit_status = "MISMATCH" -> 4
           [] r.audit_status = "VERIFIED" -> 3
           [] r.audit_status \in {"PARTIAL", "UNVERIFIED"} -> 2
           [] r.audit_status = "MANUAL_REVIEW" -> 1

\* The tuples (priority, confidence) in their lexicographic order.
Outranks(r, q) ==
    \/ AuditPriority(r) > AuditPriority(q)
    \/ AuditPriority(r) = AuditPriority(q) /\ r.confidence > q.confidence

\* The results max() may return, and the one it does: the first.
Best(c) == {i \in ResultsFor(c) :
               \A j \in ResultsFor(c) : ~Outranks(results[j], results[i])}
BestResult(c) == results[CHOOSE i \in Best(c) : \A j \in Best(c) : i <= j]

ColourOf(r) ==
    CASE r.audit_status = "MISMATCH" -> "RED"
      [] r.audit_status = "VERIFIED" -> "GREEN"
      [] OTHER -> "AMBER"

\* _is_required_claim_missing().
Missing(c) == claims[c].mandatory /\ ~claims[c].has_extracted_value

\* _status_and_reasons().
Finding(c) ==
    IF Missing(c) \/ results = <<>> THEN "AMBER" ELSE ColourOf(BestResult(c))

Findings == [c \in DOMAIN claims |-> Finding(c)]

\* RED > AMBER > GREEN.
Worst(colours) ==
    IF "RED" \in colours THEN "RED"
    ELSE IF "AMBER" \in colours THEN "AMBER" ELSE "GREEN"

Outcome(found) == Worst({found[c] : c \in DOMAIN found})

-----------------------------------------------------------------------------
(* The verdict                                                             *)

PlanExecuted == pc = "next_task" /\ ~TasksLeft

\* evaluate_trust() on task results: the canonical findings and their verdict.
EvaluateTrust ==
    /\ PlanExecuted /\ entry = "worker" /\ results # <<>>
    /\ decisions' = Findings
    /\ verdict' = Outcome(decisions')
    /\ pc' = "decided"
    /\ UNCHANGED <<inputs, candidates, results>>

\* evaluate_trust() without any: the findings are the canonical ones, the verdict is
\* that of determine_field_decision(), by the confidence of the extraction alone.
\* It stays under 0.80, and a required field without a value is RED.
EvaluateWithoutResults ==
    /\ PlanExecuted /\ entry = "worker" /\ results = <<>>
    /\ decisions' = Findings
    /\ \E decided \in [DOMAIN claims -> {"AMBER", "RED"}] :
          /\ \A c \in DOMAIN claims : Missing(c) => decided[c] = "RED"
          /\ verdict' = Outcome(decided)
    /\ pc' = "decided"
    /\ UNCHANGED <<inputs, candidates, results>>

\* _gemini_confidence_fusion().
Fuse ==
    /\ PlanExecuted /\ entry = "run"
    /\ decisions' = IF unsafe THEN [c \in DOMAIN claims |-> "RED"] ELSE Findings
    /\ pc' = "fused"
    /\ UNCHANGED <<inputs, candidates, results, verdict>>

\* _policy_verdict(), build_final_verdict().
PolicyVerdict ==
    /\ pc = "fused"
    /\ verdict' = IF unsafe THEN "RED" ELSE Outcome(decisions)
    /\ pc' = "decided"
    /\ UNCHANGED <<inputs, candidates, results, decisions>>

Next ==
    \/ StartTask \/ ExecuteDirectly
    \/ TryManualReview \/ SkipCandidate \/ CandidateAnswers \/ CandidatesExhausted
    \/ EvaluateTrust \/ EvaluateWithoutResults
    \/ Fuse \/ PolicyVerdict

Spec == Init /\ [][Next]_vars

-----------------------------------------------------------------------------
(* Properties                                                              *)

Matching(i) == results[i].matched_fields /\ ~results[i].mismatched_fields
Contradicted(c) == \E i \in ResultsFor(c) : results[i].mismatched_fields

\* A GREEN document has a value for each required claim, and a claim that was verified
\* has a provider's matching answer of its own: another credential's does not make up
\* for it.  A claim that nobody verified is GREEN by the match of another credential,
\* which is all that the code asks for: never by a confidence, a fallback among the
\* candidates or a manual review alone.
GreenIsBacked ==
    verdict = "GREEN" =>
        \A c \in DOMAIN claims :
            /\ ~Missing(c)
            /\ Own(c) # {} => \E i \in Own(c) : Matching(i)
            /\ \E i \in DOMAIN results : Matching(i)

\* "GREEN requires verifier-backed evidence" and "GREEN is allowed only when all
\* required claims are GREEN with verifier-backed evidence": a provider's matching
\* answer to the claim itself.  The code does not keep this, as a claim without a
\* result of its own takes the best of all (findings.py:393-394): TLC refutes it.
GreenIsVerified ==
    verdict = "GREEN" =>
        \A c \in DOMAIN claims : claims[c].mandatory => \E i \in Own(c) : Matching(i)

\* In the worker, one contradicting answer among the results that count for a claim
\* makes the document RED, however many and however confident those that match.
WorkerContradictionIsRed ==
    entry = "worker" /\ verdict # "none" =>
        \A c \in DOMAIN claims : ~Missing(c) /\ Contradicted(c) => verdict = "RED"

\* A RED document is unsafe, or an answer contradicts it, or nothing was verified.
RedIsExplained ==
    verdict = "RED" =>
        \/ unsafe
        \/ entry = "worker" /\ results = <<>>
        \/ \E c \in DOMAIN claims : Contradicted(c)

\* The worker's verdict does not depend on the order of the plan: results that rank
\* the same for a claim give it the same colour.
VerdictIgnoresOrder ==
    entry = "worker" =>
        \A c \in DOMAIN claims : \A i, j \in Best(c) :
            ColourOf(results[i]) = ColourOf(results[j])

\* "RED covers provider mismatch" and "Any RED claim makes the document RED", said of
\* every verdict.
ContradictionIsRed ==
    verdict # "none" =>
        \A c \in DOMAIN claims : ~Missing(c) /\ Contradicted(c) => verdict = "RED"
=============================================================================
