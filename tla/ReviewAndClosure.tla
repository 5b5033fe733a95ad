--------------------------- MODULE ReviewAndClosure ---------------------------
(***************************************************************************)
(* What follows the verification of a session: review decisions, repeated  *)
(* and competing ones, and requests to close the session, which purge the   *)
(* document.  The verification itself goes on concurrently, as its abstract *)
(* specification VerificationOwnership.                                     *)
(*   backend/app/api/routes.py            the review-decision route         *)
(*   backend/app/workflow/runtime.py      close_session                     *)
(*   backend/app/workflow/repository.py   transition_state                  *)
(*   backend/app/audit/service.py         upsert_final_review_receipt       *)
(*   backend/app/cleanup/controller.py    the purge_tracking record         *)
(* As in VerificationExecution, transition_state() is a SELECT and a guarded*)
(* UPDATE, and the UPDATE and the COMMIT that follows it are one action.    *)
(***************************************************************************)
EXTENDS Naturals, Sequences, SessionStates

CONSTANTS Executors, NoExecutor,   \* of VerificationOwnership
          Reviews,          \* review-decision requests, each served once
          Closes,           \* close requests, each served once
          SidecarReadFails, \* the security sidecar may be unreadable at its purge
          MaxAttempts,      \* bound: verification attempts
          MaxFaults         \* bound: requests killed or losing the database

Requests == Reviews \cup Closes

ASSUME RequestsAssumption ==
    /\ Reviews \cap Closes = {}
    /\ NoExecutor \notin Executors
    /\ SidecarReadFails \in BOOLEAN
    /\ MaxAttempts \in Nat
    /\ MaxFaults \in Nat

VARIABLES status, owner, attempts, verdict,   \* of VerificationOwnership
          receipts,     \* the committed rows of audit_receipts, oldest first
          receipt_id,   \* audit_receipt_id of the row: an index, 0 is NULL
          decided,      \* the reviewer's decision (history)
          traces,       \* files of the upload and sensitive columns of the row
          purge_status, \* of the row
          purges,       \* the committed rows of purge_tracking
          pc,           \* where each request is, at the end its answer
          seen,         \* the status its last SELECT returned
          choice,       \* the decision a review asks for
          faults        \* faults so far (bound)

verificationVars == <<status, owner, attempts, verdict>>
receiptVars == <<receipts, receipt_id, decided>>
purgeVars == <<traces, purge_status, purges>>
requestVars == <<pc, seen, choice>>
vars == <<verificationVars, receiptVars, purgeVars, requestVars, faults>>

Verification == INSTANCE VerificationOwnership

-----------------------------------------------------------------------------

Files == {"quarantine", "sidecar", "file"}
Columns == {"file_path", "workspace_payload"}

\* The answers: 200, 409, 500 because the table refuses the transition, other 500.
Answers == {"ok", "conflict", "refused", "error"}

\* A close request past its claim, before its last commit.
Purging == {"quarantine", "sidecar", "file", "finishing", "completing",
            "failing", "recording"}

Places == {"idle", "repeating", "deciding", "committing", "claiming"} \cup Purging \cup Answers

Receipt == [trust_outcome : Nat, reviewer_decision : Decisions \cup {"NULL"}]

TypeOK ==
    /\ Verification!TypeOK
    /\ receipts \in Seq(Receipt)
    /\ receipt_id \in Nat
    /\ decided \in Decisions \cup {"NULL"}
    /\ traces \subseteq Files \cup Columns
    /\ purge_status \in {"NULL", "IN_PROGRESS", "COMPLETED", "FAILED"}
    /\ purges \in Seq({"IN_PROGRESS", "COMPLETED", "FAILED"})
    /\ pc \in [Requests -> Places]
    /\ seen \in [Requests -> SessionState]
    /\ choice \in [Reviews -> Decisions]
    /\ faults \in Nat

\* A session just uploaded, its PDF as it was or flattened with the original in
\* quarantine, or one an earlier version left in a VERIFIED_ state.
Init ==
    /\ Verification!Init
    /\ receipts = IF verdict = 0 THEN <<>>
                  ELSE <<[trust_outcome |-> verdict, reviewer_decision |-> "NULL"]>>
    /\ receipt_id = Len(receipts)
    /\ decided = "NULL"
    /\ traces \in {{"file", "file_path"}, Files \cup {"file_path"}}
    /\ purge_status = "NULL"
    /\ purges = <<>>
    /\ pc = [x \in Requests |-> "idle"]
    /\ seen = [x \in Requests |-> "CREATED"]
    /\ choice \in [Reviews -> Decisions]
    /\ faults = 0

Goes(x, place) == pc' = [pc EXCEPT ![x] = place]

\* The SELECT of transition_state(): the transition is admitted, or it raises.
Select(x, new, next, otherwise) ==
    /\ seen' = [seen EXCEPT ![x] = status]
    /\ \/ /\ ValidTransition(status, new)
          /\ Goes(x, next)
       \/ /\ ~ValidTransition(status, new)
          /\ Goes(x, otherwise)

-----------------------------------------------------------------------------
(* The verification of the session                                         *)

\* A bundle of the attempt in progress becomes durable, at most one of each.
BundleCommitted ==
    /\ owner # NoExecutor
    /\ \A i \in DOMAIN receipts : receipts[i].trust_outcome # attempts
    /\ receipts' = Append(receipts, [trust_outcome |-> attempts,
                                     reviewer_decision |-> "NULL"])

\* The verdict is published: the row names the receipt of its attempt, if there
\* is one, and a /run request has stored the workspace.
Published ==
    /\ receipt_id' \in IF receipts' # <<>> /\ receipts'[Len(receipts')].trust_outcome = attempts
                       THEN {Len(receipts')}
                       ELSE {receipt_id}
    /\ traces' \in {traces, traces \cup {"workspace_payload"}}

Verify ==
    /\ \/ Verification!Publish \/ Verification!Fail \/ Verification!Abandon
       \/ Verification!Lose
       \/ attempts < MaxAttempts /\ \E e \in Executors : Verification!Begin(e)
    /\ BundleCommitted \/ UNCHANGED receipts
    /\ \/ verdict' # 0 /\ Published
       \/ verdict' = 0 /\ UNCHANGED <<receipt_id, traces>>
    /\ UNCHANGED <<decided, purge_status, purges, requestVars, faults>>

\* The heartbeat thread commits the bundle of its pipeline.
CommitBundle ==
    /\ BundleCommitted
    /\ UNCHANGED <<verificationVars, receipt_id, decided, purgeVars, requestVars, faults>>

-----------------------------------------------------------------------------
(* Review decisions                                                        *)

\* Mutant: every final state answers for the decision asked.
ReadForReviewOfAnyDecision(r) ==
    /\ pc[r] = "idle"
    /\ seen' = [seen EXCEPT ![r] = status]
    /\ \/ status \in HUMAN_FINAL_STATES /\ Goes(r, "repeating")
       \/ status \in Reviewable /\ Goes(r, "deciding")
    /\ UNCHANGED <<verificationVars, receiptVars, purgeVars, choice, faults>>

\* The route reads the session: it repeats a decision already taken, goes on to
\* decide, or the session is not ready for review.
ReadForReview(r) ==
    /\ pc[r] = "idle"
    /\ seen' = [seen EXCEPT ![r] = status]
    /\ \/ /\ status = FinalState[choice[r]]
          /\ Goes(r, "repeating")
       \/ /\ status \in Reviewable
          /\ Goes(r, "deciding")
       \/ /\ status \notin Reviewable \cup {FinalState[choice[r]]}
          /\ Goes(r, "conflict")
    /\ UNCHANGED <<verificationVars, receiptVars, purgeVars, choice, faults>>

\* upsert_final_review_receipt(): the latest receipt takes the decision.
UpsertReceipt(decision) ==
    LET last == [trust_outcome |-> verdict, reviewer_decision |-> decision]
    IN  /\ receipts' = IF receipts = <<>>
                       THEN <<last>>
                       ELSE [receipts EXCEPT ![Len(receipts)] = last]
        /\ receipt_id' = IF receipts = <<>> THEN 1 ELSE Len(receipts)

\* A repeated decision writes the receipt again, whatever the status is by now.
RepeatDecision(r) ==
    /\ pc[r] = "repeating"
    /\ UpsertReceipt(choice[r])
    /\ Goes(r, "ok")
    /\ UNCHANGED <<verificationVars, decided, purgeVars, seen, choice, faults>>

\* transition_state() to the final state, from a legacy state by way of
\* PENDING_HUMAN_REVIEW within the same transaction.
SelectForDecision(r) ==
    /\ pc[r] = "deciding"
    /\ Select(r, IF seen[r] \in VERIFIED_STATES
                 THEN "PENDING_HUMAN_REVIEW"
                 ELSE FinalState[choice[r]], "committing", "conflict")
    /\ UNCHANGED <<verificationVars, receiptVars, purgeVars, choice, faults>>

CommitDecision(r) ==
    /\ pc[r] = "committing"
    /\ \/ /\ status = seen[r]
          /\ status' = FinalState[choice[r]]
          /\ decided' = choice[r]
          /\ UpsertReceipt(choice[r])
          /\ Goes(r, "ok")
       \/ /\ status # seen[r]
          /\ Goes(r, "conflict")
          /\ UNCHANGED <<status, receiptVars>>
    /\ UNCHANGED <<owner, attempts, verdict, purgeVars, seen, choice, faults>>

-----------------------------------------------------------------------------
(* Closing the session                                                     *)

\* start_cleanup() is flushed, and transition_state() reads the status.
ReadForClose(c) ==
    /\ pc[c] = "idle"
    /\ Select(c, "PENDING_CLEANUP", "claiming", "refused")
    /\ UNCHANGED <<verificationVars, receiptVars, purgeVars, choice, faults>>

\* The claim and the purge_tracking record are committed together.
ClaimForClose(c) ==
    /\ pc[c] = "claiming"
    /\ \/ /\ status = seen[c]
          /\ status' = "PENDING_CLEANUP"
          /\ purge_status' = "IN_PROGRESS"
          /\ purges' = Append(purges, "IN_PROGRESS")
          /\ Goes(c, "quarantine")
       \/ /\ status # seen[c]
          /\ Goes(c, "refused")
          /\ UNCHANGED <<status, purge_status, purges>>
    /\ UNCHANGED <<owner, attempts, verdict, receiptVars, traces, seen, choice, faults>>

\* Mutant: the PDF itself is forgotten.
NextDeletionSkipsFile(place) ==
    CASE place = "quarantine" -> "sidecar"
      [] place = "sidecar" -> "finishing"
      [] place = "file" -> "finishing"

\* The order of _delete_pdf_security_artifacts() and close_session().
NextDeletion(place) ==
    CASE place = "quarantine" -> "sidecar"
      [] place = "sidecar" -> "file"
      [] place = "file" -> "finishing"

\* A file is deleted if it is there.  The name of the quarantined original is in
\* the sidecar: when the sidecar cannot be read the original is passed over.
DeleteFile(c) ==
    /\ pc[c] \in Files
    /\ \/ /\ pc[c] = "quarantine" => "sidecar" \in traces
          /\ traces' = traces \ {pc[c]}
       \/ /\ pc[c] = "quarantine"
          /\ SidecarReadFails \/ "sidecar" \notin traces
          /\ UNCHANGED traces
    /\ Goes(c, NextDeletion(pc[c]))
    /\ UNCHANGED <<verificationVars, receiptVars, purge_status, purges, seen, choice, faults>>

\* unlink() raises: the except branch is next.
PurgeRaises(c) ==
    /\ pc[c] \in Files
    /\ Goes(c, "failing")
    /\ UNCHANGED <<verificationVars, receiptVars, purgeVars, seen, choice, faults>>

\* A statement of the purge or of its except branch fails.  The except branch does
\* not roll back: it can go on after a statement that failed alone, while a failed
\* flush or transaction makes its own transition raise, and nothing is recorded.
PurgeLosesDatabase(c) ==
    /\ pc[c] \in {"finishing", "completing", "failing", "recording"}
    /\ \/ Goes(c, "error")
       \/ pc[c] \in {"finishing", "completing"} /\ Goes(c, "failing")
    /\ UNCHANGED <<verificationVars, receiptVars, purgeVars, seen, choice, faults>>

ReadForFinish(c) ==
    /\ pc[c] = "finishing"
    /\ Select(c, "PURGE_COMPLETE", "completing", "failing")
    /\ UNCHANGED <<verificationVars, receiptVars, purgeVars, choice, faults>>

\* Records the end of a purge: complete_cleanup() and fail_cleanup() update the
\* latest record of the session, if there is one.
EndPurge(c, new, outcome) ==
    /\ status' = new
    /\ purge_status' = outcome
    /\ purges' = IF purges = <<>> THEN purges
                 ELSE [purges EXCEPT ![Len(purges)] = outcome]
    /\ Goes(c, "ok")
    /\ UNCHANGED <<owner, attempts, verdict, receiptVars, seen, choice, faults>>

\* Mutant: the columns added last are not in SENSITIVE_SESSION_CLEANUP_VALUES.
FinishPurgeKeepsWorkspace(c) ==
    /\ pc[c] = "completing"
    /\ status = seen[c]
    /\ traces' = traces \ {"file_path"}
    /\ EndPurge(c, "PURGE_COMPLETE", "COMPLETED")

\* The sensitive columns are cleared in the statement that reports completion; when
\* it finds another status it raises, and the except branch is next.
FinishPurge(c) ==
    /\ pc[c] = "completing"
    /\ \/ /\ status = seen[c]
          /\ traces' = traces \ Columns
          /\ EndPurge(c, "PURGE_COMPLETE", "COMPLETED")
       \/ /\ status # seen[c]
          /\ Goes(c, "failing")
          /\ UNCHANGED <<verificationVars, receiptVars, purgeVars, seen, choice, faults>>

\* The SELECT of the except branch: the answer is 500 when the table refuses.
ReadForFailedPurge(c) ==
    /\ pc[c] = "failing"
    /\ Select(c, "FAILED_PURGED", "recording", "refused")
    /\ UNCHANGED <<verificationVars, receiptVars, purgeVars, choice, faults>>

\* Mutant: fail_cleanup() is forgotten.
RecordFailedPurgeWithoutRecord(c) ==
    /\ pc[c] = "recording"
    /\ status = seen[c]
    /\ status' = "FAILED_PURGED"
    /\ purge_status' = "FAILED"
    /\ Goes(c, "ok")
    /\ UNCHANGED <<purges, traces, owner, attempts, verdict, receiptVars, seen, choice, faults>>

\* Mutant: the last commit of the except branch is forgotten.
RecordFailedPurgeUncommitted(c) ==
    /\ pc[c] = "recording"
    /\ Goes(c, "ok")
    /\ UNCHANGED <<verificationVars, receiptVars, purgeVars, seen, choice, faults>>

\* The UPDATE of the except branch, fail_cleanup() and the last COMMIT.
RecordFailedPurge(c) ==
    /\ pc[c] = "recording"
    /\ UNCHANGED traces
    /\ \/ /\ status = seen[c]
          /\ EndPurge(c, "FAILED_PURGED", "FAILED")
       \/ /\ status # seen[c]
          /\ Goes(c, "refused")
          /\ UNCHANGED <<verificationVars, receiptVars, purge_status, purges,
                         seen, choice, faults>>

-----------------------------------------------------------------------------

\* A request is killed, or its database connection fails: what it has not
\* committed is rolled back.
Fails(x) ==
    /\ pc[x] \notin {"idle"} \cup Answers
    /\ faults < MaxFaults
    /\ faults' = faults + 1
    /\ Goes(x, "error")
    /\ UNCHANGED <<verificationVars, receiptVars, purgeVars, seen, choice>>

ReviewStep(r) ==
    \/ ReadForReview(r) \/ RepeatDecision(r)
    \/ SelectForDecision(r) \/ CommitDecision(r)

CloseStep(c) ==
    \/ ReadForClose(c) \/ ClaimForClose(c) \/ DeleteFile(c)
    \/ PurgeRaises(c) \/ PurgeLosesDatabase(c) \/ ReadForFinish(c) \/ FinishPurge(c)
    \/ ReadForFailedPurge(c) \/ RecordFailedPurge(c)

Next ==
    \/ Verify
    \/ CommitBundle
    \/ \E r \in Reviews : ReviewStep(r)
    \/ \E c \in Closes : CloseStep(c)
    \/ \E x \in Requests : Fails(x)

Spec == Init /\ [][Next]_vars

\* The server's threads are scheduled; nothing obliges a client to ask, and
\* nothing the verification to go on.
Fairness ==
    /\ \A r \in Reviews : WF_vars(pc[r] # "idle" /\ ReviewStep(r))
    /\ \A c \in Closes : WF_vars(pc[c] # "idle" /\ CloseStep(c))

FairSpec == Spec /\ Fairness

-----------------------------------------------------------------------------
(* Properties                                                              *)

\* Once a reviewer has decided, the row names the latest receipt, and that receipt
\* holds this decision and the outcome it was taken on, although a repeated
\* decision may write it again while the session is closed.
DecisionReceipted ==
    decided # "NULL" =>
        /\ status \in {FinalState[decided], "PENDING_CLEANUP", "PURGE_COMPLETE",
                       "FAILED_PURGED"}
        /\ receipt_id = Len(receipts)
        /\ receipt_id # 0
        /\ receipts[receipt_id] = [trust_outcome |-> verdict, reviewer_decision |-> decided]
        /\ verdict # 0

\* A session is in cleanup, and a trace of its document is gone, only after a
\* reviewer has decided and every executor has let the session go.
ReviewBeforeCleanup ==
    \/ status \in {"PENDING_CLEANUP", "PURGE_COMPLETE"}
    \/ "file" \notin traces
    \/ "sidecar" \notin traces /\ "quarantine" \in traces
  => decided # "NULL" /\ owner = NoExecutor

\* One close at a time purges, on a session that is in cleanup, so that no file is
\* deleted under a session that another request has already ended.
OnePurger ==
    \A c \in Closes : pc[c] \in Purging =>
        /\ status = "PENDING_CLEANUP"
        /\ \A d \in Closes : pc[d] \in Purging => c = d

\* The history in purge_tracking and the status of the row tell the same.
PurgeTracked ==
    /\ purges = IF purge_status = "NULL" THEN <<>> ELSE <<purge_status>>
    /\ status = "PENDING_CLEANUP" <=> purge_status = "IN_PROGRESS"
    /\ status = "PURGE_COMPLETE" <=> purge_status = "COMPLETED"
    /\ purge_status = "FAILED" => status = "FAILED_PURGED"

\* A session that reports a complete purge has no file and no sensitive column left
\* (docs/shared_contracts_phase1.md:553 "cleanup leaves only audit receipt/report.").
PurgeLeavesNothing == status = "PURGE_COMPLETE" => traces = {}

\* The decision of a reviewer is never replaced, and a step changes the status
\* along an edge of ALLOWED_TRANSITIONS, or the two of a decision on a legacy state.
DecisionIsFinal ==
    [][/\ decided # "NULL" => decided' = decided
       /\ status' # status =>
            \/ ValidTransition(status, status')
            \/ /\ ValidTransition(status, "PENDING_HUMAN_REVIEW")
               /\ ValidTransition("PENDING_HUMAN_REVIEW", status')]_vars

\* A purge that began completes or is recorded as failed, whatever of its files cannot
\* be deleted; only one that is killed or loses its database answers 500 and leaves the
\* session in cleanup.
PurgesEnd ==
    \A c \in Closes :
        pc[c] \in Purging ~> pc[c] = "error" \/ status \in {"PURGE_COMPLETE", "FAILED_PURGED"}

\* The promise of DocumentRetention.
retentionPhase ==
    IF decided = "NULL" THEN "open"
    ELSE CASE status = "PENDING_CLEANUP" -> "purging"
           [] status = "PURGE_COMPLETE" -> "purged"
           [] status = "FAILED_PURGED" -> "kept"
           [] OTHER -> "decided"

Retention == INSTANCE DocumentRetention
                WITH Undecided <- "NULL", decision <- decided, phase <- retentionPhase

\* Every step of this module is a step of DocumentRetention, or stutters.
ImplementsRetention == Retention!Spec

\* The promise of VerificationOwnership, which the verification alone keeps in
\* VerificationExecution: reviews and closes come only when nobody owns the session,
\* a decision is on the verdict of the latest attempt, and the retries, repeats and
\* failures of the requests change nothing of it.
KeepsOwnership == Verification!Spec
=============================================================================
