---------------------------- MODULE SessionStates ----------------------------
(***************************************************************************)
(* The workflow states of a verification session, the transition table     *)
(* every status write goes through, and the failure classification that    *)
(* picks the state of a failed attempt, and the state of a review decision. *)
(*   backend/app/sessions/constants.py                                      *)
(*   backend/app/workflow/state_machine.py                                  *)
(*   backend/app/workflow/failures.py                                       *)
(*   backend/app/api/routes.py                                              *)
(***************************************************************************)

VERIFIED_STATES == {"VERIFIED_GREEN", "VERIFIED_AMBER", "VERIFIED_RED"}

HUMAN_FINAL_STATES ==
    {"HUMAN_APPROVED", "HUMAN_REJECTED", "MANUAL_REVIEW_REQUIRED"}

SessionState ==
    {"CREATED", "UPLOAD_PENDING", "UPLOADED_PENDING_REVIEW", "VERIFYING",
     "PENDING_HUMAN_REVIEW", "ABANDONED_VERIFYING", "FAILED_RETRIABLE",
     "FAILED_PURGED", "PENDING_CLEANUP", "PURGE_COMPLETE"}
        \cup VERIFIED_STATES \cup HUMAN_FINAL_STATES

\* Mutant: a session under review may be verified again.
LEASE_ACQUIRABLE_STATES_OR_REVIEW ==
    {"UPLOADED_PENDING_REVIEW", "FAILED_RETRIABLE", "PENDING_HUMAN_REVIEW"}

\* States a lease may be taken in, and a /run request may start from.
LEASE_ACQUIRABLE_STATES == {"UPLOADED_PENDING_REVIEW", "FAILED_RETRIABLE"}

\* Mutant: a session may be closed before its review.
ALLOWED_TRANSITIONS_UNREVIEWED ==
    ({"VERIFYING"} \X {"PENDING_HUMAN_REVIEW"})
        \cup ({"PENDING_HUMAN_REVIEW"} \X (HUMAN_FINAL_STATES \cup {"PENDING_CLEANUP"}))
        \cup (HUMAN_FINAL_STATES \X {"PENDING_CLEANUP"})
        \cup ({"PENDING_CLEANUP"} \X {"PURGE_COMPLETE", "FAILED_PURGED"})

\* The table, as the set of its edges.
ALLOWED_TRANSITIONS ==
    ({"CREATED"} \X {"UPLOAD_PENDING"})
        \cup ({"UPLOAD_PENDING"} \X {"UPLOADED_PENDING_REVIEW"})
        \cup (LEASE_ACQUIRABLE_STATES \X {"VERIFYING"})
        \cup ({"VERIFYING"} \X (VERIFIED_STATES
                    \cup {"PENDING_HUMAN_REVIEW", "FAILED_RETRIABLE",
                          "FAILED_PURGED", "ABANDONED_VERIFYING"}))
        \cup (VERIFIED_STATES \X {"PENDING_HUMAN_REVIEW"})
        \cup ({"PENDING_HUMAN_REVIEW"} \X HUMAN_FINAL_STATES)
        \cup (HUMAN_FINAL_STATES \X {"PENDING_CLEANUP"})
        \cup ({"PENDING_CLEANUP"} \X {"PURGE_COMPLETE", "FAILED_PURGED"})
        \cup ({"ABANDONED_VERIFYING"} \X {"FAILED_RETRIABLE", "FAILED_PURGED"})

\* A reviewer's decisions, and _review_status_for_decision().
Decisions == {"APPROVED", "REJECTED", "MANUAL_REVIEW_REQUIRED"}

FinalState ==
    [APPROVED |-> "HUMAN_APPROVED",
     REJECTED |-> "HUMAN_REJECTED",
     MANUAL_REVIEW_REQUIRED |-> "MANUAL_REVIEW_REQUIRED"]

\* States the review-decision route takes a decision in.
Reviewable == VERIFIED_STATES \cup {"PENDING_HUMAN_REVIEW"}

\* The statuses from the publication of a verdict to the end of a purge that succeeds.
Verdicted ==
    {"PENDING_HUMAN_REVIEW", "PENDING_CLEANUP", "PURGE_COMPLETE"} \cup HUMAN_FINAL_STATES

\* validate_transition() returns (it raises InvalidStateTransitionError when FALSE).
ValidTransition(current, new) == <<current, new>> \in ALLOWED_TRANSITIONS

(***************************************************************************)
(* classify_failure(): the error types its branches tell apart.  Any other *)
(* error type takes the last return, the one of "unknown_processing_error".*)
(* A connector_timeout is not retriable only for a HIGH assurance connector*)
(***************************************************************************)
ErrorTypes ==
    {"connector_timeout_high", "transient_connector_error", "audit_store_failure",
     "extraction_crash", "malformed_document", "document_missing",
     "unknown_processing_error"}

classify_failure(error) ==
    IF error \in {"connector_timeout_high", "malformed_document", "document_missing"}
    THEN "FAILED_PURGED"
    ELSE "FAILED_RETRIABLE"
=============================================================================
