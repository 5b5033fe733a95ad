------------------------ MODULE VerificationExecution ------------------------
(***************************************************************************)
(* The verification of one uploaded session: worker processes that take a  *)
(* lease and keep a heartbeat, POST /run requests that take none, the scan  *)
(* that abandons stale sessions, the crash of any of them, and, around them,*)
(* the reviewer who decides and closes the session at any time.             *)
(*   backend/app/workflow/repository.py   compare-and-set writes of the row *)
(*   backend/app/workflow/service.py      the worker's pipeline             *)
(*   backend/app/agent_orchestration/workspace.py   the /run pipeline       *)
(*   backend/app/worker/worker.py         the worker's loop                 *)
(*   backend/app/api/routes.py, workflow/runtime.py   review and closure    *)
(* transition_state() is two statements, a SELECT of the status and an      *)
(* UPDATE guarded by it, so it is two actions.  An UPDATE holds the row's   *)
(* lock until its transaction ends: UPDATE and COMMIT are one action.       *)
(* A step that finds nothing to do (a lease refused because the session is  *)
(* not acquirable, a 409) leaves the state as it is and is not an action.   *)
(***************************************************************************)
EXTENDS Naturals, Sequences, SessionStates

CONSTANTS Workers,       \* worker processes, their ids are used as lease_id
          Requests,      \* threads of the API server that serve POST /run
          NoLease,       \* lease_id NULL
          MaxAttempts,   \* bound: attempts begun for the session
          MaxCrashes     \* bound: crashes of workers and requests

Executors == Workers \cup Requests

ASSUME ExecutorsAssumption ==
    /\ Workers \cap Requests = {}
    /\ NoLease \notin Executors
    /\ MaxAttempts \in Nat
    /\ MaxCrashes \in Nat

VARIABLES session,    \* the row of verification_sessions
          receipts,   \* the committed rows of audit_receipts, oldest first
          pc,         \* where each executor is
          seen,       \* the status its last SELECT returned
          error,      \* the error type its pipeline failed with
          mine,       \* the attempt it executes
          txn,        \* its open transaction: "clean", "flushed" or "broken"
          beating,    \* its heartbeat thread runs
          attempts,   \* attempts begun so far (history)
          crashes     \* crashes so far (bound)

execVars == <<pc, seen, error, mine, txn, beating>>
vars == <<session, receipts, pc, seen, error, mine, txn, beating, attempts, crashes>>

-----------------------------------------------------------------------------
(* The row and the executors' program counters                             *)

Phases == {"EXTRACTING", "GROUNDING", "CONNECTOR_EVAL", "TRUST_SCORING"}

\* The outcome of a verification is named by the attempt that computed it.
Session ==
    [status : SessionState,
     lease_id : Workers \cup {NoLease},
     heartbeat_at : {"null", "fresh", "stale"},
     worker_phase : Phases \cup {"NULL", "GENERALIZED_PIPELINE", "COMPLETED", "FAILED"},
     trust_outcome : Nat,           \* 0 is NULL
     workspace_payload : {"null", "sanitized"},
     audit_receipt_id : Nat]        \* the attempt the receipt is of, 0 is NULL

Receipt ==
    [attempt : Nat,                 \* whose audit bundle it came with
     trust_outcome : Nat,
     reviewer_decision : Decisions \cup {"NULL"}]

Stages == Phases \cup {"GENERALIZED_PIPELINE"}

\* The pipeline of an attempt is in progress: its executor owns the session.
ActivePC == {"leased"} \cup Stages
                \cup {"completing", "committing", "failing", "recording"}

Active(e) == pc[e] \in ActivePC

TypeOK ==
    /\ session \in Session
    /\ receipts \in Seq(Receipt)
    /\ pc \in [Executors -> {"idle", "claiming"} \cup ActivePC]
    /\ seen \in [Executors -> SessionState]
    /\ error \in [Executors -> ErrorTypes]
    /\ mine \in [Executors -> Nat]
    /\ txn \in [Executors -> {"clean", "flushed", "broken"}]
    /\ beating \in [Executors -> BOOLEAN]
    /\ attempts \in Nat
    /\ crashes \in Nat

\* The row as the upload route leaves it.
Init ==
    /\ session = [status |-> "UPLOADED_PENDING_REVIEW", lease_id |-> NoLease,
                  heartbeat_at |-> "null", worker_phase |-> "NULL",
                  trust_outcome |-> 0, workspace_payload |-> "null",
                  audit_receipt_id |-> 0]
    /\ receipts = <<>>
    /\ pc = [e \in Executors |-> "idle"]
    /\ seen = [e \in Executors |-> "CREATED"]
    /\ error = [e \in Executors |-> "unknown_processing_error"]
    /\ mine = [e \in Executors |-> 0]
    /\ txn = [e \in Executors |-> "clean"]
    /\ beating = [e \in Executors |-> FALSE]
    /\ attempts = 0
    /\ crashes = 0

-----------------------------------------------------------------------------
(* What a commit makes durable, and how an executor ends                   *)

\* store_audit_bundle() flushes the receipt in the executor's transaction; any
\* commit on that connection, the heartbeat thread's included, makes it durable.
CommittedReceipts(e) ==
    IF txn[e] = "flushed"
    THEN Append(receipts, [attempt |-> mine[e], trust_outcome |-> mine[e],
                           reviewer_decision |-> "NULL"])
    ELSE receipts

\* The executor returns, or its process dies: its locals are gone, the thread of
\* the heartbeat stops and what is not committed is rolled back.
Ends(e) ==
    /\ pc' = [pc EXCEPT ![e] = "idle"]
    /\ seen' = [seen EXCEPT ![e] = "CREATED"]
    /\ error' = [error EXCEPT ![e] = "unknown_processing_error"]
    /\ mine' = [mine EXCEPT ![e] = 0]
    /\ txn' = [txn EXCEPT ![e] = "clean"]
    /\ beating' = [beating EXCEPT ![e] = FALSE]

\* An exception leaves the pipeline: the handler of failures is next.
Raises(e, type) ==
    /\ pc' = [pc EXCEPT ![e] = "failing"]
    /\ error' = [error EXCEPT ![e] = type]
    /\ beating' = [beating EXCEPT ![e] = FALSE]

\* An exception leaves the failure handler too.  worker.py catches it and marks
\* the job failed on the same connection, which commits what was flushed; the
\* /run route answers 500 and its session is closed.
GivesUp(e) ==
    /\ receipts' = IF e \in Workers THEN CommittedReceipts(e) ELSE receipts
    /\ Ends(e)
    /\ UNCHANGED <<session, attempts, crashes>>

-----------------------------------------------------------------------------
(* Claiming the session                                                    *)

\* acquire_lease() and the /run route read a status they may start from.
ReadForClaim(e) ==
    /\ pc[e] = "idle"
    /\ attempts < MaxAttempts
    /\ session.status \in LEASE_ACQUIRABLE_STATES
    /\ pc' = [pc EXCEPT ![e] = "claiming"]
    /\ seen' = [seen EXCEPT ![e] = session.status]
    /\ UNCHANGED <<session, receipts, error, mine, txn, beating, attempts, crashes>>

\* The UPDATE of the claim found another status, or a lease: rolled back.
ClaimRefused(e) ==
    /\ Ends(e)
    /\ UNCHANGED <<session, receipts, attempts, crashes>>

BeginsAttempt(e, first) ==
    /\ pc' = [pc EXCEPT ![e] = first]
    /\ mine' = [mine EXCEPT ![e] = attempts + 1]
    /\ attempts' = attempts + 1
    /\ UNCHANGED <<receipts, seen, error, txn, beating, crashes>>

\* Mutant: the claim asks for a free lease and not for the status it read.
AcquireLeaseOfAnyStatus(w) ==
    /\ pc[w] = "claiming"
    /\ IF session.lease_id = NoLease
       THEN /\ session' = [session EXCEPT !.status = "VERIFYING", !.lease_id = w]
            /\ BeginsAttempt(w, "leased")
       ELSE ClaimRefused(w)

\* A worker's claim writes the lease, and requires that there is none.
AcquireLease(w) ==
    /\ pc[w] = "claiming"
    /\ \/ /\ session.status = seen[w]
          /\ session.lease_id = NoLease
          /\ session' = [session EXCEPT !.status = "VERIFYING", !.lease_id = w]
          /\ BeginsAttempt(w, "leased")
       \/ /\ \/ session.status # seen[w]
             \/ session.lease_id # NoLease
          /\ ClaimRefused(w)

\* A /run request moves the session to VERIFYING with no lease and no heartbeat.
StartRun(r) ==
    /\ pc[r] = "claiming"
    /\ \/ /\ session.status = seen[r]
          /\ session' = [session EXCEPT !.status = "VERIFYING",
                                        !.worker_phase = "GENERALIZED_PIPELINE"]
          /\ BeginsAttempt(r, "GENERALIZED_PIPELINE")
       \/ /\ session.status # seen[r]
          /\ ClaimRefused(r)

-----------------------------------------------------------------------------
(* The stages of the pipeline                                              *)

\* update_worker_phase() is guarded by the lease.
WithPhase(row, w, phase) ==
    IF row.lease_id = w THEN [row EXCEPT !.worker_phase = phase] ELSE row

\* The heartbeat is initialised, its thread started and the first phase entered,
\* or the session is no longer this worker's and the attempt fails.
EnterPipeline(w) ==
    /\ pc[w] = "leased"
    /\ \/ /\ session.lease_id = w
          /\ session' = [session EXCEPT !.heartbeat_at = "fresh",
                                        !.worker_phase = "EXTRACTING"]
          /\ beating' = [beating EXCEPT ![w] = TRUE]
          /\ pc' = [pc EXCEPT ![w] = "EXTRACTING"]
          /\ UNCHANGED error
       \/ /\ session.lease_id # w
          /\ Raises(w, "unknown_processing_error")
          /\ UNCHANGED session
    /\ UNCHANGED <<receipts, seen, mine, txn, attempts, crashes>>

NextPhase ==
    [EXTRACTING |-> "GROUNDING",
     GROUNDING |-> "CONNECTOR_EVAL",
     CONNECTOR_EVAL |-> "TRUST_SCORING"]

\* A stage returns and the next phase is entered.  The extraction stage ends by
\* writing heartbeat_at, whoever holds the lease.
StageReturns(w) ==
    /\ pc[w] \in DOMAIN NextPhase
    /\ LET beat == IF pc[w] = "EXTRACTING"
                   THEN [session EXCEPT !.heartbeat_at = "fresh"]
                   ELSE session
       IN  session' = WithPhase(beat, w, NextPhase[pc[w]])
    /\ pc' = [pc EXCEPT ![w] = NextPhase[pc[w]]]
    /\ UNCHANGED <<receipts, seen, error, mine, txn, beating, attempts, crashes>>

\* The error types a stage may raise: failure_type as it stands there, or the
\* type of a WorkflowProcessingError that the stage raises itself.
StageErrors ==
    [EXTRACTING |-> {"extraction_crash", "document_missing", "unknown_processing_error"},
     GROUNDING |-> {"extraction_crash"},
     CONNECTOR_EVAL |-> {"extraction_crash", "transient_connector_error",
                         "connector_timeout_high"},
     TRUST_SCORING |-> {"unknown_processing_error"},
     GENERALIZED_PIPELINE |-> {"unknown_processing_error"}]

StageRaises(e) ==
    /\ pc[e] \in Stages
    /\ \E type \in StageErrors[pc[e]] : Raises(e, type)
    /\ UNCHANGED <<session, receipts, seen, mine, txn, attempts, crashes>>

-----------------------------------------------------------------------------
(* Publishing the verdict                                                  *)

\* _build_completion_values() stored the audit bundle.
StoreAuditBundle(e) ==
    /\ pc[e] \in {"TRUST_SCORING", "GENERALIZED_PIPELINE"}
    /\ pc' = [pc EXCEPT ![e] = "completing"]
    /\ txn' = [txn EXCEPT ![e] = "flushed"]
    /\ UNCHANGED <<session, receipts, seen, error, mine, beating, attempts, crashes>>

\* _build_completion_values() raised: the document is gone, the receipt cannot be
\* signed, or the flush itself failed and the transaction is unusable.  A worker's
\* attempt fails; a /run request logs a warning and goes on to publish.
AuditBundleFails(e) ==
    /\ pc[e] \in {"TRUST_SCORING", "GENERALIZED_PIPELINE"}
    /\ \E type \in {"document_missing", "audit_store_failure"},
          after \in {"clean", "broken"} :
            /\ type = "document_missing" => after = "clean"
            /\ txn' = [txn EXCEPT ![e] = after]
            /\ \/ /\ e \in Workers
                  /\ Raises(e, type)
               \/ /\ e \in Requests
                  /\ pc' = [pc EXCEPT ![e] = "completing"]
                  /\ UNCHANGED <<error, beating>>
    /\ UNCHANGED <<session, receipts, seen, mine, attempts, crashes>>

\* complete_processing(): the SELECT.  A broken transaction refuses it.
ReadForCompletion(e) ==
    /\ pc[e] = "completing"
    /\ \/ /\ txn[e] # "broken"
          /\ ValidTransition(session.status, "PENDING_HUMAN_REVIEW")
          /\ pc' = [pc EXCEPT ![e] = "committing"]
          /\ seen' = [seen EXCEPT ![e] = session.status]
          /\ UNCHANGED <<error, beating>>
       \/ /\ \/ txn[e] = "broken"
             \/ ~ValidTransition(session.status, "PENDING_HUMAN_REVIEW")
          /\ Raises(e, "unknown_processing_error")
          /\ UNCHANGED seen
    /\ UNCHANGED <<session, receipts, mine, txn, attempts, crashes>>

\* Mutant: the row names a receipt although its bundle was not stored.
CompletionReceiptUnstored(e) == mine[e]

\* The receipt the row names: that of the bundle, when there is one (the heartbeat
\* thread may have committed it already), else the one it named before.
CompletionReceipt(e) ==
    IF \/ txn[e] = "flushed"
       \/ \E i \in DOMAIN receipts : receipts[i].attempt = mine[e]
    THEN mine[e]
    ELSE session.audit_receipt_id

\* complete_processing(): the UPDATE and the COMMIT.  No lease is asked for.
CommitCompletion(e) ==
    /\ pc[e] = "committing"
    /\ \/ /\ session.status = seen[e]
          /\ session' = [session EXCEPT
                !.status = "PENDING_HUMAN_REVIEW",
                !.lease_id = NoLease,
                !.heartbeat_at = "null",
                !.worker_phase = "COMPLETED",
                !.trust_outcome = mine[e],
                !.workspace_payload = IF e \in Requests THEN "sanitized" ELSE @,
                !.audit_receipt_id = CompletionReceipt(e)]
          /\ receipts' = CommittedReceipts(e)
          /\ Ends(e)
       \/ /\ session.status # seen[e]
          /\ Raises(e, "unknown_processing_error")
          /\ UNCHANGED <<session, receipts, seen, mine, txn>>
    /\ UNCHANGED <<attempts, crashes>>

-----------------------------------------------------------------------------
(* Recording a failure                                                     *)

\* A /run request always records FAILED_RETRIABLE.
FailureState(e) ==
    IF e \in Workers THEN classify_failure(error[e]) ELSE "FAILED_RETRIABLE"

\* fail_processing(): the SELECT.
ReadForFailure(e) ==
    /\ pc[e] = "failing"
    /\ txn[e] # "broken"
    /\ ValidTransition(session.status, FailureState(e))
    /\ pc' = [pc EXCEPT ![e] = "recording"]
    /\ seen' = [seen EXCEPT ![e] = session.status]
    /\ UNCHANGED <<session, receipts, error, mine, txn, beating, attempts, crashes>>

\* Mutant: a failure leaves heartbeat_at in the row.
CommitFailureKeepsHeartbeat(e) ==
    /\ pc[e] = "recording"
    /\ session.status = seen[e]
    /\ session' = [session EXCEPT !.status = FailureState(e), !.lease_id = NoLease,
                                  !.worker_phase = "FAILED", !.trust_outcome = 0]
    /\ receipts' = CommittedReceipts(e)
    /\ Ends(e)
    /\ UNCHANGED <<attempts, crashes>>

\* fail_processing(): the UPDATE and the COMMIT, with no rollback before it: an
\* audit bundle flushed by this attempt is committed with the failure.
CommitFailure(e) ==
    /\ pc[e] = "recording"
    /\ session.status = seen[e]
    /\ session' = [session EXCEPT
            !.status = FailureState(e),
            !.lease_id = NoLease,
            !.heartbeat_at = "null",
            !.worker_phase = "FAILED",
            !.trust_outcome = 0]
    /\ receipts' = CommittedReceipts(e)
    /\ Ends(e)
    /\ UNCHANGED <<attempts, crashes>>

\* Mutant: the conflict of the UPDATE is not handled.
FailureNotRecordedOnRead(e) ==
    /\ pc[e] = "failing"
    /\ \/ txn[e] = "broken"
       \/ ~ValidTransition(session.status, FailureState(e))
    /\ GivesUp(e)

\* The failure cannot be recorded: the transaction is unusable, the status no
\* longer admits it, or it changed between the SELECT and the UPDATE.
FailureNotRecorded(e) ==
    /\ \/ /\ pc[e] = "failing"
          /\ \/ txn[e] = "broken"
             \/ ~ValidTransition(session.status, FailureState(e))
       \/ /\ pc[e] = "recording"
          /\ session.status # seen[e]
    /\ GivesUp(e)

-----------------------------------------------------------------------------
(* The heartbeat thread, time, the stale scan and crashes                  *)

\* One turn of _HeartbeatRunner._run(), on the pipeline's own connection.
HeartbeatTick(w) ==
    /\ beating[w]
    /\ txn[w] # "broken"
    /\ \/ /\ session.lease_id = w
          /\ session' = [session EXCEPT !.heartbeat_at = "fresh"]
          /\ UNCHANGED beating
       \/ /\ session.lease_id # w
          /\ beating' = [beating EXCEPT ![w] = FALSE]
          /\ UNCHANGED session
    /\ receipts' = CommittedReceipts(w)
    /\ txn' = [txn EXCEPT ![w] = "clean"]
    /\ UNCHANGED <<pc, seen, error, mine, attempts, crashes>>

\* update_heartbeat() raises in the thread, which returns for good.
HeartbeatDies(w) ==
    /\ beating[w]
    /\ beating' = [beating EXCEPT ![w] = FALSE]
    /\ UNCHANGED <<session, receipts, pc, seen, error, mine, txn, attempts, crashes>>

\* stale_session_timeout_seconds pass since heartbeat_at was written.
HeartbeatAges ==
    /\ session.heartbeat_at = "fresh"
    /\ session' = [session EXCEPT !.heartbeat_at = "stale"]
    /\ UNCHANGED <<receipts, execVars, attempts, crashes>>

\* Mutant: the scan makes the session retriable at once.
MarkStaleSessionRetriable(w) ==
    /\ pc[w] = "idle"
    /\ session.status = "VERIFYING"
    /\ session.heartbeat_at = "stale"
    /\ session' = [session EXCEPT !.status = "FAILED_RETRIABLE",
                                  !.lease_id = NoLease, !.heartbeat_at = "null"]
    /\ UNCHANGED <<receipts, execVars, attempts, crashes>>

\* Mutant: the scan leaves a session to the holder of its lease.
MarkStaleSessionUnleased(w) ==
    /\ pc[w] = "idle"
    /\ session.status = "VERIFYING"
    /\ session.heartbeat_at = "stale"
    /\ session.lease_id = NoLease
    /\ session' = [session EXCEPT !.status = "ABANDONED_VERIFYING"]
    /\ UNCHANGED <<receipts, execVars, attempts, crashes>>

\* A worker between two jobs scans; heartbeat_at is left as it is.
MarkStaleSession(w) ==
    /\ pc[w] = "idle"
    /\ session.status = "VERIFYING"
    /\ session.heartbeat_at = "stale"
    /\ session' = [session EXCEPT !.status = "ABANDONED_VERIFYING",
                                  !.lease_id = NoLease]
    /\ UNCHANGED <<receipts, execVars, attempts, crashes>>

\* The process of an executor is killed, and started again.
Crash(e) ==
    /\ pc[e] # "idle"
    /\ crashes < MaxCrashes
    /\ crashes' = crashes + 1
    /\ Ends(e)
    /\ UNCHANGED <<session, receipts, attempts>>

-----------------------------------------------------------------------------
(* Review and closure, as far as they write what the executors read.  Their *)
(* own steps, repeated decisions among them, are ReviewAndClosure's.        *)

\* A reviewer decides: upsert_final_review_receipt() gives the latest receipt, that
\* of an earlier attempt if this one's was never stored, the verdict and the decision.
Decide(decision) ==
    /\ session.status = "PENDING_HUMAN_REVIEW"
    /\ receipts' =
          IF receipts = <<>>
          THEN <<[attempt |-> session.trust_outcome, trust_outcome |-> session.trust_outcome,
                  reviewer_decision |-> decision]>>
          ELSE [receipts EXCEPT ![Len(receipts)] =
                  [@ EXCEPT !.trust_outcome = session.trust_outcome,
                            !.reviewer_decision = decision]]
    /\ session' = [session EXCEPT
            !.status = FinalState[decision],
            !.audit_receipt_id = receipts'[Len(receipts')].attempt]
    /\ UNCHANGED <<execVars, attempts, crashes>>

\* close_session() claims the session, and ends the purge with the columns cleared
\* or, when something of it failed, kept.
Close ==
    /\ \/ /\ session.status \in HUMAN_FINAL_STATES
          /\ session' = [session EXCEPT !.status = "PENDING_CLEANUP"]
       \/ /\ session.status = "PENDING_CLEANUP"
          /\ session' = [session EXCEPT
                  !.status = "PURGE_COMPLETE", !.workspace_payload = "null",
                  !.worker_phase = "NULL", !.heartbeat_at = "null"]
       \/ /\ session.status = "PENDING_CLEANUP"
          /\ session' = [session EXCEPT !.status = "FAILED_PURGED"]
    /\ UNCHANGED <<receipts, execVars, attempts, crashes>>

-----------------------------------------------------------------------------

\* What an executor does by itself once it has asked for the session.
Proceeds(e) ==
    \/ e \in Workers /\ AcquireLease(e)
    \/ e \in Requests /\ StartRun(e)
    \/ e \in Workers /\ EnterPipeline(e)
    \/ e \in Workers /\ StageReturns(e)
    \/ StageRaises(e)
    \/ StoreAuditBundle(e)
    \/ AuditBundleFails(e)
    \/ ReadForCompletion(e)
    \/ CommitCompletion(e)
    \/ ReadForFailure(e)
    \/ CommitFailure(e)
    \/ FailureNotRecorded(e)

Next ==
    \/ \E e \in Executors : ReadForClaim(e) \/ Proceeds(e) \/ Crash(e)
    \/ \E w \in Workers : HeartbeatTick(w) \/ HeartbeatDies(w) \/ MarkStaleSession(w)
    \/ HeartbeatAges
    \/ \E decision \in Decisions : Decide(decision)
    \/ Close

Spec == Init /\ [][Next]_vars

\* Threads are scheduled, the worker's loop scans on every turn, time passes.
\* Nobody is obliged to ask for a verification, to review or to close.
Fairness ==
    /\ \A e \in Executors : WF_vars(Proceeds(e))
    /\ WF_vars(\E w \in Workers : MarkStaleSession(w))
    /\ WF_vars(HeartbeatAges)

FairSpec == Spec /\ Fairness

-----------------------------------------------------------------------------
(* Properties                                                              *)

\* One executor at a time verifies the session, although /run takes no lease,
\* completion asks for none and an abandoned worker goes on working.
SingleOwner ==
    \A e, f \in Executors : Active(e) /\ Active(f) => e = f

\* An executor in its pipeline works on the latest attempt, and the session is
\* VERIFYING or was given up from it: nobody closed, reviewed or retried it, although
\* neither the review nor the closing of a session asks for its lease.
OwnerHoldsSession ==
    \A e \in Executors : Active(e) =>
        /\ mine[e] = attempts
        /\ session.status \in {"VERIFYING", "ABANDONED_VERIFYING"}

\* A lease is only on a VERIFYING session and excludes every other executor; a
\* worker that has just taken it still has it when it initialises its heartbeat,
\* because no heartbeat of an earlier attempt is left in the row to go stale.
LeaseExcludesOthers ==
    /\ session.lease_id # NoLease =>
          /\ session.status = "VERIFYING"
          /\ \A e \in Executors : Active(e) => e = session.lease_id
    /\ \A w \in Workers : pc[w] = "leased" =>
          session.lease_id = w /\ session.heartbeat_at = "null"

\* A session has a verdict while it waits for its reviewer and after his decision, and
\* it is the verdict of the attempt begun last, never one a slow worker brought late.
VerdictOfLatestAttempt ==
    /\ session.status \in Verdicted => session.trust_outcome # 0
    /\ session.trust_outcome # 0 =>
          /\ session.trust_outcome = attempts
          /\ session.status \in Verdicted \cup {"FAILED_PURGED"}

\* The heartbeat thread may commit the pipeline's half-done transaction: still, no
\* attempt has two receipts, the row names a committed receipt only, and one with a
\* decision is the last of the session and holds the verdict that was decided on.
ReceiptsConsistent ==
    /\ \A i, j \in DOMAIN receipts : receipts[i].attempt = receipts[j].attempt => i = j
    /\ session.audit_receipt_id # 0 =>
          \E i \in DOMAIN receipts : receipts[i].attempt = session.audit_receipt_id
    /\ \A i \in DOMAIN receipts : receipts[i].reviewer_decision # "NULL" =>
          /\ i = Len(receipts)
          /\ receipts[i].attempt = session.audit_receipt_id
          /\ receipts[i].trust_outcome = session.trust_outcome
          /\ session.trust_outcome = attempts

\* A step changes the status along an edge of ALLOWED_TRANSITIONS only.
StatusFollowsTable ==
    [][session'.status # session.status =>
          ValidTransition(session.status, session'.status)]_vars

\* A session whose worker ever reported leaves VERIFYING: its worker ends, or the
\* stale scan of another one abandons it.
HeartbeatingSessionMovesOn ==
    session.status = "VERIFYING" /\ session.heartbeat_at # "null"
        ~> session.status # "VERIFYING"

\* Every attempt ends: no pipeline is left waiting for a lock, a lease or a state.
AttemptsEnd ==
    \A e \in Executors : Active(e) ~> ~Active(e)

\* The promise of VerificationOwnership, with the active executor as the owner.
owner == IF \E e \in Executors : Active(e)
         THEN CHOOSE e \in Executors : Active(e)
         ELSE NoLease

Ownership == INSTANCE VerificationOwnership
                WITH NoExecutor <- NoLease,
                     status <- session.status,
                     verdict <- session.trust_outcome

\* Every step of this module is a step of VerificationOwnership, or stutters.
ImplementsOwnership == Ownership!Spec
=============================================================================
