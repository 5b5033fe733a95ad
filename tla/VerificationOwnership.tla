------------------------ MODULE VerificationOwnership ------------------------
(***************************************************************************)
(* What the backend promises about one session, with neither leases,        *)
(* heartbeats nor database transactions: an attempt is owned by one         *)
(* executor, only its owner ends it, a verdict names the attempt that       *)
(* computed it, nothing replaces a published verdict, and a reviewer and    *)
(* the closing of the session come after it, when nobody owns the session.  *)
(* VerificationExecution and ReviewAndClosure implement this specification. *)
(***************************************************************************)
EXTENDS Naturals, SessionStates

CONSTANTS Executors,    \* whoever may verify: worker processes and /run requests
          NoExecutor    \* no executor: not an element of Executors

VARIABLES status,       \* SessionModel.status
          owner,        \* the executor of the attempt in progress
          attempts,     \* attempts begun so far
          verdict       \* the attempt whose verdict is published, 0 for none

vars == <<status, owner, attempts, verdict>>

TypeOK ==
    /\ status \in SessionState
    /\ owner \in Executors \cup {NoExecutor}
    /\ attempts \in Nat
    /\ verdict \in 0..attempts

\* A session just uploaded, or one an earlier version left in a VERIFIED_ state.
Init ==
    /\ owner = NoExecutor
    /\ \/ /\ status = "UPLOADED_PENDING_REVIEW"
          /\ attempts = 0
       \/ /\ status \in VERIFIED_STATES
          /\ attempts = 1
    /\ verdict = attempts

\* An attempt begins only when nobody owns the session.
Begin(e) ==
    /\ status \in LEASE_ACQUIRABLE_STATES
    /\ owner = NoExecutor
    /\ status' = "VERIFYING"
    /\ owner' = e
    /\ attempts' = attempts + 1
    /\ UNCHANGED verdict

\* The owner publishes the verdict of its own attempt, the latest one.
Publish ==
    /\ owner # NoExecutor
    /\ status = "VERIFYING"
    /\ status' = "PENDING_HUMAN_REVIEW"
    /\ owner' = NoExecutor
    /\ verdict' = attempts
    /\ UNCHANGED attempts

\* The owner records that its attempt failed, even one given up as abandoned.
Fail ==
    /\ owner # NoExecutor
    /\ status \in {"VERIFYING", "ABANDONED_VERIFYING"}
    /\ status' \in {"FAILED_RETRIABLE", "FAILED_PURGED"}
    /\ owner' = NoExecutor
    /\ verdict' = 0
    /\ UNCHANGED attempts

\* The session is taken from an owner that stopped reporting; the owner may live on.
Abandon ==
    /\ status = "VERIFYING"
    /\ status' = "ABANDONED_VERIFYING"
    /\ UNCHANGED <<owner, attempts, verdict>>

\* The owner crashes, or cannot reach the database any more.
Lose ==
    /\ owner # NoExecutor
    /\ owner' = NoExecutor
    /\ UNCHANGED <<status, attempts, verdict>>

\* A reviewer decides on the published verdict, which is that of the latest attempt.
Decide ==
    /\ owner = NoExecutor
    /\ status \in Reviewable
    /\ verdict = attempts
    /\ status' \in HUMAN_FINAL_STATES
    /\ UNCHANGED <<owner, attempts, verdict>>

\* The session is closed after its decision, in two steps.
Close ==
    /\ owner = NoExecutor
    /\ \/ status \in HUMAN_FINAL_STATES /\ status' = "PENDING_CLEANUP"
       \/ status = "PENDING_CLEANUP" /\ status' \in {"PURGE_COMPLETE", "FAILED_PURGED"}
    /\ UNCHANGED <<owner, attempts, verdict>>

Next ==
    \/ \E e \in Executors : Begin(e)
    \/ Publish
    \/ Fail
    \/ Abandon
    \/ Lose
    \/ Decide
    \/ Close

Spec == Init /\ [][Next]_vars
=============================================================================
