--------------------- MODULE VerificationExecutionProofs ---------------------
(***************************************************************************)
(* Theorems about VerificationExecution, for any sets of workers and        *)
(* requests and any bounds.                                                  *)
(***************************************************************************)
EXTENDS VerificationExecution, TLAPS

-----------------------------------------------------------------------------
(* Facts about the constant operators                                      *)

\* An executor that verifies is never between requests or waiting for a claim.
LEMMA ActivePCs ==
    /\ Phases \subseteq ActivePC
    /\ Stages \subseteq ActivePC
    /\ "idle" \notin ActivePC
    /\ "claiming" \notin ActivePC
    /\ DOMAIN NextPhase = {"EXTRACTING", "GROUNDING", "CONNECTOR_EVAL"}
    /\ \A p \in DOMAIN NextPhase : NextPhase[p] \in Phases
BY DEF ActivePC, Stages, Phases, NextPhase

\* The edges of ALLOWED_TRANSITIONS that a verification uses.
LEMMA Edges ==
    /\ \A s \in {"VERIFYING", "ABANDONED_VERIFYING"} :
          ValidTransition(s, "PENDING_HUMAN_REVIEW") => s = "VERIFYING"
    /\ \A s \in LEASE_ACQUIRABLE_STATES : ValidTransition(s, "VERIFYING")
    /\ LEASE_ACQUIRABLE_STATES \subseteq SessionState
    /\ \A s \in LEASE_ACQUIRABLE_STATES :
          s \notin {"VERIFYING", "ABANDONED_VERIFYING", "PENDING_HUMAN_REVIEW"}
    /\ {"VERIFYING", "ABANDONED_VERIFYING", "PENDING_HUMAN_REVIEW",
        "UPLOADED_PENDING_REVIEW", "CREATED", "FAILED_RETRIABLE", "FAILED_PURGED"}
          \subseteq SessionState
BY DEF ValidTransition, ALLOWED_TRANSITIONS, SessionState, LEASE_ACQUIRABLE_STATES,
       VERIFIED_STATES, HUMAN_FINAL_STATES

\* A session that was reviewed or closed is not one an attempt works on or starts from.
Closed == HUMAN_FINAL_STATES \cup {"PENDING_CLEANUP", "PURGE_COMPLETE", "FAILED_PURGED"}

LEMMA ClosedStates ==
    /\ Closed \subseteq SessionState
    /\ \A s \in Closed \cup {"PENDING_HUMAN_REVIEW"} :
          s \notin {"VERIFYING", "ABANDONED_VERIFYING"} \cup LEASE_ACQUIRABLE_STATES
    /\ "PENDING_HUMAN_REVIEW" \notin Closed
    /\ \A d \in Decisions : FinalState[d] \in HUMAN_FINAL_STATES
    /\ HUMAN_FINAL_STATES \subseteq Closed \cap Verdicted
    /\ Verdicted \subseteq Closed \cup {"PENDING_HUMAN_REVIEW"}
    /\ "FAILED_PURGED" \notin Verdicted /\ "FAILED_RETRIABLE" \notin Verdicted
BY DEF Closed, Verdicted, Decisions, FinalState, HUMAN_FINAL_STATES, SessionState,
       LEASE_ACQUIRABLE_STATES

\* A failure is recorded as FAILED_RETRIABLE or as FAILED_PURGED.
LEMMA FailureStates ==
    \A e : FailureState(e) \in {"FAILED_RETRIABLE", "FAILED_PURGED"}
BY DEF FailureState, classify_failure

\* The error types of the stages are error types.
LEMMA StageErrorTypes ==
    \A s \in Stages : StageErrors[s] \subseteq ErrorTypes
BY DEF Stages, Phases, StageErrors, ErrorTypes

-----------------------------------------------------------------------------
(* Type correctness                                                        *)

\* What an executor's end, exception or rolled back claim leaves is well typed.
LEMMA EndsType ==
    ASSUME TypeOK, NEW e \in Executors, Ends(e)
    PROVE  /\ pc' \in [Executors -> {"idle", "claiming"} \cup ActivePC]
           /\ seen' \in [Executors -> SessionState]
           /\ error' \in [Executors -> ErrorTypes]
           /\ mine' \in [Executors -> Nat]
           /\ txn' \in [Executors -> {"clean", "flushed", "broken"}]
           /\ beating' \in [Executors -> BOOLEAN]
BY Edges DEF TypeOK, Ends, ErrorTypes

\* An exception leaves well typed what it writes.
LEMMA RaisesType ==
    ASSUME TypeOK, NEW e \in Executors, NEW type \in ErrorTypes, Raises(e, type)
    PROVE  /\ pc' \in [Executors -> {"idle", "claiming"} \cup ActivePC]
           /\ error' \in [Executors -> ErrorTypes]
           /\ beating' \in [Executors -> BOOLEAN]
BY DEF TypeOK, Raises, ActivePC

\* A commit appends at most one receipt.
LEMMA CommittedReceiptsType ==
    ASSUME TypeOK, NEW e \in Executors
    PROVE  CommittedReceipts(e) \in Seq(Receipt)
<1>1. [attempt |-> mine[e], trust_outcome |-> mine[e], reviewer_decision |-> "NULL"]
            \in Receipt
  BY DEF TypeOK, Receipt
<1> QED BY <1>1 DEF TypeOK, CommittedReceipts

\* A decision makes the last receipt hold it, with the verdict of the row, and the
\* row name it.
LEMMA DecidedReceipt ==
    ASSUME TypeOK, NEW decision \in Decisions, Decide(decision)
    PROVE  /\ receipts' \in Seq(Receipt)
           /\ Len(receipts') \in DOMAIN receipts'
           /\ receipts'[Len(receipts')].trust_outcome = session.trust_outcome
           /\ receipts = <<>> =>
                 /\ Len(receipts') = 1
                 /\ receipts'[1].attempt = session.trust_outcome
           /\ receipts # <<>> =>
                 /\ Len(receipts') = Len(receipts)
                 /\ \A i \in DOMAIN receipts :
                       /\ receipts'[i].attempt = receipts[i].attempt
                       /\ i # Len(receipts) => receipts'[i] = receipts[i]
           /\ session' \in Session
           /\ session'.status = FinalState[decision]
           /\ session'.audit_receipt_id = receipts'[Len(receipts')].attempt
           /\ UNCHANGED <<session.lease_id, session.heartbeat_at, session.trust_outcome>>
<1>0. session \in Session /\ session.trust_outcome \in Nat /\ receipts \in Seq(Receipt)
  BY DEF TypeOK, Session
<1> DEFINE named == receipts'[Len(receipts')].attempt
           row == /\ session' \in Session
                  /\ session'.status = FinalState[decision]
                  /\ session'.audit_receipt_id = named
                  /\ UNCHANGED <<session.lease_id, session.heartbeat_at,
                                 session.trust_outcome>>
<1>s. named \in Nat => row
  <2>1. session' = [session EXCEPT !.status = FinalState[decision],
                                   !.audit_receipt_id = named]
    BY DEF Decide
  <2>2. FinalState[decision] \in SessionState
    BY ClosedStates
  <2> HIDE DEF named
  <2> QED BY <1>0, <2>1, <2>2 DEF Session
<1>1. CASE receipts = <<>>
  <2> DEFINE new == [attempt |-> session.trust_outcome, trust_outcome |-> session.trust_outcome,
                     reviewer_decision |-> decision]
  <2>1. receipts' = <<new>>
    BY <1>1 DEF Decide
  <2>2. new \in Receipt /\ new.attempt = session.trust_outcome
          /\ new.trust_outcome = session.trust_outcome
    BY <1>0 DEF Receipt
  <2> HIDE DEF new
  <2>3. receipts' \in Seq(Receipt) /\ Len(receipts') = 1 /\ receipts'[1] = new
    BY <2>1, <2>2
  <2>4. row
    BY <1>0, <1>s, <2>2, <2>3
  <2> QED BY <1>1, <2>2, <2>3, <2>4
<1>2. CASE receipts # <<>>
  <2> DEFINE last == receipts[Len(receipts)]
             new == [last EXCEPT !.trust_outcome = session.trust_outcome,
                                 !.reviewer_decision = decision]
  <2>1. receipts' = [receipts EXCEPT ![Len(receipts)] = new]
    BY <1>2 DEF Decide
  <2>2. Len(receipts) \in DOMAIN receipts /\ last \in Receipt
    BY <1>0, <1>2
  <2>3. new \in Receipt /\ new.attempt = last.attempt
          /\ new.trust_outcome = session.trust_outcome
    BY <1>0, <2>2 DEF Receipt
  <2> HIDE DEF new
  <2>4. /\ receipts' \in Seq(Receipt) /\ Len(receipts') = Len(receipts)
        /\ receipts'[Len(receipts)] = new
        /\ \A i \in DOMAIN receipts : i # Len(receipts) => receipts'[i] = receipts[i]
    BY <1>0, <2>1, <2>2, <2>3
  <2>5. last.attempt \in Nat
    BY <2>2 DEF Receipt
  <2>6. row
    BY <1>s, <2>3, <2>4, <2>5
  <2> QED BY <1>0, <1>2, <2>2, <2>3, <2>4, <2>6
<1> QED BY <1>1, <1>2

\* A step keeps every variable in its type.
LEMMA TypeStep == TypeOK /\ [Next]_vars => TypeOK'
<1> SUFFICES ASSUME TypeOK, [Next]_vars PROVE TypeOK'
  OBVIOUS
<1> USE DEF TypeOK
<1>1. ASSUME NEW e \in Executors, ReadForClaim(e) PROVE TypeOK'
  BY <1>1, Edges DEF ReadForClaim
<1>2. ASSUME NEW e \in Workers, AcquireLease(e) PROVE TypeOK'
  <2> e \in Executors
    BY DEF Executors
  <2>1. CASE ClaimRefused(e)
    BY <2>1, EndsType DEF ClaimRefused
  <2>2. CASE /\ session' = [session EXCEPT !.status = "VERIFYING", !.lease_id = e]
             /\ BeginsAttempt(e, "leased")
    <3>1. session' \in Session
      BY <2>2, Edges DEF Session
    <3>2. pc' \in [Executors -> {"idle", "claiming"} \cup ActivePC]
      BY <2>2 DEF BeginsAttempt, ActivePC
    <3> QED BY <2>2, <3>1, <3>2 DEF BeginsAttempt
  <2> QED BY <1>2, <2>1, <2>2 DEF AcquireLease
<1>3. ASSUME NEW e \in Requests, StartRun(e) PROVE TypeOK'
  <2> e \in Executors
    BY DEF Executors
  <2>1. CASE ClaimRefused(e)
    BY <2>1, EndsType DEF ClaimRefused
  <2>2. CASE /\ session' = [session EXCEPT !.status = "VERIFYING",
                                           !.worker_phase = "GENERALIZED_PIPELINE"]
             /\ BeginsAttempt(e, "GENERALIZED_PIPELINE")
    <3>1. session' \in Session
      BY <2>2, Edges DEF Session
    <3>2. pc' \in [Executors -> {"idle", "claiming"} \cup ActivePC]
      BY <2>2 DEF BeginsAttempt, ActivePC, Stages
    <3> QED BY <2>2, <3>1, <3>2 DEF BeginsAttempt
  <2> QED BY <1>3, <2>1, <2>2 DEF StartRun
<1>4. ASSUME NEW e \in Workers, EnterPipeline(e) PROVE TypeOK'
  <2> e \in Executors
    BY DEF Executors
  <2>1. CASE session.lease_id = e
    <3>1. session' \in Session
      BY <1>4, <2>1 DEF EnterPipeline, Session, Phases
    <3>2. pc' \in [Executors -> {"idle", "claiming"} \cup ActivePC]
      BY <1>4, <2>1 DEF EnterPipeline, ActivePC, Stages, Phases
    <3> QED BY <1>4, <2>1, <3>1, <3>2 DEF EnterPipeline
  <2>2. CASE session.lease_id # e
    BY <1>4, <2>2, RaisesType DEF EnterPipeline, ErrorTypes
  <2> QED BY <2>1, <2>2
<1>5. ASSUME NEW e \in Workers, StageReturns(e) PROVE TypeOK'
  <2> e \in Executors
    BY DEF Executors
  <2>1. session' \in Session
    BY <1>5, ActivePCs DEF StageReturns, WithPhase, Session
  <2> QED BY <1>5, <2>1, ActivePCs DEF StageReturns
<1>6. ASSUME NEW e \in Executors, StageRaises(e) PROVE TypeOK'
  BY <1>6, StageErrorTypes, RaisesType DEF StageRaises
<1>7. ASSUME NEW e \in Executors, StoreAuditBundle(e) PROVE TypeOK'
  BY <1>7 DEF StoreAuditBundle, ActivePC
<1>8. ASSUME NEW e \in Executors, AuditBundleFails(e) PROVE TypeOK'
  <2>1. PICK type \in {"document_missing", "audit_store_failure"},
             after \in {"clean", "broken"} :
          /\ txn' = [txn EXCEPT ![e] = after]
          /\ \/ Raises(e, type)
             \/ /\ pc' = [pc EXCEPT ![e] = "completing"]
                /\ UNCHANGED <<error, beating>>
    BY <1>8 DEF AuditBundleFails
  <2>2. type \in ErrorTypes
    BY DEF ErrorTypes
  <2>3. CASE Raises(e, type)
    BY <1>8, <2>1, <2>2, <2>3, RaisesType DEF AuditBundleFails
  <2>4. CASE /\ pc' = [pc EXCEPT ![e] = "completing"]
             /\ UNCHANGED <<error, beating>>
    BY <1>8, <2>1, <2>4 DEF AuditBundleFails, ActivePC
  <2> QED BY <2>1, <2>3, <2>4
<1>9. ASSUME NEW e \in Executors, ReadForCompletion(e) PROVE TypeOK'
  <2>1. CASE Raises(e, "unknown_processing_error") /\ UNCHANGED seen
    BY <1>9, <2>1, RaisesType DEF ReadForCompletion, ErrorTypes
  <2>2. CASE /\ pc' = [pc EXCEPT ![e] = "committing"]
             /\ seen' = [seen EXCEPT ![e] = session.status]
             /\ UNCHANGED <<error, beating>>
    BY <1>9, <2>2 DEF ReadForCompletion, ActivePC, Session
  <2> QED BY <1>9, <2>1, <2>2 DEF ReadForCompletion
<1>10. ASSUME NEW e \in Executors, CommitCompletion(e) PROVE TypeOK'
  <2>1. CASE session.status = seen[e]
    <3>0. CompletionReceipt(e) \in Nat
      BY DEF CompletionReceipt, Session
    <3> DEFINE payload ==
                  IF e \in Requests THEN "sanitized" ELSE session.workspace_payload
               receipt == CompletionReceipt(e)
    <3>a. session' = [session EXCEPT
                         !.status = "PENDING_HUMAN_REVIEW", !.lease_id = NoLease,
                         !.heartbeat_at = "null", !.worker_phase = "COMPLETED",
                         !.trust_outcome = mine[e], !.workspace_payload = payload,
                         !.audit_receipt_id = receipt]
      BY <1>10, <2>1 DEF CommitCompletion
    <3>b. payload \in {"null", "sanitized"}
      BY DEF Session
    <3>c. mine[e] \in Nat
      OBVIOUS
    <3> HIDE DEF payload, receipt
    <3>1. session' \in Session
      BY <3>a, <3>b, <3>c, <3>0, Edges DEF Session, receipt
    <3> QED BY <1>10, <2>1, <3>1, EndsType, CommittedReceiptsType DEF CommitCompletion
  <2>2. CASE session.status # seen[e]
    BY <1>10, <2>2, RaisesType DEF CommitCompletion, ErrorTypes
  <2> QED BY <2>1, <2>2
<1>11. ASSUME NEW e \in Executors, ReadForFailure(e) PROVE TypeOK'
  BY <1>11 DEF ReadForFailure, ActivePC, Session
<1>12. ASSUME NEW e \in Executors, CommitFailure(e) PROVE TypeOK'
  <2>1. session' \in Session
    BY <1>12, FailureStates, Edges DEF CommitFailure, Session
  <2> QED BY <1>12, <2>1, EndsType, CommittedReceiptsType DEF CommitFailure
<1>13. ASSUME NEW e \in Executors, FailureNotRecorded(e) PROVE TypeOK'
  BY <1>13, EndsType, CommittedReceiptsType DEF FailureNotRecorded, GivesUp
<1>14. ASSUME NEW e \in Executors, Crash(e) PROVE TypeOK'
  BY <1>14, EndsType DEF Crash
<1>15. ASSUME NEW w \in Workers, HeartbeatTick(w) PROVE TypeOK'
  <2> w \in Executors
    BY DEF Executors
  <2>1. session' \in Session /\ beating' \in [Executors -> BOOLEAN]
    BY <1>15 DEF HeartbeatTick, Session
  <2> QED BY <1>15, <2>1, CommittedReceiptsType DEF HeartbeatTick
<1>16. ASSUME NEW w \in Workers, HeartbeatDies(w) PROVE TypeOK'
  BY <1>16 DEF HeartbeatDies, Executors
<1>17. ASSUME NEW w \in Workers, MarkStaleSession(w) PROVE TypeOK'
  BY <1>17, Edges DEF MarkStaleSession, execVars, Session
<1>18. CASE HeartbeatAges
  BY <1>18 DEF HeartbeatAges, execVars, Session
<1>19. CASE UNCHANGED vars
  BY <1>19 DEF vars
<1>20. ASSUME NEW decision \in Decisions, Decide(decision) PROVE TypeOK'
  BY <1>20, DecidedReceipt DEF Decide, execVars
<1>21. CASE Close
  <2>1. session.status \in SessionState /\ session'.status \in SessionState
    BY <1>21, ClosedStates DEF Close, Session, Closed
  <2>2. session' \in Session
    BY <1>21, <2>1 DEF Close, Session
  <2> QED BY <1>21, <2>2 DEF Close, execVars
<1> QED
  BY <1>1, <1>2, <1>3, <1>4, <1>5, <1>6, <1>7, <1>8, <1>9, <1>10, <1>11, <1>12,
     <1>13, <1>14, <1>15, <1>16, <1>17, <1>18, <1>19, <1>20, <1>21 DEF Next, Proceeds

\* TypeOK holds of every behaviour: the row, the receipts and the executors only
\* ever hold the values the columns and the code admit.
THEOREM TypeCorrect == Spec => []TypeOK
<1>1. Init => TypeOK
  BY Edges DEF Init, TypeOK, Session, ErrorTypes
<1> QED BY <1>1, TypeStep, PTL DEF Spec

-----------------------------------------------------------------------------
(* Mutual exclusion                                                        *)

\* The row by itself: leases and heartbeats are those of attempts, verdicts those
\* of the latest one.
RowOK ==
    /\ session.lease_id # NoLease => session.status = "VERIFYING"
    /\ session.heartbeat_at # "null" =>
          session.status \in {"VERIFYING", "ABANDONED_VERIFYING"}
    /\ VerdictOfLatestAttempt

\* The row as an executor in its pipeline may count on it.
OwnsAttempt(e) ==
    /\ mine[e] = attempts
    /\ attempts # 0
    /\ session.status \in {"VERIFYING", "ABANDONED_VERIFYING"}
    /\ session.lease_id \in {NoLease, e}

\* What an executor read is a status its coming UPDATE may change; only a worker
\* in its pipeline has a heartbeat thread.
ExecutorOK(e) ==
    /\ Active(e) => OwnsAttempt(e)
    /\ pc[e] = "leased" => session.lease_id = e /\ session.heartbeat_at = "null"
    /\ beating[e] => Active(e) /\ pc[e] # "leased"
    /\ pc[e] = "claiming" => seen[e] \in LEASE_ACQUIRABLE_STATES
    /\ pc[e] = "committing" => seen[e] = "VERIFYING"
    /\ pc[e] = "recording" => ValidTransition(seen[e], FailureState(e))

\* The inductive invariant.  SingleOwner is not inductive: a claim is exclusive
\* because the statuses it starts from are not those of a session some executor is
\* active on, and the lease it finds free was not left behind.
OwnershipInv ==
    /\ TypeOK
    /\ SingleOwner
    /\ RowOK
    /\ \A e \in Executors : ExecutorOK(e)

\* The initial state satisfies the invariant.
LEMMA OwnershipInit == Init => OwnershipInv
<1> SUFFICES ASSUME Init PROVE OwnershipInv
  OBVIOUS
<1>1. TypeOK
  BY Edges DEF Init, TypeOK, Session, ErrorTypes
<1>2. \A e \in Executors : pc[e] = "idle" /\ ~Active(e) /\ ~beating[e]
  BY ActivePCs DEF Init, Active
<1>3. RowOK
  BY DEF Init, RowOK, VerdictOfLatestAttempt, Verdicted, HUMAN_FINAL_STATES
<1>4. ASSUME NEW e \in Executors PROVE ExecutorOK(e)
  BY <1>2 DEF ExecutorOK
<1> QED BY <1>1, <1>2, <1>3, <1>4 DEF OwnershipInv, SingleOwner

\* No step but its own changes what an executor has read, works on or runs.
SameExecutor(f) ==
    /\ pc'[f] = pc[f]
    /\ seen'[f] = seen[f]
    /\ error'[f] = error[f]
    /\ mine'[f] = mine[f]
    /\ beating'[f] = beating[f]

\* An executor outside its pipeline is indifferent to the row.
LEMMA InactiveKeeps ==
    ASSUME NEW f \in Executors, ExecutorOK(f), SameExecutor(f), ~Active(f)
    PROVE  ExecutorOK(f)' /\ ~Active(f)'
<1>1. ~Active(f)'
  BY DEF Active, SameExecutor
<1>2. FailureState(f)' = FailureState(f)
  BY DEF FailureState, SameExecutor
<1>3. pc[f] # "leased" /\ pc[f] # "recording" /\ pc[f] # "committing"
  BY DEF Active, ActivePC
<1> QED BY <1>1, <1>3 DEF ExecutorOK, SameExecutor

\* An executor in its pipeline is indifferent to steps that leave it the session,
\* and, before its first heartbeat, a row with no heartbeat.
LEMMA ActiveKeeps ==
    ASSUME NEW f \in Executors, ExecutorOK(f), SameExecutor(f),
           OwnsAttempt(f) => OwnsAttempt(f)',
           pc[f] = "leased" => /\ session'.lease_id = session.lease_id
                               /\ session'.heartbeat_at = session.heartbeat_at
    PROVE  ExecutorOK(f)'
<1>1. Active(f)' <=> Active(f)
  BY DEF Active, SameExecutor
<1>2. FailureState(f)' = FailureState(f)
  BY DEF FailureState, SameExecutor
<1>3. /\ Active(f)' => OwnsAttempt(f)'
      /\ beating'[f] => Active(f)' /\ pc'[f] # "leased"
  BY <1>1 DEF ExecutorOK, SameExecutor
<1>4. pc'[f] = "recording" => ValidTransition(seen'[f], FailureState(f)')
  BY <1>2 DEF ExecutorOK, SameExecutor
<1> QED BY <1>3, <1>4 DEF ExecutorOK, SameExecutor

\* A step of one executor while no other is in its pipeline.
LEMMA ExclusiveStep ==
    ASSUME OwnershipInv, TypeOK', NEW e \in Executors,
           \A f \in Executors \ {e} : SameExecutor(f) /\ ~Active(f),
           RowOK', ExecutorOK(e)'
    PROVE  OwnershipInv'
<1>1. ASSUME NEW f \in Executors \ {e} PROVE ExecutorOK(f)' /\ ~Active(f)'
  BY <1>1, InactiveKeeps DEF OwnershipInv
<1>2. \A f \in Executors : ExecutorOK(f)'
  BY <1>1
<1>3. SingleOwner'
  BY <1>1 DEF SingleOwner
<1> QED BY <1>2, <1>3 DEF OwnershipInv

\* A step of one executor that leaves the row alone and begins no attempt.
LEMMA LocalStep ==
    ASSUME OwnershipInv, TypeOK', NEW e \in Executors,
           \A f \in Executors \ {e} : SameExecutor(f),
           UNCHANGED <<session, attempts>>,
           Active(e)' => Active(e), ExecutorOK(e)'
    PROVE  OwnershipInv'
<1>1. ASSUME NEW f \in Executors \ {e} PROVE ExecutorOK(f)' /\ (Active(f)' => Active(f))
  <2>1. OwnsAttempt(f) => OwnsAttempt(f)'
    BY <1>1 DEF OwnsAttempt, SameExecutor
  <2> QED BY <1>1, <2>1, ActiveKeeps DEF OwnershipInv, Active, SameExecutor
<1>2. \A f \in Executors : ExecutorOK(f)'
  BY <1>1
<1>3. SingleOwner'
  BY <1>1 DEF SingleOwner, OwnershipInv
<1>4. RowOK'
  BY DEF OwnershipInv, RowOK, VerdictOfLatestAttempt
<1> QED BY <1>2, <1>3, <1>4 DEF OwnershipInv

\* An executor in its pipeline is alone, and one that begins finds no other.
LEMMA Alone ==
    ASSUME OwnershipInv, NEW e \in Executors
    PROVE  /\ Active(e) => \A f \in Executors \ {e} : ~Active(f)
           /\ session.status \in LEASE_ACQUIRABLE_STATES =>
                 \A f \in Executors : ~Active(f)
BY Edges DEF OwnershipInv, SingleOwner, ExecutorOK, OwnsAttempt

\* An executor that ends leaves nothing behind that the invariant is about.
LEMMA EndsStep ==
    ASSUME OwnershipInv, TypeOK', NEW e \in Executors, Ends(e),
           UNCHANGED <<session, attempts>>
    PROVE  OwnershipInv'
<1>1. \A f \in Executors \ {e} : SameExecutor(f)
  BY DEF Ends, SameExecutor, OwnershipInv, TypeOK
<1>2. ExecutorOK(e)' /\ ~Active(e)'
  BY ActivePCs DEF Ends, OwnershipInv, TypeOK, ExecutorOK, Active
<1> QED BY <1>1, <1>2, LocalStep

\* A step inside the pipeline: its executor keeps the attempt and is still alone,
\* so the row's heartbeat and phase are its own to write.
LEMMA PipelineStep ==
    ASSUME OwnershipInv, TypeOK', NEW e \in Executors, Active(e),
           \A f \in Executors \ {e} : SameExecutor(f),
           UNCHANGED <<session.status, session.lease_id, session.trust_outcome, attempts>>,
           mine'[e] = mine[e], Active(e)', pc'[e] # "leased",
           pc'[e] = "committing" => seen'[e] = "VERIFYING",
           pc'[e] = "recording" => ValidTransition(seen'[e], FailureState(e)')
    PROVE  OwnershipInv'
<1>1. OwnsAttempt(e)' /\ session.status \in {"VERIFYING", "ABANDONED_VERIFYING"}
  BY DEF OwnershipInv, ExecutorOK, OwnsAttempt
<1>2. RowOK'
  BY <1>1 DEF OwnershipInv, RowOK, VerdictOfLatestAttempt
<1>3. pc'[e] # "claiming"
  BY ActivePCs DEF Active
<1>4. ExecutorOK(e)'
  BY <1>1, <1>3 DEF ExecutorOK
<1> QED BY <1>2, <1>4, Alone, ExclusiveStep

\* A failing pipeline still owns its attempt.
LEMMA RaisesStep ==
    ASSUME OwnershipInv, TypeOK', NEW e \in Executors, Active(e), NEW type,
           Raises(e, type), UNCHANGED <<session, mine, attempts>>,
           \A f \in Executors \ {e} : seen'[f] = seen[f]
    PROVE  OwnershipInv'
<1>1. \A f \in Executors \ {e} : SameExecutor(f)
  BY DEF Raises, SameExecutor, OwnershipInv, TypeOK
<1>2. pc'[e] = "failing" /\ Active(e)'
  BY DEF Raises, OwnershipInv, TypeOK, Active, ActivePC
<1> QED BY <1>1, <1>2, PipelineStep

\* A commit of the executor that ends with it: the row is free again.
LEMMA CommitStep ==
    ASSUME OwnershipInv, TypeOK', NEW e \in Executors, Active(e), Ends(e), RowOK'
    PROVE  OwnershipInv'
<1>1. \A f \in Executors \ {e} : SameExecutor(f)
  BY DEF Ends, SameExecutor, OwnershipInv, TypeOK
<1>2. ExecutorOK(e)'
  BY ActivePCs DEF Ends, OwnershipInv, TypeOK, ExecutorOK, Active
<1> QED BY <1>1, <1>2, Alone, ExclusiveStep

\* A step of the reviewer, or of the closing: no executor is in its pipeline, so none
\* is disturbed by what the row becomes.
LEMMA UnownedStep ==
    ASSUME OwnershipInv, TypeOK', session.status \in Closed \cup {"PENDING_HUMAN_REVIEW"},
           UNCHANGED execVars, RowOK'
    PROVE  OwnershipInv'
<1>1. ASSUME NEW f \in Executors PROVE ExecutorOK(f)' /\ ~Active(f)'
  <2>1. ~Active(f)
    BY ClosedStates DEF OwnershipInv, ExecutorOK, OwnsAttempt
  <2>2. SameExecutor(f)
    BY DEF execVars, SameExecutor
  <2> QED BY <2>1, <2>2, InactiveKeeps DEF OwnershipInv
<1> QED BY <1>1 DEF OwnershipInv, SingleOwner

\* Every step keeps the invariant.
LEMMA OwnershipStep == OwnershipInv /\ [Next]_vars => OwnershipInv'
<1> SUFFICES ASSUME OwnershipInv, [Next]_vars PROVE OwnershipInv'
  OBVIOUS
<1>0. TypeOK /\ TypeOK'
  BY TypeStep DEF OwnershipInv
<1>r. RowOK /\ \A e \in Executors : ExecutorOK(e)
  BY DEF OwnershipInv
<1>1. ASSUME NEW e \in Executors, ReadForClaim(e) PROVE OwnershipInv'
  <2>1. \A f \in Executors \ {e} : SameExecutor(f)
    BY <1>0, <1>1 DEF ReadForClaim, SameExecutor, TypeOK
  <2>2. ExecutorOK(e)' /\ ~Active(e)'
    <3>1. pc'[e] = "claiming" /\ seen'[e] \in LEASE_ACQUIRABLE_STATES /\ ~beating'[e]
      BY <1>0, <1>1, <1>r, ActivePCs DEF ReadForClaim, TypeOK, ExecutorOK, Active
    <3> QED BY <3>1, ActivePCs DEF ExecutorOK, Active
  <2> QED BY <1>0, <1>1, <2>1, <2>2, LocalStep DEF ReadForClaim
<1>2. ASSUME NEW e \in Workers, AcquireLease(e) PROVE OwnershipInv'
  <2> e \in Executors
    BY DEF Executors
  <2>1. CASE ClaimRefused(e)
    BY <1>0, <2>1, EndsStep DEF ClaimRefused
  <2>2. CASE /\ session.status = seen[e]
             /\ session' = [session EXCEPT !.status = "VERIFYING", !.lease_id = e]
             /\ BeginsAttempt(e, "leased")
    <3>1. session.status \in LEASE_ACQUIRABLE_STATES /\ ~beating[e]
      BY <1>2, <1>r, <2>2, ActivePCs DEF AcquireLease, ExecutorOK, Active
    <3>2. \A f \in Executors \ {e} : SameExecutor(f) /\ ~Active(f)
      BY <1>0, <2>2, <3>1, Alone DEF BeginsAttempt, SameExecutor, TypeOK
    <3>3. /\ session'.status = "VERIFYING" /\ session'.lease_id = e
          /\ session'.heartbeat_at = "null" /\ session'.trust_outcome = 0
          /\ session.heartbeat_at = "null"
      BY <1>0, <1>r, <2>2, <3>1, Edges, ClosedStates
         DEF RowOK, VerdictOfLatestAttempt, TypeOK, Session, Closed
    <3>4. /\ pc'[e] = "leased" /\ mine'[e] = attempts' /\ attempts' # 0 /\ ~beating'[e]
      BY <1>0, <2>2, <3>1 DEF BeginsAttempt, TypeOK
    <3>5. RowOK'
      BY <3>3, ClosedStates DEF RowOK, VerdictOfLatestAttempt
    <3>6. ExecutorOK(e)'
      BY <3>3, <3>4 DEF ExecutorOK, OwnsAttempt
    <3> QED BY <1>0, <3>2, <3>5, <3>6, ExclusiveStep
  <2> QED BY <1>2, <2>1, <2>2 DEF AcquireLease
<1>3. ASSUME NEW e \in Requests, StartRun(e) PROVE OwnershipInv'
  <2> e \in Executors
    BY DEF Executors
  <2>1. CASE ClaimRefused(e)
    BY <1>0, <2>1, EndsStep DEF ClaimRefused
  <2>2. CASE /\ session.status = seen[e]
             /\ session' = [session EXCEPT !.status = "VERIFYING",
                                           !.worker_phase = "GENERALIZED_PIPELINE"]
             /\ BeginsAttempt(e, "GENERALIZED_PIPELINE")
    <3>1. session.status \in LEASE_ACQUIRABLE_STATES /\ ~beating[e]
      BY <1>3, <1>r, <2>2, ActivePCs DEF StartRun, ExecutorOK, Active
    <3>2. \A f \in Executors \ {e} : SameExecutor(f) /\ ~Active(f)
      BY <1>0, <2>2, <3>1, Alone DEF BeginsAttempt, SameExecutor, TypeOK
    <3>3. /\ session'.status = "VERIFYING" /\ session'.lease_id = NoLease
          /\ session'.heartbeat_at = "null" /\ session'.trust_outcome = 0
      BY <1>0, <1>r, <2>2, <3>1, Edges, ClosedStates
         DEF RowOK, VerdictOfLatestAttempt, TypeOK, Session, Closed
    <3>4. /\ pc'[e] = "GENERALIZED_PIPELINE" /\ mine'[e] = attempts' /\ attempts' # 0
          /\ ~beating'[e]
      BY <1>0, <2>2, <3>1 DEF BeginsAttempt, TypeOK
    <3>5. RowOK'
      BY <3>3, ClosedStates DEF RowOK, VerdictOfLatestAttempt
    <3>6. ExecutorOK(e)'
      BY <3>3, <3>4 DEF ExecutorOK, OwnsAttempt
    <3> QED BY <1>0, <3>2, <3>5, <3>6, ExclusiveStep
  <2> QED BY <1>3, <2>1, <2>2 DEF StartRun
<1>4. ASSUME NEW e \in Workers, EnterPipeline(e) PROVE OwnershipInv'
  <2> e \in Executors
    BY DEF Executors
  <2>1. Active(e)
    BY <1>4 DEF EnterPipeline, Active, ActivePC
  <2>2. CASE session.lease_id = e
    <3>1. \A f \in Executors \ {e} : SameExecutor(f)
      BY <1>0, <1>4, <2>2 DEF EnterPipeline, SameExecutor, TypeOK
    <3>2. UNCHANGED <<session.status, session.lease_id, session.trust_outcome, attempts>>
      BY <1>0, <1>4, <2>2 DEF EnterPipeline, TypeOK, Session
    <3>3. pc'[e] = "EXTRACTING" /\ mine'[e] = mine[e]
      BY <1>0, <1>4, <2>2 DEF EnterPipeline, TypeOK
    <3>4. Active(e)'
      BY <3>3 DEF Active, ActivePC, Stages, Phases
    <3> QED BY <1>0, <2>1, <3>1, <3>2, <3>3, <3>4, PipelineStep
  <2>3. CASE session.lease_id # e
    BY <1>0, <1>4, <2>1, <2>3, RaisesStep DEF EnterPipeline
  <2> QED BY <2>2, <2>3
<1>5. ASSUME NEW e \in Workers, StageReturns(e) PROVE OwnershipInv'
  <2> e \in Executors
    BY DEF Executors
  <2>1. Active(e)
    BY <1>5, ActivePCs DEF StageReturns, Active, ActivePC, Stages, Phases
  <2>2. \A f \in Executors \ {e} : SameExecutor(f)
    BY <1>0, <1>5 DEF StageReturns, SameExecutor, TypeOK
  <2>3. UNCHANGED <<session.status, session.lease_id, session.trust_outcome, attempts>>
    BY <1>0, <1>5 DEF StageReturns, WithPhase, TypeOK, Session
  <2>4. pc'[e] \in Phases /\ mine'[e] = mine[e]
    BY <1>0, <1>5, ActivePCs DEF StageReturns, TypeOK
  <2>5. Active(e)' /\ pc'[e] \notin {"leased", "committing", "recording"}
    BY <2>4 DEF Active, ActivePC, Stages, Phases
  <2> QED BY <1>0, <2>1, <2>2, <2>3, <2>4, <2>5, PipelineStep
<1>6. ASSUME NEW e \in Executors, StageRaises(e) PROVE OwnershipInv'
  <2>1. Active(e)
    BY <1>6, ActivePCs DEF StageRaises, Active
  <2> QED BY <1>0, <1>6, <2>1, RaisesStep DEF StageRaises
<1>7. ASSUME NEW e \in Executors, StoreAuditBundle(e) PROVE OwnershipInv'
  <2>1. Active(e)
    BY <1>7 DEF StoreAuditBundle, Active, ActivePC, Stages, Phases
  <2>2. \A f \in Executors \ {e} : SameExecutor(f)
    BY <1>0, <1>7 DEF StoreAuditBundle, SameExecutor, TypeOK
  <2>3. pc'[e] = "completing" /\ Active(e)'
    BY <1>0, <1>7 DEF StoreAuditBundle, TypeOK, Active, ActivePC
  <2> QED BY <1>0, <1>7, <2>1, <2>2, <2>3, PipelineStep DEF StoreAuditBundle
<1>8. ASSUME NEW e \in Executors, AuditBundleFails(e) PROVE OwnershipInv'
  <2>1. Active(e)
    BY <1>8 DEF AuditBundleFails, Active, ActivePC, Stages, Phases
  <2>2. CASE \E type : Raises(e, type)
    BY <1>0, <1>8, <2>1, <2>2, RaisesStep DEF AuditBundleFails
  <2>3. CASE /\ pc' = [pc EXCEPT ![e] = "completing"]
             /\ UNCHANGED <<error, beating>>
    <3>1. \A f \in Executors \ {e} : SameExecutor(f)
      BY <1>0, <1>8, <2>3 DEF AuditBundleFails, SameExecutor, TypeOK
    <3>2. pc'[e] = "completing" /\ Active(e)'
      BY <1>0, <2>3 DEF TypeOK, Active, ActivePC
    <3> QED BY <1>0, <1>8, <2>1, <3>1, <3>2, PipelineStep DEF AuditBundleFails
  <2> QED BY <1>8, <2>2, <2>3 DEF AuditBundleFails
<1>9. ASSUME NEW e \in Executors, ReadForCompletion(e) PROVE OwnershipInv'
  <2>1. Active(e)
    BY <1>9 DEF ReadForCompletion, Active, ActivePC
  <2>2. CASE Raises(e, "unknown_processing_error") /\ UNCHANGED seen
    BY <1>0, <1>9, <2>1, <2>2, RaisesStep DEF ReadForCompletion
  <2>3. CASE /\ ValidTransition(session.status, "PENDING_HUMAN_REVIEW")
             /\ pc' = [pc EXCEPT ![e] = "committing"]
             /\ seen' = [seen EXCEPT ![e] = session.status]
             /\ UNCHANGED <<error, beating>>
    <3>1. \A f \in Executors \ {e} : SameExecutor(f)
      BY <1>0, <1>9, <2>3 DEF ReadForCompletion, SameExecutor, TypeOK
    <3>2. pc'[e] = "committing" /\ Active(e)'
      BY <1>0, <2>3 DEF TypeOK, Active, ActivePC
    <3>3. seen'[e] = "VERIFYING"
      BY <1>0, <1>r, <2>1, <2>3, Edges DEF TypeOK, ExecutorOK, OwnsAttempt
    <3> QED BY <1>0, <1>9, <2>1, <3>1, <3>2, <3>3, PipelineStep DEF ReadForCompletion
  <2> QED BY <1>9, <2>2, <2>3 DEF ReadForCompletion
<1>10. ASSUME NEW e \in Executors, CommitCompletion(e) PROVE OwnershipInv'
  <2>1. Active(e)
    BY <1>10 DEF CommitCompletion, Active, ActivePC
  <2>2. CASE session.status = seen[e]
    <3>1. /\ session'.status = "PENDING_HUMAN_REVIEW" /\ session'.lease_id = NoLease
          /\ session'.heartbeat_at = "null" /\ session'.trust_outcome = mine[e]
          /\ attempts' = attempts
      BY <1>0, <1>10, <2>2 DEF CommitCompletion, TypeOK, Session
    <3>2. mine[e] = attempts /\ attempts # 0
      BY <1>r, <2>1 DEF ExecutorOK, OwnsAttempt
    <3>3. RowOK'
      BY <3>1, <3>2 DEF RowOK, VerdictOfLatestAttempt, Verdicted
    <3> QED BY <1>0, <1>10, <2>1, <2>2, <3>3, CommitStep DEF CommitCompletion
  <2>3. CASE session.status # seen[e]
    BY <1>0, <1>10, <2>1, <2>3, RaisesStep DEF CommitCompletion
  <2> QED BY <2>2, <2>3
<1>11. ASSUME NEW e \in Executors, ReadForFailure(e) PROVE OwnershipInv'
  <2>1. Active(e)
    BY <1>11 DEF ReadForFailure, Active, ActivePC
  <2>2. \A f \in Executors \ {e} : SameExecutor(f)
    BY <1>0, <1>11 DEF ReadForFailure, SameExecutor, TypeOK
  <2>3. /\ pc'[e] = "recording" /\ seen'[e] = session.status /\ error' = error
    BY <1>0, <1>11 DEF ReadForFailure, TypeOK
  <2>4. ValidTransition(seen'[e], FailureState(e)')
    BY <1>11, <2>3 DEF ReadForFailure, FailureState
  <2>5. Active(e)'
    BY <2>3 DEF Active, ActivePC
  <2> QED BY <1>0, <1>11, <2>1, <2>2, <2>3, <2>4, <2>5, PipelineStep DEF ReadForFailure
<1>12. ASSUME NEW e \in Executors, CommitFailure(e) PROVE OwnershipInv'
  <2>1. Active(e)
    BY <1>12 DEF CommitFailure, Active, ActivePC
  <2>2. /\ session'.status = FailureState(e) /\ session'.lease_id = NoLease
        /\ session'.heartbeat_at = "null" /\ session'.trust_outcome = 0
    BY <1>0, <1>12 DEF CommitFailure, TypeOK, Session
  <2>3. RowOK'
    BY <2>2, FailureStates, ClosedStates DEF RowOK, VerdictOfLatestAttempt
  <2> QED BY <1>0, <1>12, <2>1, <2>3, CommitStep DEF CommitFailure
<1>13. ASSUME NEW e \in Executors, FailureNotRecorded(e) PROVE OwnershipInv'
  BY <1>0, <1>13, EndsStep DEF FailureNotRecorded, GivesUp
<1>14. ASSUME NEW e \in Executors, Crash(e) PROVE OwnershipInv'
  BY <1>0, <1>14, EndsStep DEF Crash
<1>15. ASSUME NEW w \in Workers, HeartbeatTick(w) PROVE OwnershipInv'
  <2> w \in Executors
    BY DEF Executors
  <2>1. Active(w) /\ pc[w] # "leased"
    BY <1>15, <1>r DEF HeartbeatTick, ExecutorOK
  <2>2. \A f \in Executors \ {w} : SameExecutor(f)
    BY <1>0, <1>15 DEF HeartbeatTick, SameExecutor, TypeOK
  <2>3. UNCHANGED <<session.status, session.lease_id, session.trust_outcome>>
    BY <1>0, <1>15 DEF HeartbeatTick, TypeOK, Session
  <2>4. Active(w)' /\ FailureState(w)' = FailureState(w)
    BY <1>15, <2>1 DEF HeartbeatTick, Active, FailureState
  <2>5. /\ pc'[w] = "committing" => seen'[w] = "VERIFYING"
        /\ pc'[w] = "recording" => ValidTransition(seen'[w], FailureState(w)')
    BY <1>15, <1>r, <2>4 DEF HeartbeatTick, ExecutorOK
  <2> QED BY <1>0, <1>15, <2>1, <2>2, <2>3, <2>4, <2>5, PipelineStep DEF HeartbeatTick
<1>16. ASSUME NEW w \in Workers, HeartbeatDies(w) PROVE OwnershipInv'
  <2> w \in Executors
    BY DEF Executors
  <2>1. Active(w) /\ pc[w] # "leased"
    BY <1>16, <1>r DEF HeartbeatDies, ExecutorOK
  <2>2. \A f \in Executors \ {w} : SameExecutor(f)
    BY <1>0, <1>16 DEF HeartbeatDies, SameExecutor, TypeOK
  <2>3. Active(w)' /\ FailureState(w)' = FailureState(w)
    BY <1>16, <2>1 DEF HeartbeatDies, Active, FailureState
  <2>4. /\ pc'[w] = "committing" => seen'[w] = "VERIFYING"
        /\ pc'[w] = "recording" => ValidTransition(seen'[w], FailureState(w)')
    BY <1>16, <1>r, <2>3 DEF HeartbeatDies, ExecutorOK
  <2> QED BY <1>0, <1>16, <2>1, <2>2, <2>3, <2>4, PipelineStep DEF HeartbeatDies
<1>17. ASSUME NEW w \in Workers, MarkStaleSession(w) PROVE OwnershipInv'
  <2>1. /\ session'.status = "ABANDONED_VERIFYING" /\ session'.lease_id = NoLease
        /\ session'.heartbeat_at = "stale" /\ session'.trust_outcome = session.trust_outcome
        /\ session.heartbeat_at = "stale" /\ session.status = "VERIFYING"
        /\ attempts' = attempts
    BY <1>0, <1>17 DEF MarkStaleSession, TypeOK, Session
  <2>2. RowOK'
    BY <1>r, <2>1, ClosedStates DEF RowOK, VerdictOfLatestAttempt, Closed
  <2>3. ASSUME NEW f \in Executors PROVE SameExecutor(f) /\ ExecutorOK(f)'
    <3>1. SameExecutor(f)
      BY <1>17 DEF MarkStaleSession, execVars, SameExecutor
    <3>2. OwnsAttempt(f) => OwnsAttempt(f)'
      BY <2>1, <3>1 DEF OwnsAttempt, SameExecutor
    <3>3. pc[f] # "leased"
      BY <1>r, <2>1 DEF ExecutorOK
    <3> QED BY <1>r, <3>1, <3>2, <3>3, ActiveKeeps
  <2>4. SingleOwner'
    BY <2>3 DEF SingleOwner, OwnershipInv, SameExecutor, Active
  <2> QED BY <1>0, <2>2, <2>3, <2>4 DEF OwnershipInv
<1>18. CASE HeartbeatAges
  <2>1. /\ UNCHANGED <<session.status, session.lease_id, session.trust_outcome, attempts>>
        /\ session.heartbeat_at = "fresh" /\ session'.heartbeat_at = "stale"
    BY <1>0, <1>18 DEF HeartbeatAges, TypeOK, Session
  <2>2. RowOK'
    BY <1>r, <2>1 DEF RowOK, VerdictOfLatestAttempt
  <2>3. ASSUME NEW f \in Executors PROVE SameExecutor(f) /\ ExecutorOK(f)'
    <3>1. SameExecutor(f)
      BY <1>18 DEF HeartbeatAges, execVars, SameExecutor
    <3>2. OwnsAttempt(f) => OwnsAttempt(f)'
      BY <2>1, <3>1 DEF OwnsAttempt, SameExecutor
    <3>3. pc[f] # "leased"
      BY <1>r, <2>1 DEF ExecutorOK
    <3> QED BY <1>r, <3>1, <3>2, <3>3, ActiveKeeps
  <2>4. SingleOwner'
    BY <2>3 DEF SingleOwner, OwnershipInv, SameExecutor, Active
  <2> QED BY <1>0, <2>2, <2>3, <2>4 DEF OwnershipInv
<1>19. CASE UNCHANGED vars
  BY <1>19 DEF vars, OwnershipInv, TypeOK, SingleOwner, RowOK, VerdictOfLatestAttempt,
     ExecutorOK, OwnsAttempt, Active, FailureState
<1>20. ASSUME NEW decision \in Decisions, Decide(decision) PROVE OwnershipInv'
  <2>1. /\ session.status = "PENDING_HUMAN_REVIEW"
        /\ session'.status \in HUMAN_FINAL_STATES
        /\ UNCHANGED <<session.lease_id, session.heartbeat_at, session.trust_outcome,
                       attempts>>
    BY <1>0, <1>20, DecidedReceipt, ClosedStates DEF Decide
  <2>2. RowOK'
    BY <1>r, <2>1, ClosedStates DEF RowOK, VerdictOfLatestAttempt, Verdicted
  <2> QED BY <1>0, <1>20, <2>1, <2>2, UnownedStep DEF Decide
<1>21. CASE Close
  <2>1. /\ session.status \in HUMAN_FINAL_STATES \cup {"PENDING_CLEANUP"}
        /\ session'.status \in {"PENDING_CLEANUP", "PURGE_COMPLETE", "FAILED_PURGED"}
        /\ session'.heartbeat_at \in {session.heartbeat_at, "null"}
        /\ UNCHANGED <<session.lease_id, session.trust_outcome, attempts>>
    BY <1>0, <1>21 DEF Close, TypeOK, Session
  <2>2. session.status \in Closed
    BY <2>1 DEF Closed
  <2>3. RowOK'
    BY <1>r, <2>1, <2>2, ClosedStates DEF RowOK, VerdictOfLatestAttempt, Verdicted
  <2> QED BY <1>0, <1>21, <2>2, <2>3, UnownedStep DEF Close
<1> QED
  BY <1>1, <1>2, <1>3, <1>4, <1>5, <1>6, <1>7, <1>8, <1>9, <1>10, <1>11, <1>12,
     <1>13, <1>14, <1>15, <1>16, <1>17, <1>18, <1>19, <1>20, <1>21 DEF Next, Proceeds

\* The invariant holds of every behaviour.
LEMMA OwnershipInvariant == Spec => []OwnershipInv
BY OwnershipInit, OwnershipStep, PTL DEF Spec

\* At most one executor is in the pipeline of the session, however many workers and
\* /run requests ask for it and whichever of them crash or are abandoned.
THEOREM MutualExclusion == Spec => []SingleOwner
<1>1. OwnershipInv => SingleOwner
  BY DEF OwnershipInv
<1> QED BY <1>1, OwnershipInvariant, PTL

\* An executor in its pipeline works on the latest attempt of a session nobody has
\* closed, reviewed or retried.
THEOREM OwnersHoldTheSession == Spec => []OwnerHoldsSession
<1>1. OwnershipInv => OwnerHoldsSession
  BY DEF OwnershipInv, OwnerHoldsSession, ExecutorOK, OwnsAttempt
<1> QED BY <1>1, OwnershipInvariant, PTL

\* A lease excludes every other executor, and one just taken is still held when
\* its worker initialises the heartbeat.
THEOREM LeasesExclude == Spec => []LeaseExcludesOthers
<1>1. OwnershipInv => LeaseExcludesOthers
  BY DEF OwnershipInv, RowOK, LeaseExcludesOthers, ExecutorOK, OwnsAttempt, Executors
<1> QED BY <1>1, OwnershipInvariant, PTL

\* A session that waits for its reviewer, was decided or was purged shows a verdict, and
\* the verdict is that of the attempt begun last.
THEOREM VerdictsAreLatest == Spec => []VerdictOfLatestAttempt
<1>1. OwnershipInv => VerdictOfLatestAttempt
  BY DEF OwnershipInv, RowOK
<1> QED BY <1>1, OwnershipInvariant, PTL

-----------------------------------------------------------------------------
(* Transitions                                                             *)

\* A step that changes the status does so along an edge of the table: a claim and a
\* commit by their reads, the stale scan by its WHERE clause.
LEMMA TransitionStep ==
    ASSUME OwnershipInv, [Next]_vars, session'.status # session.status
    PROVE  ValidTransition(session.status, session'.status)
<1>0. session \in Session /\ \A e \in Executors : ExecutorOK(e)
  BY DEF OwnershipInv, TypeOK
<1>1. ASSUME NEW e \in Workers, AcquireLease(e)
      PROVE  ValidTransition(session.status, session'.status)
  <2>1. session.status \in LEASE_ACQUIRABLE_STATES /\ session'.status = "VERIFYING"
    BY <1>0, <1>1 DEF AcquireLease, ClaimRefused, ExecutorOK, Executors, Session
  <2> QED BY <2>1, Edges
<1>2. ASSUME NEW e \in Requests, StartRun(e)
      PROVE  ValidTransition(session.status, session'.status)
  <2>1. session.status \in LEASE_ACQUIRABLE_STATES /\ session'.status = "VERIFYING"
    BY <1>0, <1>2 DEF StartRun, ClaimRefused, ExecutorOK, Executors, Session
  <2> QED BY <2>1, Edges
<1>3. ASSUME NEW e \in Executors, CommitCompletion(e)
      PROVE  ValidTransition(session.status, session'.status)
  <2>1. session.status = "VERIFYING" /\ session'.status = "PENDING_HUMAN_REVIEW"
    BY <1>0, <1>3 DEF CommitCompletion, ExecutorOK, Session
  <2> QED BY <2>1 DEF ValidTransition, ALLOWED_TRANSITIONS
<1>4. ASSUME NEW e \in Executors, CommitFailure(e)
      PROVE  ValidTransition(session.status, session'.status)
  BY <1>0, <1>4 DEF CommitFailure, ExecutorOK, Session
<1>5. ASSUME NEW w \in Workers, MarkStaleSession(w)
      PROVE  ValidTransition(session.status, session'.status)
  <2>1. session.status = "VERIFYING" /\ session'.status = "ABANDONED_VERIFYING"
    BY <1>0, <1>5 DEF MarkStaleSession, Session
  <2> QED BY <2>1 DEF ValidTransition, ALLOWED_TRANSITIONS
<1>6. ASSUME NEW e \in Executors,
             \/ ReadForClaim(e) \/ StageRaises(e) \/ StoreAuditBundle(e)
             \/ AuditBundleFails(e) \/ ReadForCompletion(e) \/ ReadForFailure(e)
             \/ FailureNotRecorded(e) \/ Crash(e)
      PROVE  session' = session
  BY <1>6 DEF ReadForClaim, StageRaises, StoreAuditBundle, AuditBundleFails,
     ReadForCompletion, ReadForFailure, FailureNotRecorded, GivesUp, Crash
<1>7. ASSUME NEW w \in Workers,
             \/ EnterPipeline(w) \/ StageReturns(w) \/ HeartbeatTick(w) \/ HeartbeatDies(w)
      PROVE  session'.status = session.status
  BY <1>0, <1>7 DEF EnterPipeline, StageReturns, WithPhase, HeartbeatTick, HeartbeatDies,
     Session
<1>8. HeartbeatAges \/ UNCHANGED vars => session'.status = session.status
  BY <1>0 DEF HeartbeatAges, vars, Session
<1>9. ASSUME NEW decision \in Decisions, Decide(decision)
      PROVE  ValidTransition(session.status, session'.status)
  <2>1. session.status = "PENDING_HUMAN_REVIEW" /\ session'.status \in HUMAN_FINAL_STATES
    BY <1>9, DecidedReceipt, ClosedStates DEF Decide, OwnershipInv
  <2> QED BY <2>1 DEF ValidTransition, ALLOWED_TRANSITIONS
<1>10. ASSUME Close PROVE ValidTransition(session.status, session'.status)
  <2>1. \/ /\ session.status \in HUMAN_FINAL_STATES
           /\ session'.status = "PENDING_CLEANUP"
        \/ /\ session.status = "PENDING_CLEANUP"
           /\ session'.status \in {"PURGE_COMPLETE", "FAILED_PURGED"}
    BY <1>0, <1>10 DEF Close, Session
  <2> QED BY <2>1 DEF ValidTransition, ALLOWED_TRANSITIONS
<1> QED
  BY <1>1, <1>2, <1>3, <1>4, <1>5, <1>6, <1>7, <1>8, <1>9, <1>10 DEF Next, Proceeds

\* The status of a session only ever follows the transition table, although a
\* transition is checked on a read that another executor may outdate.
THEOREM TransitionsFollowTable == Spec => StatusFollowsTable
BY OwnershipInvariant, TransitionStep, PTL DEF Spec, StatusFollowsTable

-----------------------------------------------------------------------------
(* Receipts                                                                *)

\* Before it stores its audit bundle an executor finds no receipt of its attempt,
\* and a flushed receipt is not among the committed ones.
ReceiptsOf(n) == {i \in DOMAIN receipts : receipts[i].attempt = n}

ReceiptsOK(e) ==
    /\ txn[e] = "flushed" =>
          pc[e] \in {"completing", "committing", "failing", "recording"}
    /\ txn[e] = "flushed" \/ pc[e] \in {"leased"} \cup Stages => ReceiptsOf(mine[e]) = {}

\* The first two parts of ReceiptsConsistent.
ReceiptsNamed ==
    /\ \A i, j \in DOMAIN receipts : receipts[i].attempt = receipts[j].attempt => i = j
    /\ session.audit_receipt_id # 0 =>
          \E i \in DOMAIN receipts : receipts[i].attempt = session.audit_receipt_id

ReceiptsInv ==
    /\ ReceiptsNamed
    /\ \A i \in DOMAIN receipts : receipts[i].attempt <= attempts
    /\ \A e \in Executors : ReceiptsOK(e)

\* An executor with something to lose in its transaction is in its pipeline.
LEMMA FlushedIsActive ==
    ASSUME ReceiptsInv, NEW e \in Executors,
           txn[e] = "flushed" \/ pc[e] \in {"leased"} \cup Stages
    PROVE  Active(e)
BY DEF ReceiptsInv, ReceiptsOK, Active, ActivePC

\* A step of one executor that commits no receipt and names none.
LEMMA NoReceiptStep ==
    ASSUME ReceiptsInv, NEW e \in Executors,
           UNCHANGED <<receipts, session.audit_receipt_id, attempts>>,
           \A f \in Executors \ {e} :
              UNCHANGED <<txn[f], pc[f], mine[f]>>,
           ReceiptsOK(e)'
    PROVE  ReceiptsInv'
<1>1. ReceiptsNamed'
  BY DEF ReceiptsInv, ReceiptsNamed
<1>2. ASSUME NEW f \in Executors \ {e} PROVE ReceiptsOK(f)'
  BY <1>2 DEF ReceiptsInv, ReceiptsOK, ReceiptsOf
<1> QED BY <1>1, <1>2 DEF ReceiptsInv

\* What a commit of an executor in its pipeline makes of the receipts.
LEMMA CommittedReceiptsFacts ==
    ASSUME OwnershipInv, ReceiptsInv, NEW e \in Executors, Active(e),
           receipts' = CommittedReceipts(e), attempts' = attempts
    PROVE  /\ \A i, j \in DOMAIN receipts' :
                 receipts'[i].attempt = receipts'[j].attempt => i = j
           /\ \A i \in DOMAIN receipts' : receipts'[i].attempt <= attempts'
           /\ \A i \in DOMAIN receipts : i \in DOMAIN receipts' /\ receipts'[i] = receipts[i]
           /\ txn[e] = "flushed" =>
                 \E i \in DOMAIN receipts' : receipts'[i].attempt = mine[e]
<1>1. CASE txn[e] # "flushed"
  BY <1>1 DEF CommittedReceipts, ReceiptsInv, ReceiptsNamed
<1>2. CASE txn[e] = "flushed"
  <2> DEFINE new == [attempt |-> mine[e], trust_outcome |-> mine[e],
                     reviewer_decision |-> "NULL"]
  <2>1. receipts' = Append(receipts, new) /\ new.attempt = mine[e]
    BY <1>2 DEF CommittedReceipts
  <2>2. mine[e] = attempts /\ attempts \in Nat /\ receipts \in Seq(Receipt)
    BY DEF OwnershipInv, ExecutorOK, OwnsAttempt, TypeOK
  <2>3. \A i \in DOMAIN receipts : receipts[i].attempt # mine[e]
    BY <1>2 DEF ReceiptsInv, ReceiptsOK, ReceiptsOf
  <2> HIDE DEF new
  <2>4. /\ DOMAIN receipts = 1..Len(receipts) /\ Len(receipts) \in Nat
        /\ DOMAIN receipts' = 1..(Len(receipts) + 1)
        /\ \A i \in DOMAIN receipts : receipts'[i] = receipts[i]
        /\ receipts'[Len(receipts) + 1] = new
    BY <2>1, <2>2
  <2>5. \A i \in DOMAIN receipts' : i \in DOMAIN receipts \/ i = Len(receipts) + 1
    BY <2>4
  <2>6. \A i \in DOMAIN receipts : i \in DOMAIN receipts'
    BY <2>4
  <2>7. \A i, j \in DOMAIN receipts' :
            receipts'[i].attempt = receipts'[j].attempt => i = j
    BY <2>1, <2>3, <2>4, <2>5 DEF ReceiptsInv, ReceiptsNamed
  <2>8. \A i \in DOMAIN receipts' : receipts'[i].attempt <= attempts'
    BY <2>1, <2>2, <2>4, <2>5 DEF ReceiptsInv
  <2>9. \E i \in DOMAIN receipts' : receipts'[i].attempt = mine[e]
    BY <2>1, <2>4
  <2> QED BY <2>4, <2>6, <2>7, <2>8, <2>9
<1> QED BY <1>1, <1>2

\* A step of an executor in its pipeline that commits its transaction, and names in
\* the row a receipt that is committed by then.
LEMMA ReceiptStep ==
    ASSUME OwnershipInv, ReceiptsInv, NEW e \in Executors, Active(e),
           receipts' = CommittedReceipts(e), attempts' = attempts,
           session'.audit_receipt_id \in {session.audit_receipt_id, CompletionReceipt(e)},
           \A f \in Executors \ {e} : UNCHANGED <<txn[f], pc[f], mine[f]>>,
           ReceiptsOK(e)'
    PROVE  ReceiptsInv'
<1>2. ASSUME NEW f \in Executors \ {e} PROVE ReceiptsOK(f)'
  <2>1. ~(txn[f] = "flushed" \/ pc[f] \in {"leased"} \cup Stages)
    BY <1>2, Alone, FlushedIsActive
  <2> QED BY <1>2, <2>1 DEF ReceiptsOK
<1>3. session'.audit_receipt_id # 0 =>
          \E i \in DOMAIN receipts' : receipts'[i].attempt = session'.audit_receipt_id
  BY CommittedReceiptsFacts DEF CompletionReceipt, ReceiptsInv, ReceiptsNamed
<1>4. ReceiptsNamed'
  BY <1>3, CommittedReceiptsFacts DEF ReceiptsNamed
<1> QED BY <1>2, <1>4, CommittedReceiptsFacts DEF ReceiptsInv

\* Every step keeps the invariant of the receipts.
LEMMA ReceiptsInvStep ==
    OwnershipInv /\ ReceiptsInv /\ [Next]_vars => ReceiptsInv'
<1> SUFFICES ASSUME OwnershipInv, ReceiptsInv, [Next]_vars PROVE ReceiptsInv'
  OBVIOUS
<1>0. TypeOK
  BY DEF OwnershipInv
<1> DEFINE After(e) == /\ txn'[e] # "flushed"
                       /\ pc'[e] \notin {"leased"} \cup Stages
<1>a. ASSUME NEW e \in Executors, After(e) PROVE ReceiptsOK(e)'
  BY <1>a DEF ReceiptsOK
<1>b. ASSUME NEW e \in Executors, Ends(e)
      PROVE  After(e) /\ \A f \in Executors \ {e} : UNCHANGED <<txn[f], pc[f], mine[f]>>
  BY <1>0, <1>b, ActivePCs DEF Ends, TypeOK, ActivePC
<1>c. ASSUME NEW e \in Executors, NEW type, Raises(e, type)
      PROVE  pc'[e] = "failing" /\ \A f \in Executors \ {e} : pc'[f] = pc[f]
  BY <1>0, <1>c DEF Raises, TypeOK
<1>d. "failing" \notin {"leased"} \cup Stages /\ "completing" \notin {"leased"} \cup Stages
        /\ "claiming" \notin {"leased"} \cup Stages
  BY DEF Stages, Phases
<1> HIDE DEF After
<1>1. ASSUME NEW e \in Executors, ReadForClaim(e) PROVE ReceiptsInv'
  <2>1. pc'[e] = "claiming" /\ \A f \in Executors \ {e} : UNCHANGED <<txn[f], pc[f], mine[f]>>
    BY <1>0, <1>1 DEF ReadForClaim, TypeOK
  <2>2. txn'[e] # "flushed"
    BY <1>1, FlushedIsActive, ActivePCs DEF ReadForClaim, Active
  <2> QED BY <1>1, <1>a, <1>d, <2>1, <2>2, NoReceiptStep DEF ReadForClaim, After
<1>2. ASSUME NEW e \in Executors, ClaimRefused(e) PROVE ReceiptsInv'
  BY <1>2, <1>a, <1>b, NoReceiptStep DEF ClaimRefused
<1>3. ASSUME NEW e \in Executors, NEW first, BeginsAttempt(e, first),
             session'.audit_receipt_id = session.audit_receipt_id, pc[e] = "claiming"
      PROVE  ReceiptsInv'
  <2>1. /\ \A f \in Executors \ {e} : UNCHANGED <<txn[f], pc[f], mine[f]>>
        /\ mine'[e] = attempts + 1 /\ attempts' = attempts + 1 /\ attempts \in Nat
        /\ receipts' = receipts /\ receipts \in Seq(Receipt)
    BY <1>0, <1>3 DEF BeginsAttempt, TypeOK
  <2>2. \A i \in DOMAIN receipts :
            receipts[i].attempt \in Nat /\ receipts[i].attempt <= attempts
    <3>1. \A i \in DOMAIN receipts : receipts[i] \in Receipt
      BY <2>1
    <3>2. \A r \in Receipt : r.attempt \in Nat
      BY DEF Receipt
    <3> QED BY <3>1, <3>2 DEF ReceiptsInv
  <2>3. ReceiptsOf(mine[e])' = {}
    BY <2>1, <2>2 DEF ReceiptsOf
  <2>4. txn'[e] # "flushed"
    BY <1>3, FlushedIsActive, ActivePCs DEF BeginsAttempt, Active
  <2>5. ReceiptsOK(e)'
    BY <2>3, <2>4 DEF ReceiptsOK
  <2>6. ASSUME NEW f \in Executors \ {e} PROVE ReceiptsOK(f)'
    BY <2>1, <2>6 DEF ReceiptsInv, ReceiptsOK, ReceiptsOf
  <2>7. ReceiptsNamed'
    BY <1>3, <2>1 DEF ReceiptsInv, ReceiptsNamed
  <2>8. \A i \in DOMAIN receipts' : receipts'[i].attempt <= attempts'
    BY <2>1, <2>2
  <2> QED BY <2>5, <2>6, <2>7, <2>8 DEF ReceiptsInv
<1>4. ASSUME NEW e \in Workers, AcquireLease(e) PROVE ReceiptsInv'
  <2> e \in Executors
    BY DEF Executors
  <2>1. CASE session' = [session EXCEPT !.status = "VERIFYING", !.lease_id = e]
    <3>1. session'.audit_receipt_id = session.audit_receipt_id
      BY <1>0, <2>1 DEF TypeOK, Session
    <3> QED BY <1>2, <1>3, <1>4, <3>1 DEF AcquireLease
  <2> QED BY <1>2, <1>4, <2>1 DEF AcquireLease
<1>5. ASSUME NEW e \in Requests, StartRun(e) PROVE ReceiptsInv'
  <2> e \in Executors
    BY DEF Executors
  <2>1. CASE session' = [session EXCEPT !.status = "VERIFYING",
                                        !.worker_phase = "GENERALIZED_PIPELINE"]
    <3>1. session'.audit_receipt_id = session.audit_receipt_id
      BY <1>0, <2>1 DEF TypeOK, Session
    <3> QED BY <1>2, <1>3, <1>5, <3>1 DEF StartRun
  <2> QED BY <1>2, <1>5, <2>1 DEF StartRun
<1>6. ASSUME NEW e \in Workers, EnterPipeline(e) PROVE ReceiptsInv'
  <2> e \in Executors
    BY DEF Executors
  <2>1. session'.audit_receipt_id = session.audit_receipt_id
    BY <1>0, <1>6 DEF EnterPipeline, TypeOK, Session
  <2>2. \A f \in Executors \ {e} : pc'[f] = pc[f]
    BY <1>0, <1>6, <1>c DEF EnterPipeline, TypeOK
  <2>3. ReceiptsOf(mine[e]) = {} /\ txn[e] # "flushed"
    BY <1>6 DEF EnterPipeline, ReceiptsInv, ReceiptsOK
  <2>4. ReceiptsOK(e)'
    BY <1>6, <2>3 DEF EnterPipeline, ReceiptsOK, ReceiptsOf
  <2> QED BY <1>6, <2>1, <2>2, <2>4, NoReceiptStep DEF EnterPipeline
<1>7. ASSUME NEW e \in Workers, StageReturns(e) PROVE ReceiptsInv'
  <2> e \in Executors
    BY DEF Executors
  <2>1. session'.audit_receipt_id = session.audit_receipt_id
    BY <1>0, <1>7 DEF StageReturns, WithPhase, TypeOK, Session
  <2>2. \A f \in Executors \ {e} : pc'[f] = pc[f]
    BY <1>0, <1>7 DEF StageReturns, TypeOK
  <2>3. pc[e] \in Stages
    BY <1>7, ActivePCs DEF StageReturns, Stages, Phases
  <2>4. ReceiptsOf(mine[e]) = {} /\ txn[e] # "flushed"
    BY <2>3 DEF ReceiptsInv, ReceiptsOK, Stages, Phases
  <2>5. ReceiptsOK(e)'
    BY <1>7, <2>4 DEF StageReturns, ReceiptsOK, ReceiptsOf
  <2> QED BY <1>7, <2>1, <2>2, <2>5, NoReceiptStep DEF StageReturns
<1>8. ASSUME NEW e \in Executors, StageRaises(e) PROVE ReceiptsInv'
  <2>1. txn[e] # "flushed"
    BY <1>8 DEF StageRaises, ReceiptsInv, ReceiptsOK, Stages, Phases
  <2>2. After(e)
    BY <1>8, <1>c, <1>d, <2>1 DEF StageRaises, After
  <2> QED BY <1>8, <1>a, <1>c, <2>2, NoReceiptStep DEF StageRaises
<1>9. ASSUME NEW e \in Executors, StoreAuditBundle(e) PROVE ReceiptsInv'
  <2>1. /\ pc'[e] = "completing"
        /\ \A f \in Executors \ {e} : UNCHANGED <<txn[f], pc[f], mine[f]>>
    BY <1>0, <1>9 DEF StoreAuditBundle, TypeOK
  <2>2. ReceiptsOf(mine[e]) = {}
    BY <1>9 DEF StoreAuditBundle, ReceiptsInv, ReceiptsOK, Stages, Phases
  <2>3. ReceiptsOf(mine[e])' = {}
    BY <1>9, <2>2 DEF StoreAuditBundle, ReceiptsOf
  <2>4. ReceiptsOK(e)'
    BY <2>1, <2>3 DEF ReceiptsOK
  <2> QED BY <1>9, <2>1, <2>4, NoReceiptStep DEF StoreAuditBundle
<1>10. ASSUME NEW e \in Executors, AuditBundleFails(e) PROVE ReceiptsInv'
  <2>1. /\ txn'[e] # "flushed"
        /\ \A f \in Executors \ {e} : txn'[f] = txn[f]
    BY <1>0, <1>10 DEF AuditBundleFails, TypeOK
  <2>2. /\ pc'[e] \in {"failing", "completing"}
        /\ \A f \in Executors \ {e} : pc'[f] = pc[f]
    BY <1>0, <1>10, <1>c DEF AuditBundleFails, TypeOK
  <2>3. After(e)
    BY <1>d, <2>1, <2>2 DEF After
  <2> QED BY <1>10, <1>a, <2>1, <2>2, <2>3, NoReceiptStep DEF AuditBundleFails
<1>11. ASSUME NEW e \in Executors, ReadForCompletion(e) PROVE ReceiptsInv'
  <2>1. /\ pc'[e] \in {"failing", "committing"}
        /\ \A f \in Executors \ {e} : pc'[f] = pc[f]
    BY <1>0, <1>11, <1>c DEF ReadForCompletion, TypeOK
  <2>2. ReceiptsOK(e)'
    BY <1>11, <2>1 DEF ReadForCompletion, ReceiptsInv, ReceiptsOK, ReceiptsOf, Stages, Phases
  <2> QED BY <1>11, <2>1, <2>2, NoReceiptStep DEF ReadForCompletion
<1>12. ASSUME NEW e \in Executors, CommitCompletion(e) PROVE ReceiptsInv'
  <2>1. CASE session.status = seen[e]
    <3>1. session'.audit_receipt_id = CompletionReceipt(e)
      BY <1>0, <1>12, <2>1 DEF CommitCompletion, TypeOK, Session
    <3>2. Active(e)
      BY <1>12 DEF CommitCompletion, Active, ActivePC
    <3> QED BY <1>12, <1>a, <1>b, <2>1, <3>1, <3>2, ReceiptStep DEF CommitCompletion
  <2>2. CASE session.status # seen[e]
    <3>1. Raises(e, "unknown_processing_error")
      BY <1>12, <2>2 DEF CommitCompletion
    <3>2. ReceiptsOK(e)'
      BY <1>12, <1>c, <2>2, <3>1 DEF CommitCompletion, ReceiptsInv, ReceiptsOK, ReceiptsOf,
         Stages, Phases
    <3> QED BY <1>12, <1>c, <2>2, <3>1, <3>2, NoReceiptStep DEF CommitCompletion
  <2> QED BY <2>1, <2>2
<1>13. ASSUME NEW e \in Executors, ReadForFailure(e) PROVE ReceiptsInv'
  <2>1. pc'[e] = "recording" /\ \A f \in Executors \ {e} : pc'[f] = pc[f]
    BY <1>0, <1>13 DEF ReadForFailure, TypeOK
  <2>2. ReceiptsOK(e)'
    BY <1>13, <2>1 DEF ReadForFailure, ReceiptsInv, ReceiptsOK, ReceiptsOf, Stages, Phases
  <2> QED BY <1>13, <2>1, <2>2, NoReceiptStep DEF ReadForFailure
<1>14. ASSUME NEW e \in Executors, CommitFailure(e) PROVE ReceiptsInv'
  <2>1. session'.audit_receipt_id = session.audit_receipt_id
    BY <1>0, <1>14 DEF CommitFailure, TypeOK, Session
  <2>2. Active(e)
    BY <1>14 DEF CommitFailure, Active, ActivePC
  <2> QED BY <1>14, <1>a, <1>b, <2>1, <2>2, ReceiptStep DEF CommitFailure
<1>15. ASSUME NEW e \in Executors, FailureNotRecorded(e) PROVE ReceiptsInv'
  <2>1. CASE receipts' = receipts
    BY <1>15, <1>a, <1>b, <2>1, NoReceiptStep DEF FailureNotRecorded, GivesUp
  <2>2. CASE receipts' = CommittedReceipts(e)
    <3>1. Active(e)
      BY <1>15 DEF FailureNotRecorded, Active, ActivePC
    <3> QED BY <1>15, <1>a, <1>b, <2>2, <3>1, ReceiptStep DEF FailureNotRecorded, GivesUp
  <2> QED BY <1>15, <2>1, <2>2 DEF FailureNotRecorded, GivesUp
<1>16. ASSUME NEW e \in Executors, Crash(e) PROVE ReceiptsInv'
  BY <1>16, <1>a, <1>b, NoReceiptStep DEF Crash
<1>17. ASSUME NEW w \in Workers, HeartbeatTick(w) PROVE ReceiptsInv'
  <2> w \in Executors
    BY DEF Executors
  <2>1. session'.audit_receipt_id = session.audit_receipt_id
    BY <1>0, <1>17 DEF HeartbeatTick, TypeOK, Session
  <2>2. Active(w)
    BY <1>17 DEF HeartbeatTick, OwnershipInv, ExecutorOK
  <2>3. txn'[w] = "clean" /\ \A f \in Executors \ {w} : txn'[f] = txn[f]
    BY <1>0, <1>17 DEF HeartbeatTick, TypeOK
  <2>4. ASSUME pc[w] \in {"leased"} \cup Stages PROVE ReceiptsOf(mine[w])' = {}
    <3>1. txn[w] # "flushed" /\ ReceiptsOf(mine[w]) = {}
      BY <2>4 DEF ReceiptsInv, ReceiptsOK, Stages, Phases
    <3> QED BY <1>17, <3>1 DEF HeartbeatTick, CommittedReceipts, ReceiptsOf
  <2>5. ReceiptsOK(w)'
    BY <1>17, <2>3, <2>4 DEF HeartbeatTick, ReceiptsOK
  <2> QED BY <1>17, <2>1, <2>2, <2>3, <2>5, ReceiptStep DEF HeartbeatTick
<1>18. ASSUME NEW w \in Workers, HeartbeatDies(w) \/ MarkStaleSession(w) \/ HeartbeatAges
       PROVE  ReceiptsInv'
  <2> w \in Executors
    BY DEF Executors
  <2>1. session'.audit_receipt_id = session.audit_receipt_id
    BY <1>0, <1>18 DEF HeartbeatDies, MarkStaleSession, HeartbeatAges, TypeOK, Session
  <2>2. UNCHANGED <<receipts, txn, pc, mine, attempts>>
    BY <1>18 DEF HeartbeatDies, MarkStaleSession, HeartbeatAges, execVars
  <2>3. ReceiptsOK(w)'
    BY <2>2 DEF ReceiptsInv, ReceiptsOK, ReceiptsOf
  <2> QED BY <2>1, <2>2, <2>3, NoReceiptStep
<1>19. CASE UNCHANGED vars \/ HeartbeatAges
  <2>1. UNCHANGED <<receipts, txn, pc, mine, attempts>>
    BY <1>19 DEF vars, HeartbeatAges, execVars
  <2>2. session'.audit_receipt_id = session.audit_receipt_id
    BY <1>0, <1>19 DEF vars, HeartbeatAges, TypeOK, Session
  <2> QED BY <2>1, <2>2 DEF ReceiptsInv, ReceiptsNamed, ReceiptsOK, ReceiptsOf
<1>20. ASSUME NEW decision \in Decisions, Decide(decision) PROVE ReceiptsInv'
  <2>1. session.trust_outcome # 0 /\ session.trust_outcome = attempts /\ attempts' = attempts
    BY <1>20 DEF Decide, OwnershipInv, RowOK, VerdictOfLatestAttempt, Verdicted
  <2>2. ASSUME NEW e \in Executors PROVE ReceiptsOK(e)'
    <3>1. ~Active(e)
      BY <1>20, ClosedStates DEF Decide, OwnershipInv, ExecutorOK, OwnsAttempt
    <3>2. ~(txn[e] = "flushed" \/ pc[e] \in {"leased"} \cup Stages)
      BY <3>1, FlushedIsActive
    <3> QED BY <1>20, <3>2 DEF Decide, execVars, ReceiptsOK
  <2>3. attempts \in Nat /\ receipts \in Seq(Receipt) /\ receipts' \in Seq(Receipt)
    BY <1>0, <1>20, DecidedReceipt DEF TypeOK
  <2>4. CASE receipts = <<>>
    <3>1. DOMAIN receipts' = {1} /\ receipts'[1].attempt = attempts
      BY <1>0, <1>20, <2>1, <2>3, <2>4, DecidedReceipt
    <3>2. session'.audit_receipt_id = receipts'[1].attempt
      BY <1>0, <1>20, <2>4, DecidedReceipt
    <3>3. ReceiptsNamed'
      BY <3>1, <3>2 DEF ReceiptsNamed
    <3>4. \A i \in DOMAIN receipts' : receipts'[i].attempt <= attempts'
      BY <2>1, <2>3, <3>1
    <3> QED BY <2>2, <3>3, <3>4 DEF ReceiptsInv
  <2>5. CASE receipts # <<>>
    <3>1. /\ DOMAIN receipts' = DOMAIN receipts
          /\ \A i \in DOMAIN receipts : receipts'[i].attempt = receipts[i].attempt
      BY <1>0, <1>20, <2>3, <2>5, DecidedReceipt
    <3>2. /\ Len(receipts') \in DOMAIN receipts'
          /\ session'.audit_receipt_id = receipts'[Len(receipts')].attempt
      BY <1>0, <1>20, DecidedReceipt
    <3>3. ReceiptsNamed' /\ \A i \in DOMAIN receipts' : receipts'[i].attempt <= attempts'
      BY <2>1, <3>1, <3>2 DEF ReceiptsInv, ReceiptsNamed
    <3> QED BY <2>2, <3>3 DEF ReceiptsInv
  <2> QED BY <2>4, <2>5
<1>21. CASE Close
  <2>1. UNCHANGED <<receipts, session.audit_receipt_id, txn, pc, mine, attempts>>
    BY <1>0, <1>21 DEF Close, execVars, TypeOK, Session
  <2> QED BY <2>1 DEF ReceiptsInv, ReceiptsNamed, ReceiptsOK, ReceiptsOf
<1> QED
  BY <1>1, <1>4, <1>5, <1>6, <1>7, <1>8, <1>9, <1>10, <1>11, <1>12, <1>13, <1>14,
     <1>15, <1>16, <1>17, <1>18, <1>19, <1>20, <1>21 DEF Next, Proceeds

\* A decision is in the last receipt, in the one the row names, with the verdict of
\* the row; and it is there only when the session has left its reviewer.
DecisionsReceipted ==
    \A i \in DOMAIN receipts : receipts[i].reviewer_decision # "NULL" =>
        /\ i = Len(receipts)
        /\ receipts[i].attempt = session.audit_receipt_id
        /\ receipts[i].trust_outcome = session.trust_outcome
        /\ session.trust_outcome = attempts

Undecided == \A i \in DOMAIN receipts : receipts[i].reviewer_decision = "NULL"

DecisionInv == DecisionsReceipted /\ (~Undecided => session.status \in Closed)

\* Nobody but the closing writes the row, the receipts or the attempts of a session
\* that has left its reviewer.
LEMMA ClosedStep ==
    ASSUME OwnershipInv, [Next]_vars, session.status \in Closed
    PROVE  Close \/ UNCHANGED <<session, receipts, attempts>>
<1>1. \A e \in Executors : ExecutorOK(e) /\ ~Active(e) /\ ~beating[e]
  BY ClosedStates DEF OwnershipInv, ExecutorOK, OwnsAttempt
<1>2. /\ session.status \notin LEASE_ACQUIRABLE_STATES
      /\ session.status \notin {"VERIFYING", "ABANDONED_VERIFYING", "PENDING_HUMAN_REVIEW"}
      /\ session.heartbeat_at = "null"
  BY ClosedStates DEF OwnershipInv, RowOK
<1>3. ASSUME NEW e \in Executors, ReadForClaim(e) \/ Crash(e)
      PROVE  UNCHANGED <<session, receipts, attempts>>
  BY <1>3 DEF ReadForClaim, Crash
<1>4. ASSUME NEW e \in Executors,
             \/ e \in Workers /\ AcquireLease(e)
             \/ e \in Requests /\ StartRun(e)
      PROVE  UNCHANGED <<session, receipts, attempts>>
  BY <1>1, <1>2, <1>4 DEF AcquireLease, StartRun, ClaimRefused, ExecutorOK
<1>5. ASSUME NEW e \in Executors, Proceeds(e),
             ~(e \in Workers /\ AcquireLease(e)), ~(e \in Requests /\ StartRun(e))
      PROVE  Active(e)
  <2>1. pc[e] \in ActivePC
    BY <1>5, ActivePCs DEF Proceeds, EnterPipeline, StageReturns, StageRaises,
       StoreAuditBundle, AuditBundleFails, ReadForCompletion, CommitCompletion,
       ReadForFailure, CommitFailure, FailureNotRecorded, ActivePC, Stages, Phases
  <2> QED BY <2>1 DEF Active
<1>6. ASSUME NEW w \in Workers, HeartbeatTick(w) \/ HeartbeatDies(w) \/ MarkStaleSession(w)
      PROVE  FALSE
  BY <1>1, <1>2, <1>6 DEF HeartbeatTick, HeartbeatDies, MarkStaleSession, Executors
<1>7. ~HeartbeatAges /\ \A decision \in Decisions : ~Decide(decision)
  BY <1>2 DEF HeartbeatAges, Decide
<1>8. UNCHANGED vars => UNCHANGED <<session, receipts, attempts>>
  BY DEF vars
<1>9. ASSUME NEW e \in Executors, Proceeds(e) PROVE UNCHANGED <<session, receipts, attempts>>
  <2>1. (e \in Workers /\ AcquireLease(e)) \/ (e \in Requests /\ StartRun(e))
    BY <1>1, <1>5, <1>9
  <2> QED BY <1>4, <2>1
<1> QED BY <1>3, <1>6, <1>7, <1>8, <1>9 DEF Next

\* The receipts an executor commits hold no decision.
LEMMA CommitsUndecided ==
    ASSUME TypeOK, Undecided, NEW e \in Executors, receipts' = CommittedReceipts(e)
    PROVE  Undecided'
<1>1. CASE txn[e] # "flushed"
  BY <1>1 DEF CommittedReceipts, Undecided
<1>2. CASE txn[e] = "flushed"
  <2> DEFINE new == [attempt |-> mine[e], trust_outcome |-> mine[e],
                     reviewer_decision |-> "NULL"]
  <2>1. receipts' = Append(receipts, new) /\ new.reviewer_decision = "NULL"
    BY <1>2 DEF CommittedReceipts
  <2> HIDE DEF new
  <2>2. receipts \in Seq(Receipt)
    BY DEF TypeOK
  <2>3. \A i \in DOMAIN receipts' :
            \/ i \in DOMAIN receipts /\ receipts'[i] = receipts[i]
            \/ receipts'[i] = new
    BY <2>1, <2>2
  <2> QED BY <2>1, <2>3 DEF Undecided
<1> QED BY <1>1, <1>2

\* A step either decides, or leaves the receipts, or commits an executor's.
LEMMA ReceiptsWritten ==
    ASSUME [Next]_vars, \A decision \in Decisions : ~Decide(decision)
    PROVE  receipts' = receipts \/ \E e \in Executors : receipts' = CommittedReceipts(e)
<1>1. ASSUME NEW e \in Executors, ReadForClaim(e) \/ Proceeds(e) \/ Crash(e)
      PROVE  receipts' = receipts \/ receipts' = CommittedReceipts(e)
  BY <1>1 DEF ReadForClaim, Proceeds, Crash, AcquireLease, StartRun, ClaimRefused,
     BeginsAttempt, EnterPipeline, StageReturns, StageRaises, StoreAuditBundle,
     AuditBundleFails, ReadForCompletion, CommitCompletion, ReadForFailure, CommitFailure,
     FailureNotRecorded, GivesUp
<1>2. ASSUME NEW w \in Workers, HeartbeatTick(w) \/ HeartbeatDies(w) \/ MarkStaleSession(w)
      PROVE  receipts' = receipts \/ receipts' = CommittedReceipts(w)
  BY <1>2 DEF HeartbeatTick, HeartbeatDies, MarkStaleSession
<1>3. HeartbeatAges \/ Close \/ UNCHANGED vars => receipts' = receipts
  BY DEF HeartbeatAges, Close, vars
<1> QED BY <1>1, <1>2, <1>3 DEF Next, Executors

\* Every step keeps what is known of decided receipts.
LEMMA DecisionStep ==
    OwnershipInv /\ DecisionInv /\ [Next]_vars => DecisionInv'
<1> SUFFICES ASSUME OwnershipInv, DecisionInv, [Next]_vars PROVE DecisionInv'
  OBVIOUS
<1>0. TypeOK /\ session \in Session
  BY DEF OwnershipInv, TypeOK
<1>1. CASE ~Undecided
  <2>1. session.status \in Closed
    BY <1>1 DEF DecisionInv
  <2>2. CASE UNCHANGED <<session, receipts, attempts>>
    BY <2>2 DEF DecisionInv, DecisionsReceipted, Undecided
  <2>3. CASE Close
    <3>1. /\ UNCHANGED <<receipts, attempts, session.audit_receipt_id, session.trust_outcome>>
          /\ session'.status \in {"PENDING_CLEANUP", "PURGE_COMPLETE", "FAILED_PURGED"}
      BY <1>0, <2>3 DEF Close, Session
    <3>2. session'.status \in Closed
      BY <3>1 DEF Closed
    <3> QED BY <3>1, <3>2 DEF DecisionInv, DecisionsReceipted
  <2> QED BY <2>1, <2>2, <2>3, ClosedStep
<1>2. ASSUME Undecided, NEW decision \in Decisions, Decide(decision) PROVE DecisionInv'
  <2>1. /\ session'.status \in Closed
        /\ session'.trust_outcome = session.trust_outcome
        /\ session'.audit_receipt_id = receipts'[Len(receipts')].attempt
        /\ receipts'[Len(receipts')].trust_outcome = session.trust_outcome
        /\ attempts' = attempts
    BY <1>0, <1>2, DecidedReceipt, ClosedStates DEF Decide
  <2>2. session.trust_outcome = attempts
    BY <1>2 DEF Decide, OwnershipInv, RowOK, VerdictOfLatestAttempt, Verdicted
  <2>3. receipts \in Seq(Receipt) /\ receipts' \in Seq(Receipt)
    BY <1>0, <1>2, DecidedReceipt DEF TypeOK
  <2>4. ASSUME NEW i \in DOMAIN receipts', receipts'[i].reviewer_decision # "NULL"
        PROVE  i = Len(receipts')
    <3>1. CASE receipts = <<>>
      BY <1>0, <1>2, <2>3, <3>1, DecidedReceipt
    <3>2. CASE receipts # <<>>
      <4>1. i \in DOMAIN receipts /\ Len(receipts') = Len(receipts)
        BY <1>0, <1>2, <2>3, <3>2, DecidedReceipt
      <4>2. i # Len(receipts) => receipts'[i] = receipts[i]
        BY <1>0, <1>2, <3>2, <4>1, DecidedReceipt
      <4> QED BY <1>2, <2>4, <4>1, <4>2 DEF Undecided
    <3> QED BY <3>1, <3>2
  <2> QED BY <2>1, <2>2, <2>4 DEF DecisionInv, DecisionsReceipted
<1>3. ASSUME Undecided, \A decision \in Decisions : ~Decide(decision) PROVE DecisionInv'
  <2>1. Undecided'
    <3>1. CASE receipts' = receipts
      BY <1>3, <3>1 DEF Undecided
    <3> QED BY <1>0, <1>3, <3>1, ReceiptsWritten, CommitsUndecided
  <2> QED BY <2>1 DEF DecisionInv, DecisionsReceipted, Undecided
<1> QED BY <1>1, <1>2, <1>3

\* No attempt has two receipts and the row never names a receipt that was rolled
\* back, although the heartbeat thread commits on the pipeline's connection; and no
\* executor adds a receipt after the decision, or changes the verdict it was about.
THEOREM ReceiptsStayConsistent == Spec => []ReceiptsConsistent
<1>1. Init => ReceiptsInv
  BY DEF Init, ReceiptsInv, ReceiptsNamed, ReceiptsOK, ReceiptsOf
<1>2. Init => DecisionInv
  BY DEF Init, DecisionInv, DecisionsReceipted, Undecided
<1>3. ReceiptsInv /\ DecisionInv => ReceiptsConsistent
  BY DEF ReceiptsInv, ReceiptsNamed, DecisionInv, DecisionsReceipted, ReceiptsConsistent
<1> QED
  BY <1>1, <1>2, <1>3, OwnershipInvariant, ReceiptsInvStep, DecisionStep, PTL DEF Spec

-----------------------------------------------------------------------------
(***************************************************************************)
(* VerificationExecution implements VerificationOwnership: every step of an *)
(* executor is a step of the abstract specification, or changes nothing it   *)
(* can see.                                                                  *)
(***************************************************************************)


\* The owner of the mapping is the executor that is active, when there is one.
OwnerIsActive ==
    /\ \A e \in Executors : Active(e) => owner = e
    /\ (\A e \in Executors : ~Active(e)) => owner = NoLease

LEMMA ActiveOwner == SingleOwner => OwnerIsActive
<1> SUFFICES ASSUME SingleOwner PROVE OwnerIsActive
  OBVIOUS
<1>1. ASSUME NEW e \in Executors, Active(e) PROVE owner = e
  <2> DEFINE chosen == CHOOSE f \in Executors : Active(f)
  <2>1. chosen \in Executors /\ Active(chosen)
    BY <1>1
  <2>2. owner = chosen
    BY <1>1 DEF owner
  <2> QED BY <1>1, <2>1, <2>2 DEF SingleOwner
<1>2. (\A e \in Executors : ~Active(e)) => owner = NoLease
  BY DEF owner
<1> QED BY <1>1, <1>2 DEF OwnerIsActive

\* The same of the state after a step.
LEMMA NextActiveOwner == SingleOwner' => OwnerIsActive'
BY ActiveOwner, PTL

\* A step after which the same executors are active keeps the owner.
LEMMA OwnerStays ==
    ASSUME SingleOwner, SingleOwner', \A e \in Executors : Active(e)' <=> Active(e)
    PROVE  owner' = owner
<1>1. CASE \E e \in Executors : Active(e)
  <2>1. PICK e \in Executors : Active(e)
    BY <1>1
  <2>2. owner = e
    BY <2>1, ActiveOwner DEF OwnerIsActive
  <2>3. owner' = e
    BY <2>1, NextActiveOwner DEF OwnerIsActive
  <2> QED BY <2>2, <2>3
<1>2. CASE \A e \in Executors : ~Active(e)
  BY <1>2, ActiveOwner, NextActiveOwner DEF OwnerIsActive
<1> QED BY <1>1, <1>2

\* The initial state is the abstract one.
LEMMA RefinementInit == Init => Ownership!Init
<1> SUFFICES ASSUME Init PROVE Ownership!Init
  OBVIOUS
<1>1. owner = NoLease
  BY ActivePCs DEF Init, owner, Active
<1> QED BY <1>1 DEF Init, Ownership!Init

-----------------------------------------------------------------------------
(* One lemma for each way a step can look from the abstract specification  *)

Refines == Ownership!Next \/ UNCHANGED Ownership!vars

\* The session is the same to the abstract specification, and so are the owners.
LEMMA StutterStep ==
    ASSUME OwnershipInv, OwnershipInv',
           UNCHANGED <<session.status, session.trust_outcome, attempts>>,
           \A e \in Executors : Active(e)' <=> Active(e)
    PROVE  Refines
<1>1. owner' = owner
  BY OwnerStays DEF OwnershipInv
<1> QED BY <1>1 DEF Refines, Ownership!vars

\* A successful claim begins an attempt.
LEMMA BeginStep ==
    ASSUME OwnershipInv, OwnershipInv', NEW e \in Executors,
           session.status \in LEASE_ACQUIRABLE_STATES, session'.status = "VERIFYING",
           session'.trust_outcome = session.trust_outcome,
           attempts' = attempts + 1, Active(e)'
    PROVE  Refines
<1>1. owner = NoLease
  BY Alone, ActiveOwner DEF OwnershipInv, OwnerIsActive
<1>2. owner' = e
  BY NextActiveOwner DEF OwnershipInv, OwnerIsActive
<1>3. Ownership!Begin(e)
  BY <1>1, <1>2 DEF Ownership!Begin, Ownership!LEASE_ACQUIRABLE_STATES,
     LEASE_ACQUIRABLE_STATES
<1> QED BY <1>3 DEF Refines, Ownership!Next

\* An executor whose pipeline ends owns the session before, and nobody does after.
LEMMA EndOfOwnership ==
    ASSUME OwnershipInv, OwnershipInv', NEW e \in Executors, Active(e), Ends(e)
    PROVE  owner = e /\ owner # NoLease /\ owner' = NoLease
<1>1. \A f \in Executors : ~Active(f)'
  BY Alone, ActivePCs DEF Ends, Active, OwnershipInv, TypeOK
<1> QED BY <1>1, ActiveOwner, NextActiveOwner, ExecutorsAssumption
        DEF OwnershipInv, OwnerIsActive

\* An executor that ends and leaves the row alone loses its ownership, if it had one.
LEMMA LoseStep ==
    ASSUME OwnershipInv, OwnershipInv', NEW e \in Executors, Ends(e),
           UNCHANGED <<session, attempts>>
    PROVE  Refines
<1>1. CASE Active(e)
  BY <1>1, EndOfOwnership DEF Refines, Ownership!Next, Ownership!Lose
<1>2. CASE ~Active(e)
  <2>1. \A f \in Executors : Active(f)' <=> Active(f)
    BY <1>2, ActivePCs DEF Ends, Active, OwnershipInv, TypeOK
  <2> QED BY <2>1, StutterStep
<1> QED BY <1>1, <1>2

\* A step that leaves every executor where it is in or out of the pipeline.
LEMMA SamePipelines ==
    ASSUME OwnershipInv, NEW e \in Executors, NEW after,
           pc' = [pc EXCEPT ![e] = after], after \in ActivePC <=> Active(e)
    PROVE  \A f \in Executors : Active(f)' <=> Active(f)
BY DEF OwnershipInv, TypeOK, Active

\* A pipeline that goes on, or that raises, with the row as the abstract
\* specification sees it untouched.
LEMMA WorkStep ==
    ASSUME OwnershipInv, OwnershipInv', NEW e \in Executors, NEW after \in ActivePC,
           Active(e), pc' = [pc EXCEPT ![e] = after],
           UNCHANGED <<session.status, session.trust_outcome, attempts>>
    PROVE  Refines
BY SamePipelines, StutterStep

\* Nobody owns a session that waits for its reviewer, or that has left him.
LEMMA NobodyOwns ==
    ASSUME OwnershipInv, session.status \in Closed \cup {"PENDING_HUMAN_REVIEW"}
    PROVE  owner = NoLease
<1>1. \A e \in Executors : ~Active(e)
  BY ClosedStates DEF OwnershipInv, ExecutorOK, OwnsAttempt
<1> QED BY <1>1 DEF owner

\* Every step of VerificationExecution is a step of VerificationOwnership, or one
\* that changes none of its variables.
LEMMA RefinementStep == OwnershipInv /\ OwnershipInv' /\ [Next]_vars => Refines
<1> SUFFICES ASSUME OwnershipInv, OwnershipInv', [Next]_vars PROVE Refines
  OBVIOUS
<1>0. /\ session \in Session /\ pc \in [Executors -> {"idle", "claiming"} \cup ActivePC]
      /\ \A e \in Executors : ExecutorOK(e)
  BY DEF OwnershipInv, TypeOK
<1>a. {"failing", "completing", "committing", "recording", "EXTRACTING"} \subseteq ActivePC
  BY DEF ActivePC, Stages, Phases
<1>1. ASSUME NEW e \in Executors, ReadForClaim(e) PROVE Refines
  <2>1. \A f \in Executors : Active(f)' <=> Active(f)
    BY <1>0, <1>1, ActivePCs DEF ReadForClaim, Active
  <2> QED BY <1>1, <2>1, StutterStep DEF ReadForClaim
<1>2. ASSUME NEW e \in Workers, AcquireLease(e) PROVE Refines
  <2> e \in Executors
    BY DEF Executors
  <2>1. CASE ClaimRefused(e)
    BY <2>1, LoseStep DEF ClaimRefused
  <2>2. CASE /\ session.status = seen[e]
             /\ session' = [session EXCEPT !.status = "VERIFYING", !.lease_id = e]
             /\ BeginsAttempt(e, "leased")
    <3>1. /\ session'.status = "VERIFYING"
          /\ session'.trust_outcome = session.trust_outcome
      BY <1>0, <2>2 DEF Session
    <3>2. session.status \in LEASE_ACQUIRABLE_STATES
      BY <1>0, <1>2, <2>2 DEF AcquireLease, ExecutorOK
    <3>3. Active(e)'
      BY <1>0, <2>2 DEF BeginsAttempt, Active, ActivePC
    <3> QED BY <2>2, <3>1, <3>2, <3>3, BeginStep DEF BeginsAttempt
  <2> QED BY <1>2, <2>1, <2>2 DEF AcquireLease
<1>3. ASSUME NEW e \in Requests, StartRun(e) PROVE Refines
  <2> e \in Executors
    BY DEF Executors
  <2>1. CASE ClaimRefused(e)
    BY <2>1, LoseStep DEF ClaimRefused
  <2>2. CASE /\ session.status = seen[e]
             /\ session' = [session EXCEPT !.status = "VERIFYING",
                                           !.worker_phase = "GENERALIZED_PIPELINE"]
             /\ BeginsAttempt(e, "GENERALIZED_PIPELINE")
    <3>1. /\ session'.status = "VERIFYING"
          /\ session'.trust_outcome = session.trust_outcome
      BY <1>0, <2>2 DEF Session
    <3>2. session.status \in LEASE_ACQUIRABLE_STATES
      BY <1>0, <1>3, <2>2 DEF StartRun, ExecutorOK
    <3>3. Active(e)'
      BY <1>0, <2>2 DEF BeginsAttempt, Active, ActivePC, Stages
    <3> QED BY <2>2, <3>1, <3>2, <3>3, BeginStep DEF BeginsAttempt
  <2> QED BY <1>3, <2>1, <2>2 DEF StartRun
<1>4. ASSUME NEW e \in Workers, EnterPipeline(e) PROVE Refines
  <2> e \in Executors
    BY DEF Executors
  <2>1. UNCHANGED <<session.status, session.trust_outcome, attempts>>
    BY <1>0, <1>4 DEF EnterPipeline, Session
  <2>2. Active(e)
    BY <1>4 DEF EnterPipeline, Active, ActivePC
  <2> QED BY <1>4, <1>a, <2>1, <2>2, WorkStep DEF EnterPipeline, Raises
<1>5. ASSUME NEW e \in Workers, StageReturns(e) PROVE Refines
  <2> e \in Executors
    BY DEF Executors
  <2>1. UNCHANGED <<session.status, session.trust_outcome, attempts>>
    BY <1>0, <1>5 DEF StageReturns, WithPhase, Session
  <2>2. Active(e) /\ NextPhase[pc[e]] \in ActivePC
    BY <1>5, ActivePCs DEF StageReturns, Active, Phases
  <2> QED BY <1>5, <2>1, <2>2, WorkStep DEF StageReturns
<1>6. ASSUME NEW e \in Executors,
             \/ StageRaises(e) \/ StoreAuditBundle(e) \/ AuditBundleFails(e)
             \/ ReadForCompletion(e) \/ ReadForFailure(e)
      PROVE  Refines
  <2>1. UNCHANGED <<session, attempts>>
    BY <1>6 DEF StageRaises, StoreAuditBundle, AuditBundleFails, ReadForCompletion,
       ReadForFailure
  <2>2. Active(e)
    BY <1>6 DEF StageRaises, StoreAuditBundle, AuditBundleFails, ReadForCompletion,
       ReadForFailure, Active, ActivePC, Stages, Phases
  <2>3. \E after \in ActivePC : pc' = [pc EXCEPT ![e] = after]
    BY <1>6, <1>a DEF StageRaises, StoreAuditBundle, AuditBundleFails, ReadForCompletion,
       ReadForFailure, Raises
  <2> QED BY <2>1, <2>2, <2>3, WorkStep
<1>7. ASSUME NEW e \in Executors, CommitCompletion(e) PROVE Refines
  <2>1. Active(e)
    BY <1>7 DEF CommitCompletion, Active, ActivePC
  <2>2. CASE session.status = seen[e]
    <3>1. /\ session'.status = "PENDING_HUMAN_REVIEW" /\ session'.trust_outcome = mine[e]
          /\ session.status = "VERIFYING" /\ mine[e] = attempts /\ attempts' = attempts
      BY <1>0, <1>7, <2>1, <2>2 DEF CommitCompletion, Session, ExecutorOK, OwnsAttempt
    <3>2. owner # NoLease /\ owner' = NoLease
      BY <1>7, <2>1, <2>2, EndOfOwnership DEF CommitCompletion
    <3> QED BY <3>1, <3>2 DEF Refines, Ownership!Next, Ownership!Publish
  <2>3. CASE session.status # seen[e]
    BY <1>7, <1>a, <2>1, <2>3, WorkStep DEF CommitCompletion, Raises
  <2> QED BY <2>2, <2>3
<1>8. ASSUME NEW e \in Executors, CommitFailure(e) PROVE Refines
  <2>1. Active(e)
    BY <1>8 DEF CommitFailure, Active, ActivePC
  <2>2. /\ session'.status \in {"FAILED_RETRIABLE", "FAILED_PURGED"}
        /\ session'.trust_outcome = 0 /\ attempts' = attempts
    BY <1>0, <1>8, FailureStates DEF CommitFailure, Session
  <2>3. session.status \in {"VERIFYING", "ABANDONED_VERIFYING"}
    BY <1>0, <2>1 DEF ExecutorOK, OwnsAttempt
  <2>4. owner # NoLease /\ owner' = NoLease
    BY <1>8, <2>1, EndOfOwnership DEF CommitFailure
  <2> QED BY <2>2, <2>3, <2>4 DEF Refines, Ownership!Next, Ownership!Fail
<1>9. ASSUME NEW e \in Executors, FailureNotRecorded(e) \/ Crash(e) PROVE Refines
  BY <1>9, LoseStep DEF FailureNotRecorded, GivesUp, Crash
<1>10. ASSUME NEW w \in Workers, HeartbeatTick(w) \/ HeartbeatDies(w) PROVE Refines
  <2>1. UNCHANGED <<session.status, session.trust_outcome, attempts, pc>>
    BY <1>0, <1>10 DEF HeartbeatTick, HeartbeatDies, Session
  <2> QED BY <2>1, StutterStep DEF Active
<1>11. ASSUME NEW w \in Workers, MarkStaleSession(w) PROVE Refines
  <2>1. /\ session.status = "VERIFYING" /\ session'.status = "ABANDONED_VERIFYING"
        /\ UNCHANGED <<session.trust_outcome, attempts, pc>>
    BY <1>0, <1>11 DEF MarkStaleSession, execVars, Session
  <2>2. owner' = owner
    BY <2>1, OwnerStays DEF OwnershipInv, Active
  <2> QED BY <2>1, <2>2 DEF Refines, Ownership!Next, Ownership!Abandon
<1>12. CASE HeartbeatAges \/ UNCHANGED vars
  <2>1. UNCHANGED <<session.status, session.trust_outcome, attempts, pc>>
    BY <1>0, <1>12 DEF HeartbeatAges, execVars, vars, Session
  <2> QED BY <2>1, StutterStep DEF Active
<1>13. ASSUME NEW decision \in Decisions, Decide(decision) PROVE Refines
  <2>1. /\ session.status = "PENDING_HUMAN_REVIEW"
        /\ session'.status \in HUMAN_FINAL_STATES
        /\ UNCHANGED <<session.trust_outcome, attempts, pc>>
    BY <1>13, DecidedReceipt, ClosedStates DEF Decide, OwnershipInv, execVars
  <2>2. session.trust_outcome = attempts
    BY <2>1 DEF OwnershipInv, RowOK, VerdictOfLatestAttempt, Verdicted
  <2>3. owner = NoLease /\ owner' = owner
    BY <2>1, NobodyOwns, OwnerStays DEF OwnershipInv, Active
  <2>4. Ownership!Decide
    BY <2>1, <2>2, <2>3 DEF Ownership!Decide, Ownership!Reviewable,
       Ownership!HUMAN_FINAL_STATES, HUMAN_FINAL_STATES
  <2> QED BY <2>4 DEF Refines, Ownership!Next
<1>14. CASE Close
  <2>1. /\ \/ session.status \in HUMAN_FINAL_STATES /\ session'.status = "PENDING_CLEANUP"
           \/ /\ session.status = "PENDING_CLEANUP"
              /\ session'.status \in {"PURGE_COMPLETE", "FAILED_PURGED"}
        /\ UNCHANGED <<session.trust_outcome, attempts, pc>>
    BY <1>0, <1>14 DEF Close, execVars, Session
  <2>2. session.status \in Closed
    BY <2>1 DEF Closed
  <2>3. owner = NoLease /\ owner' = owner
    BY <2>1, <2>2, NobodyOwns, OwnerStays DEF OwnershipInv, Active
  <2>4. Ownership!Close
    BY <2>1, <2>3 DEF Ownership!Close, Ownership!HUMAN_FINAL_STATES, HUMAN_FINAL_STATES
  <2> QED BY <2>4 DEF Refines, Ownership!Next
<1> QED
  BY <1>1, <1>2, <1>3, <1>4, <1>5, <1>6, <1>7, <1>8, <1>9, <1>10, <1>11, <1>12, <1>13,
     <1>14 DEF Next, Proceeds

\* The leases, heartbeats, scans and transactions of the code keep the promise of
\* VerificationOwnership: one owner, and no verdict but the owner's.
THEOREM ExecutionImplementsOwnership == Spec => ImplementsOwnership
<1>1. OwnershipInv /\ OwnershipInv' /\ [Next]_vars => [Ownership!Next]_Ownership!vars
  BY RefinementStep DEF Refines
<1> QED
  BY <1>1, RefinementInit, OwnershipInvariant, PTL
     DEF Spec, ImplementsOwnership, Ownership!Spec

=============================================================================
