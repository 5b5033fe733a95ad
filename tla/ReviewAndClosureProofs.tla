------------------------ MODULE ReviewAndClosureProofs ------------------------
(***************************************************************************)
(* Proofs about ReviewAndClosure: its type invariant, what a decision and a *)
(* purge guarantee, and that it implements DocumentRetention and, with the  *)
(* verification it runs beside, VerificationOwnership.  At the end, those   *)
(* about WorkspacePage, the page that asks for reviews and closes.          *)
(*                                                                          *)
(* The invariant behind all of them is ClosureInv.  Its heart is RowOK: as  *)
(* long as nobody has decided the verification alone moves the session, and *)
(* after a decision the verification can take no step any more, so that a   *)
(* review that read a verdict still finds that verdict when it commits.     *)
(***************************************************************************)
EXTENDS ReviewAndClosure, WorkspacePage, TLAPS

-----------------------------------------------------------------------------
(* The inductive invariant                                                 *)

\* The row before and after the decision.
RowOK ==
    /\ owner # NoExecutor =>
          attempts # 0 /\ status \in {"VERIFYING", "ABANDONED_VERIFYING"}
    /\ verdict \in {0, attempts}
    /\ decided = "NULL" =>
          /\ status \notin HUMAN_FINAL_STATES \cup {"PENDING_CLEANUP", "PURGE_COMPLETE"}
          /\ verdict # 0 <=> status \in Reviewable
          /\ purge_status = "NULL"
          /\ "file" \in traces
          /\ "quarantine" \in traces => "sidecar" \in traces

\* What a review knows of the row since its last SELECT.
ReviewOK(r) ==
    /\ pc[r] \in {"idle", "repeating", "deciding", "committing"} \cup Answers
    /\ pc[r] = "repeating" => decided = choice[r]
    /\ pc[r] \in {"deciding", "committing"} => verdict # 0 /\ seen[r] \in Reviewable

\* What a close knows of the row since its last SELECT.
CloseOK(c) ==
    /\ pc[c] \in {"idle", "claiming"} \cup Purging \cup Answers
    /\ pc[c] = "claiming" => seen[c] \in HUMAN_FINAL_STATES
    /\ pc[c] \in {"completing", "recording"} => seen[c] = "PENDING_CLEANUP"

ClosureInv ==
    /\ TypeOK
    /\ RowOK
    /\ DecisionReceipted
    /\ OnePurger
    /\ PurgeTracked
    /\ \A r \in Reviews : ReviewOK(r)
    /\ \A c \in Closes : CloseOK(c)

\* How far the deletions have come, when the sidecar can be read.
TracesOK ==
    /\ "quarantine" \in traces => "sidecar" \in traces
    /\ \A c \in Closes :
          /\ pc[c] \in {"sidecar", "file", "finishing", "completing"} =>
                "quarantine" \notin traces
          /\ pc[c] \in {"file", "finishing", "completing"} => "sidecar" \notin traces
          /\ pc[c] \in {"finishing", "completing"} => "file" \notin traces
    /\ PurgeLeavesNothing

-----------------------------------------------------------------------------
(* Types                                                                   *)

\* The instance of VerificationOwnership has the same states.
LEMMA SameStates ==
  /\ Verification!SessionState = SessionState
  /\ Verification!LEASE_ACQUIRABLE_STATES = LEASE_ACQUIRABLE_STATES
  /\ Verification!VERIFIED_STATES = VERIFIED_STATES
  /\ Verification!HUMAN_FINAL_STATES = HUMAN_FINAL_STATES
  /\ Verification!Reviewable = Reviewable
  BY DEF Verification!SessionState, Verification!VERIFIED_STATES, Verification!HUMAN_FINAL_STATES,
         Verification!LEASE_ACQUIRABLE_STATES, Verification!Reviewable, SessionState,
         VERIFIED_STATES, HUMAN_FINAL_STATES, LEASE_ACQUIRABLE_STATES, Reviewable

\* A request goes on to another place, and others stay where they are.
LEMMA GoesTyped ==
  ASSUME TypeOK, NEW x \in Requests, NEW place \in Places, Goes(x, place)
  PROVE  /\ pc' \in [Requests -> Places]
         /\ pc'[x] = place
         /\ \A y \in Requests : y # x => pc'[y] = pc[y]
  BY DEF TypeOK, Goes

\* The places of a request that the actions go to when they read a status are places.
LEMMA NamedPlaces ==
  /\ "committing" \in Places /\ "conflict" \in Places
  /\ "claiming" \in Places /\ "refused" \in Places
  /\ "completing" \in Places /\ "failing" \in Places
  /\ "recording" \in Places
BY DEF Places, Answers, Purging

\* The SELECT of transition_state(), as far as the request itself is concerned.
LEMMA SelectTyped ==
  ASSUME TypeOK, NEW x \in Requests, NEW new, NEW next \in Places, NEW otherwise \in Places,
         Select(x, new, next, otherwise)
  PROVE  /\ pc' \in [Requests -> Places]
         /\ seen' \in [Requests -> SessionState]
         /\ \/ pc'[x] = next /\ seen'[x] = status /\ ValidTransition(status, new)
            \/ pc'[x] = otherwise
         /\ \A y \in Requests : y # x => pc'[y] = pc[y] /\ seen'[y] = seen[y]
<1> seen \in [Requests -> SessionState] /\ status \in SessionState
  BY SameStates DEF TypeOK, Verification!TypeOK
<1> seen' = [seen EXCEPT ![x] = status]
  BY DEF Select
<1>1. seen' \in [Requests -> SessionState] /\ seen'[x] = status
  OBVIOUS
<1>2. \A y \in Requests : y # x => seen'[y] = seen[y]
  OBVIOUS
<1>3. CASE ValidTransition(status, new) /\ Goes(x, next)
  BY <1>1, <1>2, <1>3, GoesTyped
<1>4. CASE Goes(x, otherwise)
  BY <1>1, <1>2, <1>4, GoesTyped
<1> QED
  BY <1>3, <1>4 DEF Select

\* The receipt that takes the decision is a receipt, and the row names the latest.
LEMMA UpsertTyped ==
  ASSUME TypeOK, NEW decision \in Decisions, UpsertReceipt(decision)
  PROVE  /\ receipts' \in Seq(Receipt)
         /\ receipt_id' \in Nat \ {0}
         /\ receipt_id' = Len(receipts')
         /\ receipts'[receipt_id'] = [trust_outcome |-> verdict, reviewer_decision |-> decision]
<1> DEFINE last == [trust_outcome |-> verdict, reviewer_decision |-> decision]
<1>1. last \in Receipt
  BY DEF Receipt, TypeOK, Verification!TypeOK
<1>2. CASE receipts = <<>>
  BY <1>1, <1>2 DEF UpsertReceipt, TypeOK
<1>3. CASE receipts # <<>>
  <2>1. Len(receipts) \in Nat \ {0}
    BY <1>3 DEF TypeOK
  <2>2. receipts' = [receipts EXCEPT ![Len(receipts)] = last] /\ receipt_id' = Len(receipts)
    BY <1>3 DEF UpsertReceipt
  <2> QED
    BY <1>1, <2>1, <2>2 DEF TypeOK
<1> QED
  BY <1>2, <1>3

\* A bundle committed on behalf of the attempt in progress is a receipt.
LEMMA BundleTyped ==
  ASSUME TypeOK, BundleCommitted
  PROVE  receipts' \in Seq(Receipt)
<1>1. [trust_outcome |-> attempts, reviewer_decision |-> "NULL"] \in Receipt
  BY DEF Receipt, TypeOK, Verification!TypeOK
<1> QED
  BY <1>1 DEF BundleCommitted, TypeOK

LEMMA TypeInit == Init => TypeOK
<1> SUFFICES ASSUME Init PROVE TypeOK
  OBVIOUS
<1> USE RequestsAssumption DEF Init
<1>1. /\ status \in SessionState
      /\ owner \in Executors \cup {NoExecutor}
      /\ attempts \in Nat
      /\ verdict \in 0..attempts
  BY SameStates DEF Verification!Init, SessionState, VERIFIED_STATES
<1>2. receipts \in Seq(Receipt)
  <2>1. [trust_outcome |-> verdict, reviewer_decision |-> "NULL"] \in Receipt
    BY <1>1 DEF Receipt
  <2>2. CASE receipts = <<>>
    BY <2>2
  <2>3. CASE receipts = <<[trust_outcome |-> verdict, reviewer_decision |-> "NULL"]>>
    BY <2>1, <2>3
  <2> QED
    BY <2>2, <2>3
<1>3. receipt_id \in Nat
  BY <1>2
<1>4. traces \subseteq Files \cup Columns
  BY DEF Files, Columns
<1>5. pc \in [Requests -> Places] /\ seen \in [Requests -> SessionState]
  BY DEF Places, SessionState
<1>6. Verification!TypeOK
  BY <1>1, SameStates DEF Verification!TypeOK
<1>7. purges \in Seq({"IN_PROGRESS", "COMPLETED", "FAILED"})
  OBVIOUS
<1>8. /\ decided \in Decisions \cup {"NULL"}
      /\ purge_status \in {"NULL", "IN_PROGRESS", "COMPLETED", "FAILED"}
      /\ choice \in [Reviews -> Decisions]
      /\ faults \in Nat
  OBVIOUS
<1> QED
  BY <1>2, <1>3, <1>4, <1>5, <1>6, <1>7, <1>8 DEF TypeOK

\* The concurrent verification keeps every variable in its type.
LEMMA VerifyTyped == TypeOK /\ Verify => TypeOK'
<1> SUFFICES ASSUME TypeOK, Verify PROVE TypeOK'
  OBVIOUS
<1>1. /\ status' \in SessionState
      /\ owner' \in Executors \cup {NoExecutor}
      /\ attempts' \in Nat
      /\ verdict' \in 0..attempts'
  <2> USE SameStates DEF TypeOK, Verification!TypeOK
  <2>1. CASE Verification!Publish
    BY <2>1 DEF Verification!Publish, SessionState
  <2>2. CASE Verification!Fail
    BY <2>2 DEF Verification!Fail, SessionState
  <2>3. CASE Verification!Abandon
    BY <2>3 DEF Verification!Abandon, SessionState
  <2>4. CASE Verification!Lose
    <3>1. owner' = NoExecutor /\ status' = status /\ attempts' = attempts /\ verdict' = verdict
      BY <2>4 DEF Verification!Lose
    <3> QED
      BY <3>1
  <2>5. ASSUME NEW e \in Executors, Verification!Begin(e)
        PROVE  /\ status' \in SessionState
               /\ owner' \in Executors \cup {NoExecutor}
               /\ attempts' \in Nat
               /\ verdict' \in 0..attempts'
    BY <2>5 DEF Verification!Begin, SessionState
  <2> QED
    BY <2>1, <2>2, <2>3, <2>4, <2>5 DEF Verify
<1>2. receipts' \in Seq(Receipt)
  BY BundleTyped DEF Verify, TypeOK
<1>3. receipt_id' \in Nat
  BY <1>2 DEF Verify, Published, TypeOK
<1>4. traces' \subseteq Files \cup Columns
  BY DEF Verify, Published, Columns, TypeOK
<1>5. UNCHANGED <<decided, purge_status, purges, pc, seen, choice, faults>>
  BY DEF Verify, requestVars
<1>6. Verification!TypeOK'
  BY <1>1, SameStates DEF Verification!TypeOK
<1> QED
  BY <1>2, <1>3, <1>4, <1>5, <1>6 DEF TypeOK

\* The steps of a review keep every variable in its type.
LEMMA ReviewTyped ==
  ASSUME TypeOK, NEW r \in Reviews, ReviewStep(r)
  PROVE  TypeOK'
<1> r \in Requests
  BY DEF Requests
<1> choice[r] \in Decisions
  BY DEF TypeOK
<1>1. CASE ReadForReview(r)
  <2>1. pc' \in [Requests -> Places]
    BY <1>1, GoesTyped DEF ReadForReview, Places, Answers
  <2>2. seen' \in [Requests -> SessionState]
    <3>1. seen \in [Requests -> SessionState] /\ status \in SessionState
      BY SameStates DEF TypeOK, Verification!TypeOK
    <3>2. seen' = [seen EXCEPT ![r] = status]
      BY <1>1 DEF ReadForReview
    <3> QED
      BY <3>1, <3>2
  <2> QED
    BY <1>1, <2>1, <2>2
    DEF ReadForReview, TypeOK, Verification!TypeOK, verificationVars, receiptVars, purgeVars
<1>2. CASE RepeatDecision(r)
  <2>1. pc' \in [Requests -> Places]
    BY <1>2, GoesTyped DEF RepeatDecision, Places, Answers
  <2> QED
    BY <1>2, <2>1, UpsertTyped
    DEF RepeatDecision, TypeOK, Verification!TypeOK, verificationVars, purgeVars
<1>3. CASE SelectForDecision(r)
  <2>1. pc' \in [Requests -> Places] /\ seen' \in [Requests -> SessionState]
    <3> DEFINE new == IF seen[r] \in VERIFIED_STATES THEN "PENDING_HUMAN_REVIEW"
                                                    ELSE FinalState[choice[r]]
    <3>1. Select(r, new, "committing", "conflict")
      BY <1>3 DEF SelectForDecision
    <3> HIDE DEF new
    <3> QED
      BY <3>1, SelectTyped, NamedPlaces
  <2> QED
    BY <1>3, <2>1
    DEF SelectForDecision, TypeOK, Verification!TypeOK, verificationVars, receiptVars, purgeVars
<1>4. CASE CommitDecision(r)
  <2>1. pc' \in [Requests -> Places]
    BY <1>4, GoesTyped DEF CommitDecision, Places, Answers
  <2>2. FinalState[choice[r]] \in SessionState
    BY DEF FinalState, Decisions, SessionState, HUMAN_FINAL_STATES
  <2>3. CASE status = seen[r]
    <3>1. /\ status' = FinalState[choice[r]]
          /\ decided' = choice[r]
          /\ UpsertReceipt(choice[r])
          /\ UNCHANGED <<owner, attempts, verdict, traces, purge_status, purges,
                         seen, choice, faults>>
      BY <1>4, <2>3 DEF CommitDecision, purgeVars
    <3>2. receipts' \in Seq(Receipt) /\ receipt_id' \in Nat
      BY <3>1, UpsertTyped
    <3>3. Verification!TypeOK'
      BY <2>2, <3>1, SameStates DEF TypeOK, Verification!TypeOK
    <3> QED
      BY <2>1, <3>1, <3>2, <3>3 DEF TypeOK
  <2>4. CASE status # seen[r]
    BY <1>4, <2>1, <2>4
    DEF CommitDecision, TypeOK, Verification!TypeOK, receiptVars, purgeVars
  <2> QED
    BY <2>3, <2>4
<1> QED
  BY <1>1, <1>2, <1>3, <1>4 DEF ReviewStep

\* The commit that ends a purge keeps every variable in its type.
LEMMA EndPurgeTyped ==
  ASSUME TypeOK, NEW c \in Requests, NEW new \in SessionState,
         NEW outcome \in {"COMPLETED", "FAILED"}, EndPurge(c, new, outcome),
         traces' \subseteq traces
  PROVE  TypeOK'
<1>1. pc' \in [Requests -> Places]
  BY GoesTyped DEF EndPurge, Places, Answers
<1>2. purges' \in Seq({"IN_PROGRESS", "COMPLETED", "FAILED"})
  <2>1. outcome \in {"IN_PROGRESS", "COMPLETED", "FAILED"}
    OBVIOUS
  <2>2. purges' = IF purges = <<>> THEN purges
                  ELSE [purges EXCEPT ![Len(purges)] = outcome]
    BY DEF EndPurge
  <2> QED
    <3>1. purges \in Seq({"IN_PROGRESS", "COMPLETED", "FAILED"})
      BY DEF TypeOK
    <3>2. CASE purges = <<>>
      BY <2>2, <3>1, <3>2
    <3>3. CASE purges # <<>>
      BY <2>1, <2>2, <3>1, <3>3
    <3> QED
      BY <3>2, <3>3
<1>3. Verification!TypeOK'
  BY SameStates DEF EndPurge, TypeOK, Verification!TypeOK
<1>4. traces' \subseteq Files \cup Columns /\ purge_status' \in {"COMPLETED", "FAILED"}
  BY DEF EndPurge, TypeOK
<1>5. UNCHANGED <<receipts, receipt_id, decided, seen, choice, faults>>
  BY DEF EndPurge, receiptVars
<1> QED
  BY <1>1, <1>2, <1>3, <1>4, <1>5 DEF TypeOK

\* The steps of a close keep every variable in its type.
LEMMA CloseTyped ==
  ASSUME TypeOK, NEW c \in Closes, CloseStep(c)
  PROVE  TypeOK'
<1> c \in Requests
  BY DEF Requests
<1> USE DEF verificationVars, receiptVars, purgeVars
<1>1. CASE ReadForClose(c)
  <2>1. pc' \in [Requests -> Places] /\ seen' \in [Requests -> SessionState]
    <3>1. Select(c, "PENDING_CLEANUP", "claiming", "refused")
      BY <1>1 DEF ReadForClose
    <3>2. "claiming" \in Places /\ "refused" \in Places
      BY NamedPlaces
    <3>3. /\ pc' \in [Requests -> Places]
           /\ seen' \in [Requests -> SessionState]
           /\ \/ pc'[c] = "claiming" /\ seen'[c] = status /\ ValidTransition(status, "PENDING_CLEANUP")
              \/ pc'[c] = "refused"
           /\ \A y \in Requests : y # c => pc'[y] = pc[y] /\ seen'[y] = seen[y]
      BY <3>1, <3>2, SelectTyped
    <3> QED
      BY <3>3
  <2> QED
    BY <1>1, <2>1 DEF ReadForClose, TypeOK, Verification!TypeOK
<1>2. CASE ClaimForClose(c)
  <2>1. pc' \in [Requests -> Places]
    BY <1>2, GoesTyped DEF ClaimForClose, Places, Purging, Answers
  <2>2. CASE status = seen[c]
    <3>1. /\ status' = "PENDING_CLEANUP" /\ purge_status' = "IN_PROGRESS"
          /\ purges' = Append(purges, "IN_PROGRESS")
          /\ UNCHANGED <<owner, attempts, verdict, receipts, receipt_id, decided, traces,
                         seen, choice, faults>>
      BY <1>2, <2>2 DEF ClaimForClose
    <3>2. purges' \in Seq({"IN_PROGRESS", "COMPLETED", "FAILED"})
      BY <3>1 DEF TypeOK
    <3>3. Verification!TypeOK'
      BY <3>1, SameStates DEF TypeOK, Verification!TypeOK, SessionState
    <3> QED
      BY <2>1, <3>1, <3>2, <3>3 DEF TypeOK
  <2>3. CASE status # seen[c]
    BY <1>2, <2>1, <2>3 DEF ClaimForClose, TypeOK, Verification!TypeOK
  <2> QED
    BY <2>2, <2>3
<1>3. CASE DeleteFile(c)
  <2>1. NextDeletion(pc[c]) \in Places
    BY <1>3 DEF DeleteFile, NextDeletion, Files, Purging, Places
  <2>2. pc' \in [Requests -> Places]
    BY <1>3, <2>1, GoesTyped DEF DeleteFile
  <2>3. traces' \subseteq traces
    BY <1>3 DEF DeleteFile
  <2> QED
    BY <1>3, <2>2, <2>3 DEF DeleteFile, TypeOK, Verification!TypeOK
<1>4. CASE PurgeRaises(c)
  <2>1. pc' \in [Requests -> Places]
    BY <1>4, GoesTyped DEF PurgeRaises, Places, Purging
  <2> QED
    BY <1>4, <2>1 DEF PurgeRaises, TypeOK, Verification!TypeOK
<1>5. CASE ReadForFinish(c)
  <2>1. pc' \in [Requests -> Places] /\ seen' \in [Requests -> SessionState]
    <3>1. Select(c, "PURGE_COMPLETE", "completing", "failing")
      BY <1>5 DEF ReadForFinish
    <3>2. "completing" \in Places /\ "failing" \in Places
      BY NamedPlaces
    <3>3. /\ pc' \in [Requests -> Places]
           /\ seen' \in [Requests -> SessionState]
           /\ \/ pc'[c] = "completing" /\ seen'[c] = status /\ ValidTransition(status, "PURGE_COMPLETE")
              \/ pc'[c] = "failing"
           /\ \A y \in Requests : y # c => pc'[y] = pc[y] /\ seen'[y] = seen[y]
      BY <3>1, <3>2, SelectTyped
    <3> QED
      BY <3>3
  <2> QED
    BY <1>5, <2>1 DEF ReadForFinish, TypeOK, Verification!TypeOK
<1>6. CASE FinishPurge(c)
  <2>1. CASE status = seen[c]
    BY <1>6, <2>1, EndPurgeTyped DEF FinishPurge, SessionState
  <2>2. CASE status # seen[c]
    <3>1. pc' \in [Requests -> Places]
      BY <1>6, <2>2, NamedPlaces, GoesTyped DEF FinishPurge
    <3> QED
      BY <1>6, <2>2, <3>1 DEF FinishPurge, TypeOK, Verification!TypeOK
  <2> QED
    BY <2>1, <2>2
<1>7. CASE ReadForFailedPurge(c)
  <2>1. pc' \in [Requests -> Places] /\ seen' \in [Requests -> SessionState]
    <3>1. Select(c, "FAILED_PURGED", "recording", "refused")
      BY <1>7 DEF ReadForFailedPurge
    <3>2. "recording" \in Places /\ "refused" \in Places
      BY NamedPlaces
    <3>3. /\ pc' \in [Requests -> Places]
           /\ seen' \in [Requests -> SessionState]
           /\ \/ pc'[c] = "recording" /\ seen'[c] = status /\ ValidTransition(status, "FAILED_PURGED")
              \/ pc'[c] = "refused"
           /\ \A y \in Requests : y # c => pc'[y] = pc[y] /\ seen'[y] = seen[y]
      BY <3>1, <3>2, SelectTyped
    <3> QED
      BY <3>3
  <2> QED
    BY <1>7, <2>1 DEF ReadForFailedPurge, TypeOK, Verification!TypeOK
<1>8. CASE RecordFailedPurge(c)
  <2>1. CASE status = seen[c]
    BY <1>8, <2>1, EndPurgeTyped DEF RecordFailedPurge, SessionState
  <2>2. CASE status # seen[c]
    <3>1. pc' \in [Requests -> Places]
      BY <1>8, <2>2, GoesTyped DEF RecordFailedPurge, Places, Answers
    <3> QED
      BY <1>8, <2>2, <3>1 DEF RecordFailedPurge, TypeOK, Verification!TypeOK
  <2> QED
    BY <2>1, <2>2
<1>9. CASE PurgeLosesDatabase(c)
  <2>1. pc' \in [Requests -> Places]
    BY <1>9, NamedPlaces, GoesTyped DEF PurgeLosesDatabase, Places, Answers
  <2> QED
    BY <1>9, <2>1 DEF PurgeLosesDatabase, TypeOK, Verification!TypeOK
<1> QED
  BY <1>1, <1>2, <1>3, <1>4, <1>5, <1>6, <1>7, <1>8, <1>9 DEF CloseStep

LEMMA TypeStep == TypeOK /\ [Next]_vars => TypeOK'
<1> SUFFICES ASSUME TypeOK, [Next]_vars PROVE TypeOK'
  OBVIOUS
<1> USE DEF verificationVars, receiptVars, purgeVars, requestVars
<1>1. CASE CommitBundle
  BY <1>1, BundleTyped DEF CommitBundle, TypeOK, Verification!TypeOK
<1>2. ASSUME NEW x \in Requests, Fails(x) PROVE TypeOK'
  <2>1. pc' \in [Requests -> Places]
    BY <1>2, GoesTyped DEF Fails, Places, Answers
  <2> QED
    BY <1>2, <2>1 DEF Fails, TypeOK, Verification!TypeOK
<1>3. CASE UNCHANGED vars
  BY <1>3 DEF vars, TypeOK, Verification!TypeOK
<1> QED
  BY <1>1, <1>2, <1>3, VerifyTyped, ReviewTyped, CloseTyped DEF Next

\* The columns, the receipts and the requests' locals hold only values that the
\* schema and the code admit (sessions/models.py).
THEOREM TypeCorrect == Spec => []TypeOK
  BY TypeInit, TypeStep, PTL DEF Spec

-----------------------------------------------------------------------------
(* The invariant                                                           *)

\* The edges of the table that reviews and closes use.
LEMMA Edges ==
  ASSUME NEW s
  PROVE  /\ ValidTransition(s, "PENDING_CLEANUP") <=> s \in HUMAN_FINAL_STATES
         /\ ValidTransition(s, "PURGE_COMPLETE") <=> s = "PENDING_CLEANUP"
         /\ ValidTransition(s, "FAILED_PURGED") <=>
                s \in {"VERIFYING", "PENDING_CLEANUP", "ABANDONED_VERIFYING"}
         /\ ValidTransition(s, "PENDING_HUMAN_REVIEW") <=>
                s \in VERIFIED_STATES \cup {"VERIFYING"}
         /\ \A d \in Decisions :
                ValidTransition(s, FinalState[d]) <=> s = "PENDING_HUMAN_REVIEW"
  BY DEF ValidTransition, ALLOWED_TRANSITIONS, HUMAN_FINAL_STATES, VERIFIED_STATES,
         LEASE_ACQUIRABLE_STATES, FinalState, Decisions

\* Every decision has a final state of its own.
LEMMA FinalStates ==
  /\ \A d \in Decisions : FinalState[d] \in HUMAN_FINAL_STATES
  /\ \A d, e \in Decisions : FinalState[d] = FinalState[e] => d = e
  /\ \A s \in HUMAN_FINAL_STATES : s \notin Reviewable /\ s \notin
        {"PENDING_CLEANUP", "PURGE_COMPLETE", "FAILED_PURGED", "VERIFYING",
         "ABANDONED_VERIFYING"}
  BY DEF FinalState, Decisions, HUMAN_FINAL_STATES, Reviewable, VERIFIED_STATES

LEMMA InvInit == Init => ClosureInv
<1> SUFFICES ASSUME Init PROVE ClosureInv
  OBVIOUS
<1>1. TypeOK
  BY TypeInit
<1>2. RowOK
  BY SameStates
     DEF Init, RowOK, Verification!Init, Reviewable, VERIFIED_STATES, HUMAN_FINAL_STATES, Files
<1>3. DecisionReceipted
  BY DEF Init, DecisionReceipted
<1>4. \A x \in Requests : pc[x] = "idle"
  BY DEF Init
<1>5. OnePurger
  BY <1>4 DEF OnePurger, Purging, Requests
<1>6. PurgeTracked
  <2>1. status \notin {"PENDING_CLEANUP", "PURGE_COMPLETE"}
    BY SameStates DEF Init, Verification!Init, VERIFIED_STATES
  <2> QED
    BY <2>1 DEF Init, PurgeTracked
<1>7. (\A r \in Reviews : ReviewOK(r)) /\ \A c \in Closes : CloseOK(c)
  BY <1>4 DEF ReviewOK, CloseOK, Requests
<1> QED
  BY <1>1, <1>2, <1>3, <1>5, <1>6, <1>7 DEF ClosureInv

\* While the verification can take a step nobody has decided, no verdict is
\* published, no review goes on and nothing is purged.
LEMMA VerificationIdle ==
  ASSUME ClosureInv, Verify \/ CommitBundle
  PROVE  /\ decided = "NULL"
         /\ verdict = 0
         /\ status \in LEASE_ACQUIRABLE_STATES \cup {"VERIFYING", "ABANDONED_VERIFYING"}
         /\ \A r \in Reviews : pc[r] \notin {"repeating", "deciding", "committing"}
         /\ \A c \in Closes : pc[c] \notin Purging
<1>1. status \in LEASE_ACQUIRABLE_STATES \cup {"VERIFYING", "ABANDONED_VERIFYING"}
  <2>1. CASE owner # NoExecutor
    BY <2>1 DEF ClosureInv, RowOK
  <2>2. CASE owner = NoExecutor
    <3>1. Verification!Abandon \/ \E e \in Executors : Verification!Begin(e)
      BY <2>2 DEF Verify, CommitBundle, BundleCommitted, Verification!Publish, Verification!Fail,
           Verification!Lose
    <3> QED
      BY <3>1, SameStates DEF Verification!Abandon, Verification!Begin
  <2> QED
    BY <2>1, <2>2
<1>2. decided = "NULL"
  <2> SUFFICES ASSUME decided # "NULL" PROVE FALSE
    OBVIOUS
  <2>1. decided \in Decisions
    BY DEF ClosureInv, TypeOK
  <2>2. status # "FAILED_PURGED" /\ status \notin {"PENDING_CLEANUP", "PURGE_COMPLETE"}
    BY <1>1 DEF LEASE_ACQUIRABLE_STATES
  <2>3. status = FinalState[decided]
    BY <2>2 DEF ClosureInv, DecisionReceipted
  <2> QED
    BY <1>1, <2>1, <2>3, FinalStates DEF LEASE_ACQUIRABLE_STATES, HUMAN_FINAL_STATES
<1>3. verdict = 0
  BY <1>1, <1>2
  DEF ClosureInv, RowOK, Reviewable, LEASE_ACQUIRABLE_STATES, VERIFIED_STATES
<1>4. \A r \in Reviews : choice[r] # "NULL"
  BY DEF ClosureInv, TypeOK, Decisions
<1>5. \A r \in Reviews : pc[r] \notin {"repeating", "deciding", "committing"}
  BY <1>2, <1>3, <1>4 DEF ClosureInv, ReviewOK
<1>6. \A c \in Closes : pc[c] \notin Purging
  BY <1>1 DEF ClosureInv, OnePurger, LEASE_ACQUIRABLE_STATES
<1> QED
  BY <1>1, <1>2, <1>3, <1>5, <1>6

\* Before a decision, the concurrent verification moves the row as RowOK says.
LEMMA InvVerify ==
  ASSUME ClosureInv, Verify
  PROVE  ClosureInv'
<1>1. TypeOK'
  BY VerifyTyped DEF ClosureInv
<1>2. UNCHANGED <<decided, purge_status, purges, pc, seen, choice>>
  BY DEF Verify, requestVars
<1>3. traces \subseteq traces' /\ traces' \subseteq traces \cup {"workspace_payload"}
  BY DEF Verify, Published
<1>4. /\ owner' # NoExecutor =>
            attempts' # 0 /\ status' \in {"VERIFYING", "ABANDONED_VERIFYING"}
      /\ status' \notin HUMAN_FINAL_STATES \cup {"PENDING_CLEANUP", "PURGE_COMPLETE"}
      /\ verdict' # 0 <=> status' \in Reviewable
      /\ verdict' \in {0, attempts'}
  <2>1. /\ verdict = 0
        /\ status \in LEASE_ACQUIRABLE_STATES \cup {"VERIFYING", "ABANDONED_VERIFYING"}
        /\ owner # NoExecutor =>
              attempts # 0 /\ status \in {"VERIFYING", "ABANDONED_VERIFYING"}
        /\ attempts \in Nat
    BY VerificationIdle DEF ClosureInv, RowOK, TypeOK, Verification!TypeOK
  <2> USE DEF Reviewable, VERIFIED_STATES, HUMAN_FINAL_STATES, LEASE_ACQUIRABLE_STATES
  <2>2. CASE Verification!Publish
    <3>1. attempts # 0
      BY <2>1, <2>2 DEF Verification!Publish
    <3> QED
      BY <2>1, <2>2, <3>1 DEF Verification!Publish
  <2>3. CASE Verification!Fail
    BY <2>1, <2>3 DEF Verification!Fail
  <2>4. CASE Verification!Abandon
    BY <2>1, <2>4 DEF Verification!Abandon
  <2>5. CASE Verification!Lose
    BY <2>1, <2>5 DEF Verification!Lose
  <2>6. CASE \E e \in Executors : Verification!Begin(e)
    BY <2>1, <2>6 DEF Verification!Begin
  <2> QED
    BY <2>2, <2>3, <2>4, <2>5, <2>6 DEF Verify
<1>5. RowOK'
  BY <1>2, <1>3, <1>4, VerificationIdle DEF ClosureInv, RowOK
<1>6. DecisionReceipted'
  BY <1>2, VerificationIdle DEF DecisionReceipted
<1>7. OnePurger'
  BY <1>2, VerificationIdle DEF OnePurger
<1>8. PurgeTracked'
  <2>1. purge_status = "NULL"
    BY VerificationIdle DEF ClosureInv, RowOK
  <2> QED
    BY <1>2, <1>4, <2>1 DEF ClosureInv, PurgeTracked
<1>9. \A r \in Reviews : ReviewOK(r)'
  BY <1>2, VerificationIdle DEF ClosureInv, ReviewOK
<1>10. \A c \in Closes : CloseOK(c)'
  BY <1>2 DEF ClosureInv, CloseOK
<1> QED
  BY <1>1, <1>5, <1>6, <1>7, <1>8, <1>9, <1>10 DEF ClosureInv

\* The heartbeat thread's commit adds a receipt to a session nobody has decided.
LEMMA InvBundle ==
  ASSUME ClosureInv, CommitBundle
  PROVE  ClosureInv'
<1>1. TypeOK'
  BY TypeStep DEF ClosureInv, Next
<1>2. UNCHANGED <<status, owner, attempts, verdict, decided, traces, purge_status, purges,
                  pc, seen, choice>>
  BY DEF CommitBundle, verificationVars, purgeVars, requestVars
<1>3. DecisionReceipted'
  BY <1>2, VerificationIdle DEF DecisionReceipted
<1> QED
  BY <1>1, <1>2, <1>3
  DEF ClosureInv, RowOK, OnePurger, PurgeTracked, ReviewOK, CloseOK

\* A review that reads, or is refused, changes nothing but its own place: what the
\* others rely on stays as it is.
LEMMA InvLocal ==
  ASSUME ClosureInv, TypeOK', NEW x \in Requests,
         UNCHANGED <<status, owner, attempts, verdict, receipts, receipt_id, decided,
                     traces, purge_status, purges, choice>>,
         \A y \in Requests : y # x => pc'[y] = pc[y] /\ seen'[y] = seen[y],
         x \in Reviews => ReviewOK(x)',
         x \in Closes => CloseOK(x)',
         x \in Closes /\ pc'[x] \in Purging => pc[x] \in Purging
  PROVE  ClosureInv'
<1>1. RowOK' /\ DecisionReceipted' /\ PurgeTracked'
  BY DEF ClosureInv, RowOK, DecisionReceipted, PurgeTracked
<1>2. \A c \in Closes : pc'[c] \in Purging => pc[c] \in Purging
  BY DEF Requests
<1>3. OnePurger'
  BY <1>2 DEF ClosureInv, OnePurger
<1>4. \A r \in Reviews : ReviewOK(r)'
  BY DEF ClosureInv, ReviewOK, Requests
<1>5. \A c \in Closes : CloseOK(c)'
  BY DEF ClosureInv, CloseOK, Requests
<1> QED
  BY <1>1, <1>3, <1>4, <1>5 DEF ClosureInv

\* Reviews keep the invariant: a review commits on the verdict it read, once.
LEMMA InvReview ==
  ASSUME ClosureInv, NEW r \in Reviews, ReviewStep(r)
  PROVE  ClosureInv'
<1>1. TypeOK /\ TypeOK' /\ r \in Requests /\ choice[r] \in Decisions
  <2>1. TypeOK /\ r \in Requests
    BY DEF ClosureInv, Requests
  <2> QED
    BY <2>1, ReviewTyped DEF TypeOK
<1>2. r \notin Closes
  BY RequestsAssumption
<1>3. ReviewOK(r)
  BY DEF ClosureInv
<1>4. CASE ReadForReview(r)
  <2>1. /\ \A y \in Requests : y # r => pc'[y] = pc[y] /\ seen'[y] = seen[y]
        /\ seen'[r] = status
    <3>1. pc \in [Requests -> Places] /\ seen \in [Requests -> SessionState]
      BY <1>1 DEF TypeOK
    <3>2. seen' = [seen EXCEPT ![r] = status]
      BY <1>4 DEF ReadForReview
    <3>3. \E place : pc' = [pc EXCEPT ![r] = place]
      BY <1>4 DEF ReadForReview, Goes
    <3> QED
      BY <1>1, <3>1, <3>2, <3>3
  <2>2. UNCHANGED <<status, owner, attempts, verdict, receipts, receipt_id, decided,
                    traces, purge_status, purges, choice>>
    BY <1>4 DEF ReadForReview, verificationVars, receiptVars, purgeVars
  <2>3. ReviewOK(r)'
    <3>1. CASE status = FinalState[choice[r]] /\ Goes(r, "repeating")
      <4>1. decided # "NULL"
        BY <1>1, <3>1, FinalStates DEF ClosureInv, RowOK
      <4>2. decided \in Decisions
        BY <4>1 DEF ClosureInv, TypeOK
      <4>3. status = FinalState[decided]
        BY <1>1, <3>1, <4>1, FinalStates DEF ClosureInv, DecisionReceipted
      <4>4. decided = choice[r]
        BY <1>1, <3>1, <4>2, <4>3, FinalStates
      <4>5. pc'[r] = "repeating"
        BY <1>1, <3>1, GoesTyped DEF Places
      <4> QED
        BY <2>2, <4>4, <4>5 DEF ReviewOK
    <3>2. CASE status \in Reviewable /\ Goes(r, "deciding")
      <4>1. verdict # 0
        <5>1. CASE decided = "NULL"
          BY <3>2, <5>1 DEF ClosureInv, RowOK
        <5>2. CASE decided # "NULL"
          BY <5>2 DEF ClosureInv, DecisionReceipted
        <5> QED
          BY <5>1, <5>2
      <4>2. pc'[r] = "deciding"
        BY <1>1, <3>2, GoesTyped DEF Places
      <4> QED
        BY <2>1, <2>2, <3>2, <4>1, <4>2 DEF ReviewOK
    <3>3. CASE Goes(r, "conflict")
      <4>1. pc'[r] = "conflict"
        BY <1>1, <3>3, GoesTyped DEF Places, Answers
      <4> QED
        BY <4>1 DEF ReviewOK, Answers
    <3> QED
      BY <1>4, <3>1, <3>2, <3>3 DEF ReadForReview
  <2> QED
    BY <1>1, <1>2, <2>1, <2>2, <2>3, InvLocal
<1>5. CASE RepeatDecision(r)
  <2>1. /\ UpsertReceipt(choice[r])
        /\ Goes(r, "ok")
        /\ pc[r] = "repeating"
        /\ UNCHANGED <<status, owner, attempts, verdict, decided, traces, purge_status, purges,
                       seen, choice>>
    BY <1>5 DEF RepeatDecision, verificationVars, purgeVars
  <2>2. decided = choice[r]
    BY <1>3, <2>1 DEF ReviewOK
  <2>3. pc'[r] = "ok" /\ \A y \in Requests : y # r => pc'[y] = pc[y]
    BY <1>1, <2>1, GoesTyped DEF Places, Answers
  <2>4. DecisionReceipted'
    BY <1>1, <2>1, <2>2, UpsertTyped DEF ClosureInv, DecisionReceipted
  <2>5. RowOK' /\ PurgeTracked'
    BY <2>1 DEF ClosureInv, RowOK, PurgeTracked
  <2>6. \A c \in Closes : pc'[c] = pc[c]
    BY <1>2, <2>3 DEF Requests
  <2>7. OnePurger' /\ \A c \in Closes : CloseOK(c)'
    BY <2>1, <2>6 DEF ClosureInv, OnePurger, CloseOK
  <2>8. ASSUME NEW q \in Reviews PROVE ReviewOK(q)'
    <3>1. CASE q = r
      BY <2>3, <3>1 DEF ReviewOK, Answers
    <3>2. CASE q # r
      BY <2>1, <2>3, <3>2 DEF ClosureInv, ReviewOK, Requests
    <3> QED
      BY <3>1, <3>2
  <2> QED
    BY <1>1, <2>4, <2>5, <2>7, <2>8 DEF ClosureInv
<1>6. CASE SelectForDecision(r)
  <2> DEFINE new == IF seen[r] \in VERIFIED_STATES THEN "PENDING_HUMAN_REVIEW"
                                                  ELSE FinalState[choice[r]]
  <2>1. Select(r, new, "committing", "conflict")
    BY <1>6 DEF SelectForDecision
  <2>2. UNCHANGED <<status, owner, attempts, verdict, receipts, receipt_id, decided,
                    traces, purge_status, purges, choice>>
    BY <1>6 DEF SelectForDecision, verificationVars, receiptVars, purgeVars
  <2>3. verdict # 0
    BY <1>3, <1>6 DEF ReviewOK, SelectForDecision
  <2>4. ValidTransition(status, new) => status \in Reviewable
    <3>1. status # "VERIFYING"
      <4>1. CASE decided = "NULL"
        BY <2>3, <4>1 DEF ClosureInv, RowOK, Reviewable, VERIFIED_STATES
      <4>2. CASE decided # "NULL"
        <5>1. decided \in Decisions
          BY <4>2 DEF ClosureInv, TypeOK
        <5> QED
          BY <4>2, <5>1, FinalStates DEF ClosureInv, DecisionReceipted
      <4> QED
        BY <4>1, <4>2
    <3> QED
      BY <1>1, <3>1, Edges DEF Reviewable
  <2> HIDE DEF new
  <2>5. /\ \/ pc'[r] = "committing" /\ seen'[r] = status /\ ValidTransition(status, new)
           \/ pc'[r] = "conflict"
        /\ \A y \in Requests : y # r => pc'[y] = pc[y] /\ seen'[y] = seen[y]
    BY <1>1, <2>1, SelectTyped, NamedPlaces
  <2>6. ReviewOK(r)'
    BY <2>2, <2>3, <2>4, <2>5 DEF ReviewOK, Answers
  <2> QED
    BY <1>1, <1>2, <2>2, <2>5, <2>6, InvLocal
<1>7. CASE CommitDecision(r)
  <2>0. pc[r] = "committing" /\ verdict # 0 /\ seen[r] \in Reviewable
    BY <1>3, <1>7 DEF CommitDecision, ReviewOK
  <2>1. CASE status = seen[r]
    <3>1. /\ status' = FinalState[choice[r]]
          /\ decided' = choice[r]
          /\ UpsertReceipt(choice[r])
          /\ Goes(r, "ok")
          /\ UNCHANGED <<owner, attempts, verdict, traces, purge_status, purges, seen, choice>>
      BY <1>7, <2>1 DEF CommitDecision, purgeVars
    <3>2. pc'[r] = "ok" /\ \A y \in Requests : y # r => pc'[y] = pc[y]
      BY <1>1, <3>1, GoesTyped DEF Places, Answers
    <3>3. decided = "NULL"
      <4> SUFFICES ASSUME decided # "NULL" PROVE FALSE
        OBVIOUS
      <4>1. decided \in Decisions
        BY DEF ClosureInv, TypeOK
      <4> QED
        BY <2>0, <2>1, <4>1, FinalStates
        DEF ClosureInv, DecisionReceipted, Reviewable, VERIFIED_STATES
    <3>4. choice[r] # "NULL"
      BY <1>1 DEF Decisions
    <3>5. RowOK'
      <4>1. owner = NoExecutor
        BY <2>0, <2>1 DEF ClosureInv, RowOK, Reviewable, VERIFIED_STATES
      <4>2. verdict \in {0, attempts}
        BY DEF ClosureInv, RowOK
      <4> QED
        BY <3>1, <3>4, <4>1, <4>2 DEF RowOK
    <3>6. DecisionReceipted'
      BY <1>1, <2>0, <3>1, UpsertTyped DEF DecisionReceipted
    <3>7. PurgeTracked'
      BY <1>1, <2>0, <2>1, <3>1, <3>3, FinalStates
      DEF ClosureInv, RowOK, PurgeTracked, Reviewable, VERIFIED_STATES
    <3>8. \A c \in Closes : pc'[c] = pc[c] /\ pc[c] \notin Purging
      <4>1. status # "PENDING_CLEANUP"
        BY <2>0, <2>1 DEF Reviewable, VERIFIED_STATES
      <4> QED
        BY <1>2, <3>2, <4>1 DEF ClosureInv, OnePurger, Requests
    <3>9. OnePurger' /\ \A c \in Closes : CloseOK(c)'
      BY <3>1, <3>8 DEF ClosureInv, OnePurger, CloseOK
    <3>10. ASSUME NEW q \in Reviews PROVE ReviewOK(q)'
      <4>1. CASE q = r
        BY <3>2, <4>1 DEF ReviewOK, Answers
      <4>2. CASE q # r
        <5>1. choice[q] # "NULL"
          BY <1>1 DEF TypeOK, Decisions
        <5> QED
          BY <3>1, <3>2, <3>3, <4>2, <5>1 DEF ClosureInv, ReviewOK, Requests
      <4> QED
        BY <4>1, <4>2
    <3> QED
      BY <1>1, <3>5, <3>6, <3>7, <3>9, <3>10 DEF ClosureInv
  <2>2. CASE status # seen[r]
    <3>1. /\ Goes(r, "conflict")
          /\ UNCHANGED <<status, owner, attempts, verdict, receipts, receipt_id, decided,
                         traces, purge_status, purges, seen, choice>>
      BY <1>7, <2>2 DEF CommitDecision, receiptVars, purgeVars
    <3>2. pc'[r] = "conflict" /\ \A y \in Requests : y # r => pc'[y] = pc[y]
      BY <1>1, <3>1, GoesTyped DEF Places, Answers
    <3>3. ReviewOK(r)'
      BY <3>2 DEF ReviewOK, Answers
    <3> QED
      BY <1>1, <1>2, <3>1, <3>2, <3>3, InvLocal
  <2> QED
    BY <2>1, <2>2
<1> QED
  BY <1>4, <1>5, <1>6, <1>7 DEF ReviewStep

\* A session in cleanup has been decided, and its one purge record is open.
LEMMA InCleanup ==
  ASSUME ClosureInv, NEW c \in Closes, pc[c] \in Purging
  PROVE  /\ status = "PENDING_CLEANUP"
         /\ decided # "NULL"
         /\ owner = NoExecutor
         /\ purge_status = "IN_PROGRESS"
         /\ purges = <<"IN_PROGRESS">>
  BY DEF ClosureInv, OnePurger, RowOK, PurgeTracked

\* The row is as the purge saw it: nobody else moves a session in cleanup.
LEMMA FinishesAsSeen ==
  ASSUME ClosureInv, NEW c \in Closes, FinishPurge(c)
  PROVE  /\ pc[c] = "completing"
         /\ traces' = traces \ Columns
         /\ EndPurge(c, "PURGE_COMPLETE", "COMPLETED")
<1>1. pc[c] = "completing" /\ pc[c] \in Purging
  BY DEF FinishPurge, Purging
<1>2. status = seen[c]
  BY <1>1, InCleanup DEF ClosureInv, CloseOK
<1> QED
  BY <1>1, <1>2 DEF FinishPurge

\* The commit that ends a purge keeps the invariant: only this close can have moved
\* the session, and nobody purges any more.
LEMMA InvEndPurge ==
  ASSUME ClosureInv, NEW c \in Closes, pc[c] \in {"completing", "recording"},
         NEW new, NEW outcome,
         \/ new = "PURGE_COMPLETE" /\ outcome = "COMPLETED"
         \/ new = "FAILED_PURGED" /\ outcome = "FAILED",
         EndPurge(c, new, outcome), traces' \subseteq traces
  PROVE  ClosureInv'
<1>1. c \in Requests /\ c \notin Reviews /\ TypeOK /\ pc[c] \in Purging
  BY RequestsAssumption DEF Requests, ClosureInv, Purging
<1>2. TypeOK'
  BY <1>1, EndPurgeTyped DEF SessionState
<1>3. /\ status = "PENDING_CLEANUP" /\ decided # "NULL" /\ owner = NoExecutor
      /\ purges = <<"IN_PROGRESS">>
  BY <1>1, InCleanup
<1>4. /\ status' = new /\ purge_status' = outcome
      /\ UNCHANGED <<owner, attempts, verdict, receipts, receipt_id, decided, seen, choice>>
      /\ Goes(c, "ok")
  BY DEF EndPurge, receiptVars
<1>5. pc'[c] = "ok" /\ \A y \in Requests : y # c => pc'[y] = pc[y]
  BY <1>1, <1>4, GoesTyped DEF Places, Answers
<1>6. purges' = <<outcome>>
  <2>1. purges' = [purges EXCEPT ![Len(purges)] = outcome]
    BY <1>3 DEF EndPurge
  <2> QED
    BY <1>3, <2>1
<1>7. RowOK' /\ DecisionReceipted'
  BY <1>3, <1>4 DEF ClosureInv, RowOK, DecisionReceipted
<1>8. PurgeTracked'
  BY <1>4, <1>6 DEF PurgeTracked
<1>9. \A d \in Closes : pc'[d] \notin Purging
  BY <1>1, <1>5 DEF ClosureInv, OnePurger, Requests, Purging
<1>10. OnePurger'
  BY <1>9 DEF OnePurger
<1>11. \A r \in Reviews : ReviewOK(r)'
  BY <1>1, <1>4, <1>5 DEF ClosureInv, ReviewOK, Requests
<1>12. ASSUME NEW d \in Closes PROVE CloseOK(d)'
  <2>1. CASE d = c
    BY <1>5, <2>1 DEF CloseOK, Answers
  <2>2. CASE d # c
    BY <1>4, <1>5, <2>2 DEF ClosureInv, CloseOK, Requests
  <2> QED
    BY <2>1, <2>2
<1> QED
  BY <1>2, <1>7, <1>8, <1>10, <1>11, <1>12 DEF ClosureInv

\* Closes keep the invariant: one close claims the session, and it alone ends it.
LEMMA InvClose ==
  ASSUME ClosureInv, NEW c \in Closes, CloseStep(c)
  PROVE  ClosureInv'
<1>1. TypeOK /\ TypeOK' /\ c \in Requests /\ c \notin Reviews
  BY RequestsAssumption, CloseTyped DEF ClosureInv, Requests
<1>2. CloseOK(c)
  BY DEF ClosureInv
<1> USE DEF verificationVars, receiptVars, purgeVars
<1>3. CASE ReadForClose(c)
  <2>1. /\ \/ pc'[c] = "claiming" /\ seen'[c] = status
              /\ ValidTransition(status, "PENDING_CLEANUP")
           \/ pc'[c] = "refused"
        /\ \A y \in Requests : y # c => pc'[y] = pc[y] /\ seen'[y] = seen[y]
    <3>1. "claiming" \in Places /\ "refused" \in Places
      BY DEF Places, Answers
    <3>2. Select(c, "PENDING_CLEANUP", "claiming", "refused")
      BY <1>3 DEF ReadForClose
    <3> QED
      BY <1>1, <3>1, <3>2, SelectTyped
  <2>2. CloseOK(c)' /\ pc'[c] \notin Purging
    BY <2>1, Edges DEF CloseOK, Answers, Purging
  <2> QED
    BY <1>1, <1>3, <2>1, <2>2, InvLocal DEF ReadForClose
<1>4. CASE ClaimForClose(c)
  <2>1. CASE status = seen[c]
    <3>1. /\ status' = "PENDING_CLEANUP" /\ purge_status' = "IN_PROGRESS"
          /\ purges' = Append(purges, "IN_PROGRESS")
          /\ Goes(c, "quarantine")
          /\ UNCHANGED <<owner, attempts, verdict, receipts, receipt_id, decided, traces,
                         seen, choice>>
      BY <1>4, <2>1 DEF ClaimForClose
    <3>2. pc'[c] = "quarantine" /\ \A y \in Requests : y # c => pc'[y] = pc[y]
      BY <1>1, <3>1, GoesTyped DEF Places, Purging
    <3>3. status \in HUMAN_FINAL_STATES
      BY <1>2, <1>4, <2>1 DEF ClaimForClose, CloseOK
    <3>4. decided # "NULL" /\ owner = NoExecutor
      BY <3>3, FinalStates DEF ClosureInv, RowOK
    <3>5. purge_status = "NULL" /\ purges = <<>>
      BY <1>1, <3>3, FinalStates DEF ClosureInv, PurgeTracked, TypeOK
    <3>6. RowOK' /\ DecisionReceipted'
      BY <3>1, <3>4 DEF ClosureInv, RowOK, DecisionReceipted
    <3>7. PurgeTracked'
      <4>1. purges' = <<"IN_PROGRESS">>
        BY <3>1, <3>5
      <4> QED
        BY <3>1, <4>1 DEF PurgeTracked
    <3>8. \A d \in Closes : pc[d] \notin Purging
      BY <3>3, FinalStates DEF ClosureInv, OnePurger
    <3>9. OnePurger'
      BY <3>1, <3>2, <3>8 DEF OnePurger, Requests
    <3>10. \A r \in Reviews : ReviewOK(r)'
      BY <1>1, <3>1, <3>2 DEF ClosureInv, ReviewOK, Requests
    <3>11. ASSUME NEW d \in Closes PROVE CloseOK(d)'
      <4>1. CASE d = c
        BY <3>2, <4>1 DEF CloseOK, Purging
      <4>2. CASE d # c
        BY <3>1, <3>2, <4>2 DEF ClosureInv, CloseOK, Requests
      <4> QED
        BY <4>1, <4>2
    <3> QED
      BY <1>1, <3>6, <3>7, <3>9, <3>10, <3>11 DEF ClosureInv
  <2>2. CASE status # seen[c]
    <3>1. Goes(c, "refused") /\ UNCHANGED <<status, owner, attempts, verdict, receipts,
                       receipt_id, decided, traces, purge_status, purges, seen, choice>>
      BY <1>4, <2>2 DEF ClaimForClose
    <3>2. pc'[c] = "refused" /\ \A y \in Requests : y # c => pc'[y] = pc[y]
      BY <1>1, <3>1, GoesTyped DEF Places, Answers
    <3>3. CloseOK(c)' /\ pc'[c] \notin Purging
      BY <3>2 DEF CloseOK, Answers, Purging
    <3> QED
      BY <1>1, <3>1, <3>2, <3>3, InvLocal
  <2> QED
    BY <2>1, <2>2
<1>5. CASE DeleteFile(c)
  <2>1. pc[c] \in Files /\ pc[c] \in Purging
    BY <1>5 DEF DeleteFile, Files, Purging
  <2>2. NextDeletion(pc[c]) \in {"sidecar", "file", "finishing"}
    BY <2>1 DEF NextDeletion, Files
  <2>3. pc'[c] \in {"sidecar", "file", "finishing"} /\ \A y \in Requests : y # c => pc'[y] = pc[y]
    <3>1. NextDeletion(pc[c]) \in Places /\ Goes(c, NextDeletion(pc[c]))
      BY <1>5, <2>2 DEF DeleteFile, Places, Purging
    <3> QED
      BY <1>1, <2>2, <3>1, GoesTyped
  <2>4. UNCHANGED <<status, owner, attempts, verdict, receipts, receipt_id, decided,
                    purge_status, purges, seen, choice>>
    BY <1>5 DEF DeleteFile
  <2>5. RowOK' /\ DecisionReceipted' /\ PurgeTracked'
    BY <2>1, <2>4, InCleanup DEF ClosureInv, RowOK, DecisionReceipted, PurgeTracked
  <2>6. OnePurger'
    BY <2>1, <2>3, <2>4 DEF ClosureInv, OnePurger, Requests
  <2>7. \A r \in Reviews : ReviewOK(r)'
    BY <1>1, <2>3, <2>4 DEF ClosureInv, ReviewOK, Requests
  <2>8. ASSUME NEW d \in Closes PROVE CloseOK(d)'
    <3>1. CASE d = c
      BY <2>3, <3>1 DEF CloseOK, Purging
    <3>2. CASE d # c
      BY <2>3, <2>4, <3>2 DEF ClosureInv, CloseOK, Requests
    <3> QED
      BY <3>1, <3>2
  <2> QED
    BY <1>1, <2>5, <2>6, <2>7, <2>8 DEF ClosureInv
<1>6. CASE PurgeRaises(c)
  <2>1. pc'[c] = "failing" /\ \A y \in Requests : y # c => pc'[y] = pc[y]
    BY <1>1, <1>6, GoesTyped DEF PurgeRaises, Places, Purging
  <2>2. CloseOK(c)' /\ pc[c] \in Purging
    BY <1>6, <2>1 DEF PurgeRaises, CloseOK, Purging, Files
  <2> QED
    BY <1>1, <1>6, <2>1, <2>2, InvLocal DEF PurgeRaises
<1>7. CASE ReadForFinish(c)
  <2>1. /\ \/ pc'[c] = "completing" /\ seen'[c] = status
              /\ ValidTransition(status, "PURGE_COMPLETE")
           \/ pc'[c] = "failing"
        /\ \A y \in Requests : y # c => pc'[y] = pc[y] /\ seen'[y] = seen[y]
    <3>1. Select(c, "PURGE_COMPLETE", "completing", "failing")
      BY <1>7 DEF ReadForFinish
    <3>2. "completing" \in Places /\ "failing" \in Places
      BY NamedPlaces
    <3>3. /\ pc' \in [Requests -> Places]
           /\ seen' \in [Requests -> SessionState]
           /\ \/ pc'[c] = "completing" /\ seen'[c] = status /\ ValidTransition(status, "PURGE_COMPLETE")
              \/ pc'[c] = "failing"
           /\ \A y \in Requests : y # c => pc'[y] = pc[y] /\ seen'[y] = seen[y]
      BY <1>1, <3>1, <3>2, SelectTyped
    <3> QED
      BY <3>3
  <2>2. CloseOK(c)' /\ pc[c] \in Purging
    BY <1>7, <2>1, Edges DEF ReadForFinish, CloseOK, Purging
  <2> QED
    BY <1>1, <1>7, <2>1, <2>2, InvLocal DEF ReadForFinish
<1>8. CASE FinishPurge(c)
  BY <1>8, FinishesAsSeen, InvEndPurge
<1>9. CASE ReadForFailedPurge(c)
  <2>1. /\ \/ pc'[c] = "recording" /\ seen'[c] = status
           \/ pc'[c] = "refused"
        /\ \A y \in Requests : y # c => pc'[y] = pc[y] /\ seen'[y] = seen[y]
    <3>1. Select(c, "FAILED_PURGED", "recording", "refused")
      BY <1>9 DEF ReadForFailedPurge
    <3>2. "recording" \in Places /\ "refused" \in Places
      BY NamedPlaces
    <3>3. /\ pc' \in [Requests -> Places]
           /\ seen' \in [Requests -> SessionState]
           /\ \/ pc'[c] = "recording" /\ seen'[c] = status /\ ValidTransition(status, "FAILED_PURGED")
              \/ pc'[c] = "refused"
           /\ \A y \in Requests : y # c => pc'[y] = pc[y] /\ seen'[y] = seen[y]
      BY <1>1, <3>1, <3>2, SelectTyped
    <3> QED
      BY <3>3
  <2>2. pc[c] \in Purging
    BY <1>9 DEF ReadForFailedPurge, Purging
  <2>3. CloseOK(c)'
    BY <2>1, <2>2, InCleanup DEF CloseOK, Purging, Answers
  <2> QED
    BY <1>1, <1>9, <2>1, <2>2, <2>3, InvLocal DEF ReadForFailedPurge
<1>10. CASE RecordFailedPurge(c)
  <2>1. pc[c] = "recording" /\ status = seen[c]
    <3>1. pc[c] = "recording" /\ pc[c] \in Purging
      BY <1>10 DEF RecordFailedPurge, Purging
    <3> QED
      BY <1>2, <3>1, InCleanup DEF CloseOK
  <2> QED
    BY <1>10, <2>1, InvEndPurge DEF RecordFailedPurge
<1>11. CASE PurgeLosesDatabase(c)
  <2>1. pc'[c] \in {"error", "failing"} /\ \A y \in Requests : y # c => pc'[y] = pc[y]
    BY <1>1, <1>11, NamedPlaces, GoesTyped DEF PurgeLosesDatabase, Places, Answers
  <2>2. CloseOK(c)' /\ pc[c] \in Purging
    BY <1>11, <2>1 DEF PurgeLosesDatabase, CloseOK, Purging, Answers
  <2> QED
    BY <1>1, <1>11, <2>1, <2>2, InvLocal DEF PurgeLosesDatabase
<1> QED
  BY <1>3, <1>4, <1>5, <1>6, <1>7, <1>8, <1>9, <1>10, <1>11 DEF CloseStep

LEMMA InvStep == ClosureInv /\ [Next]_vars => ClosureInv'
<1> SUFFICES ASSUME ClosureInv, [Next]_vars PROVE ClosureInv'
  OBVIOUS
<1>1. ASSUME NEW x \in Requests, Fails(x) PROVE ClosureInv'
  <2>1. TypeOK /\ TypeOK'
    BY <1>1, TypeStep DEF ClosureInv, Next
  <2>2. pc'[x] = "error" /\ \A y \in Requests : y # x => pc'[y] = pc[y]
    BY <1>1, <2>1, GoesTyped DEF Fails, Places, Answers
  <2>3. UNCHANGED <<status, owner, attempts, verdict, receipts, receipt_id, decided,
                    traces, purge_status, purges, seen, choice>>
    BY <1>1 DEF Fails, verificationVars, receiptVars, purgeVars
  <2>4. (x \in Reviews => ReviewOK(x)') /\ (x \in Closes => CloseOK(x)') /\ pc'[x] \notin Purging
    BY <2>2 DEF ReviewOK, CloseOK, Answers, Purging
  <2> QED
    BY <2>1, <2>2, <2>3, <2>4, InvLocal
<1>2. CASE UNCHANGED vars
  <2>1. TypeOK'
    BY TypeStep DEF ClosureInv
  <2>2. UNCHANGED <<status, owner, attempts, verdict, receipts, receipt_id, decided,
                    traces, purge_status, purges, pc, seen, choice>>
    BY <1>2 DEF vars, verificationVars, receiptVars, purgeVars, requestVars
  <2> QED
    BY <2>1, <2>2
    DEF ClosureInv, RowOK, DecisionReceipted, OnePurger, PurgeTracked, ReviewOK, CloseOK
<1> QED
  BY <1>1, <1>2, InvVerify, InvBundle, InvReview, InvClose DEF Next

\* The invariant of the module.
THEOREM ClosureInvariant == Spec => []ClosureInv
  BY InvInit, InvStep, PTL DEF Spec

\* The receipt the row names holds the reviewer's decision and the outcome it was
\* taken on (api/routes.py:413, audit/service.py:81).
THEOREM DecisionsReceipted == Spec => []DecisionReceipted
<1>1. ClosureInv => DecisionReceipted
  BY DEF ClosureInv
<1> QED
  BY <1>1, ClosureInvariant, PTL

\* Nothing of a document goes before its review (workflow/runtime.py:113).
THEOREM ReviewsBeforeCleanup == Spec => []ReviewBeforeCleanup
<1>1. ClosureInv => ReviewBeforeCleanup
  BY DEF ClosureInv, RowOK, ReviewBeforeCleanup, DecisionReceipted, TypeOK, FinalState, Decisions
<1> QED
  BY <1>1, ClosureInvariant, PTL

\* One close purges a session, and only while it is in cleanup (workflow/runtime.py:113).
THEOREM PurgersExclude == Spec => []OnePurger
<1>1. ClosureInv => OnePurger
  BY DEF ClosureInv
<1> QED
  BY <1>1, ClosureInvariant, PTL

\* purge_tracking and the row agree (cleanup/controller.py).
THEOREM PurgesTracked == Spec => []PurgeTracked
<1>1. ClosureInv => PurgeTracked
  BY DEF ClosureInv
<1> QED
  BY <1>1, ClosureInvariant, PTL

-----------------------------------------------------------------------------
(* Decisions are final, and statuses follow the table                      *)

\* Neither the concurrent verification nor a repeated or competing review replaces
\* a decision, and every status change is in the table (state_machine.py:46).
THEOREM DecisionsAreFinal == Spec => DecisionIsFinal
<1> DEFINE A == /\ decided # "NULL" => decided' = decided
                /\ status' # status =>
                      \/ ValidTransition(status, status')
                      \/ /\ ValidTransition(status, "PENDING_HUMAN_REVIEW")
                         /\ ValidTransition("PENDING_HUMAN_REVIEW", status')
<1>1. ClosureInv /\ [Next]_vars => [A]_vars
  <2> SUFFICES ASSUME ClosureInv, Next PROVE A
    OBVIOUS
  <2> USE DEF verificationVars, receiptVars, purgeVars
  <2>1. CASE Verify
    <3>1. decided' = decided /\ decided = "NULL"
      BY <2>1, VerificationIdle DEF Verify
    <3>2. status' # status => ValidTransition(status, status')
      <4> USE SameStates DEF ValidTransition, ALLOWED_TRANSITIONS, LEASE_ACQUIRABLE_STATES
      <4>1. CASE Verification!Publish
        BY <4>1 DEF Verification!Publish
      <4>2. CASE Verification!Fail
        BY <4>2 DEF Verification!Fail
      <4>3. CASE Verification!Abandon
        BY <4>3 DEF Verification!Abandon
      <4>4. CASE Verification!Lose
        BY <4>4 DEF Verification!Lose
      <4>5. CASE \E e \in Executors : Verification!Begin(e)
        BY <4>5 DEF Verification!Begin
      <4> QED
        BY <2>1, <4>1, <4>2, <4>3, <4>4, <4>5 DEF Verify
    <3> QED
      BY <3>1, <3>2
  <2>2. CASE CommitBundle
    BY <2>2 DEF CommitBundle
  <2>3. ASSUME NEW r \in Reviews, ReviewStep(r) PROVE A
    <3>1. CASE CommitDecision(r)
      <4>1. CASE status # seen[r]
        BY <3>1, <4>1 DEF CommitDecision
      <4>2. CASE status = seen[r]
        <5>1. status \in Reviewable /\ choice[r] \in Decisions
          BY <3>1, <4>2 DEF CommitDecision, ClosureInv, ReviewOK, TypeOK
        <5>2. decided = "NULL"
          <6> SUFFICES ASSUME decided # "NULL" PROVE FALSE
            OBVIOUS
          <6>1. decided \in Decisions
            BY DEF ClosureInv, TypeOK
          <6> QED
            BY <5>1, <6>1, FinalStates
            DEF ClosureInv, DecisionReceipted, Reviewable, VERIFIED_STATES
        <5>3. status' = FinalState[choice[r]]
          BY <3>1, <4>2 DEF CommitDecision
        <5>4. \/ status = "PENDING_HUMAN_REVIEW"
              \/ ValidTransition(status, "PENDING_HUMAN_REVIEW")
          BY <5>1, Edges DEF Reviewable
        <5>5. ValidTransition("PENDING_HUMAN_REVIEW", status')
          BY <5>1, <5>3, Edges
        <5> QED
          BY <5>2, <5>4, <5>5
      <4> QED
        BY <4>1, <4>2
    <3>2. CASE ReadForReview(r) \/ RepeatDecision(r) \/ SelectForDecision(r)
      BY <3>2 DEF ReadForReview, RepeatDecision, SelectForDecision
    <3> QED
      BY <2>3, <3>1, <3>2 DEF ReviewStep
  <2>4. ASSUME NEW c \in Closes, CloseStep(c) PROVE A
    <3>1. decided' = decided
      BY <2>4
      DEF CloseStep, ReadForClose, ClaimForClose, DeleteFile, PurgeRaises,
          PurgeLosesDatabase, ReadForFinish, FinishPurge, ReadForFailedPurge, RecordFailedPurge, EndPurge
    <3>2. CASE ClaimForClose(c)
      <4>1. status' # status => status \in HUMAN_FINAL_STATES /\ status' = "PENDING_CLEANUP"
        BY <3>2 DEF ClaimForClose, ClosureInv, CloseOK
      <4> QED
        BY <3>1, <4>1, Edges
    <3>3. CASE FinishPurge(c) \/ RecordFailedPurge(c)
      <4>1. status = "PENDING_CLEANUP"
        BY <3>3, InCleanup DEF FinishPurge, RecordFailedPurge, Purging
      <4>2. status' \in {status, "PURGE_COMPLETE", "FAILED_PURGED"}
        BY <3>3 DEF FinishPurge, RecordFailedPurge, EndPurge
      <4> QED
        BY <3>1, <4>1, <4>2, Edges
    <3>4. CASE status' = status
      BY <3>1, <3>4
    <3> QED
      BY <2>4, <3>2, <3>3, <3>4
      DEF CloseStep, ReadForClose, DeleteFile, PurgeRaises, PurgeLosesDatabase, ReadForFinish,
          ReadForFailedPurge
  <2>5. CASE \E x \in Requests : Fails(x)
    BY <2>5 DEF Fails
  <2> QED
    BY <2>1, <2>2, <2>3, <2>4, <2>5 DEF Next
<1> QED
  BY <1>1, ClosureInvariant, PTL DEF Spec, DecisionIsFinal

-----------------------------------------------------------------------------
(* What a completed purge leaves                                           *)

\* When the sidecar can be read, files go in an order that never loses the name of
\* the quarantined original, and completion is reported when all are gone.
LEMMA TracesStep ==
  ASSUME ~SidecarReadFails, ClosureInv, TracesOK, [Next]_vars
  PROVE  TracesOK'
<1> USE DEF verificationVars, receiptVars, purgeVars, requestVars
<1>1. TypeOK
  BY DEF ClosureInv
<1>2. ASSUME traces' \in {traces, traces \cup {"workspace_payload"}},
             \A c \in Closes : pc'[c] \in {"sidecar", "file", "finishing", "completing"} =>
                pc'[c] = pc[c] \/ (pc'[c] = "completing" /\ pc[c] = "finishing"),
             status' = "PURGE_COMPLETE" => status = "PURGE_COMPLETE" /\ traces' = traces
      PROVE  TracesOK'
  BY <1>2 DEF TracesOK, PurgeLeavesNothing
<1>3. CASE Verify \/ CommitBundle
  <2>1. pc' = pc
    BY <1>3 DEF Verify, CommitBundle
  <2>2. traces' \in {traces, traces \cup {"workspace_payload"}}
    BY <1>3 DEF Verify, Published, CommitBundle
  <2>3. status' # "PURGE_COMPLETE"
    <3>1. ClosureInv' /\ decided' = "NULL"
      <4>1. decided' = decided
        BY <1>3 DEF Verify, CommitBundle
      <4> QED
        BY <1>3, <4>1, InvVerify, InvBundle, VerificationIdle
    <3> QED
      BY <3>1 DEF ClosureInv, RowOK
  <2> QED
    BY <1>2, <2>1, <2>2, <2>3
<1>4. ASSUME NEW r \in Reviews, ReviewStep(r) PROVE TracesOK'
  <2>1. traces' = traces
    BY <1>4 DEF ReviewStep, ReadForReview, RepeatDecision, SelectForDecision, CommitDecision
  <2>2. \A c \in Closes : pc'[c] = pc[c]
    <3>1. \E place : pc' = [pc EXCEPT ![r] = place]
      BY <1>4 DEF ReviewStep, ReadForReview, RepeatDecision, SelectForDecision, CommitDecision,
           Select, Goes
    <3> QED
      BY <1>1, <3>1, RequestsAssumption DEF TypeOK, Requests
  <2>3. status' = "PURGE_COMPLETE" => status = "PURGE_COMPLETE"
    <3>1. FinalState[choice[r]] # "PURGE_COMPLETE"
      BY <1>1, FinalStates DEF TypeOK
    <3> QED
      BY <1>4, <3>1
      DEF ReviewStep, ReadForReview, RepeatDecision, SelectForDecision, CommitDecision
  <2> QED
    BY <1>2, <2>1, <2>2, <2>3
<1>5. ASSUME NEW c \in Closes, CloseStep(c) PROVE TracesOK'
  <2>1. c \in Requests
    BY DEF Requests
  <2>2. CASE ReadForClose(c)
    <3>1. pc'[c] \in {"claiming", "refused"} /\ \A y \in Requests : y # c => pc'[y] = pc[y]
      <4>1. Select(c, "PENDING_CLEANUP", "claiming", "refused")
        BY <2>2 DEF ReadForClose
      <4>2. "claiming" \in Places /\ "refused" \in Places
        BY NamedPlaces
      <4>3. /\ pc' \in [Requests -> Places]
             /\ seen' \in [Requests -> SessionState]
             /\ \/ pc'[c] = "claiming" /\ seen'[c] = status /\ ValidTransition(status, "PENDING_CLEANUP")
                \/ pc'[c] = "refused"
             /\ \A y \in Requests : y # c => pc'[y] = pc[y] /\ seen'[y] = seen[y]
        BY <1>1, <2>1, <4>1, <4>2, SelectTyped
      <4> QED
        BY <4>3
    <3> QED
      BY <1>2, <2>2, <3>1 DEF ReadForClose, Requests
  <2>3. CASE ClaimForClose(c)
    <3>1. pc'[c] \in {"quarantine", "refused"} /\ \A y \in Requests : y # c => pc'[y] = pc[y]
      BY <1>1, <2>1, <2>3, GoesTyped DEF ClaimForClose, Places, Answers, Purging
    <3>2. traces' = traces /\ (status' = "PURGE_COMPLETE" => status = "PURGE_COMPLETE")
      BY <2>3 DEF ClaimForClose
    <3> QED
      BY <1>2, <3>1, <3>2 DEF Requests
  <2>4. CASE DeleteFile(c)
    <3>1. pc[c] \in Purging /\ status = "PENDING_CLEANUP" /\ status' = status
      BY <2>4, InCleanup DEF DeleteFile, Files, Purging
    <3>2. \A d \in Closes : d # c => pc[d] \notin Purging
      BY <3>1 DEF ClosureInv, OnePurger
    <3>3. /\ pc'[c] = NextDeletion(pc[c])
          /\ \A y \in Requests : y # c => pc'[y] = pc[y]
      <4>1. NextDeletion(pc[c]) \in Places
        BY <2>4 DEF DeleteFile, NextDeletion, Files, Places, Purging
      <4> QED
        BY <1>1, <2>1, <2>4, <4>1, GoesTyped DEF DeleteFile
    <3>4. \A d \in Closes : d # c =>
             pc'[d] \notin {"sidecar", "file", "finishing", "completing"}
      BY <3>2, <3>3 DEF Requests, Purging
    <3>5. CASE pc[c] = "quarantine"
      <4>1. pc'[c] = "sidecar"
        BY <3>3, <3>5 DEF NextDeletion
      <4>2. traces' = traces \ {"quarantine"}
        BY <2>4, <3>5 DEF DeleteFile, TracesOK
      <4> QED
        BY <3>1, <3>4, <4>1, <4>2 DEF TracesOK, PurgeLeavesNothing
    <3>6. CASE pc[c] = "sidecar"
      <4>1. pc'[c] = "file"
        BY <3>3, <3>6 DEF NextDeletion
      <4>2. traces' = traces \ {"sidecar"} /\ "quarantine" \notin traces
        BY <2>4, <3>6 DEF DeleteFile, TracesOK
      <4> QED
        BY <3>1, <3>4, <4>1, <4>2 DEF TracesOK, PurgeLeavesNothing
    <3>7. CASE pc[c] = "file"
      <4>1. pc'[c] = "finishing"
        BY <3>3, <3>7 DEF NextDeletion
      <4>2. traces' = traces \ {"file"} /\ "quarantine" \notin traces /\ "sidecar" \notin traces
        BY <2>4, <3>7 DEF DeleteFile, TracesOK
      <4> QED
        BY <3>1, <3>4, <4>1, <4>2 DEF TracesOK, PurgeLeavesNothing
    <3> QED
      BY <2>4, <3>5, <3>6, <3>7 DEF DeleteFile, Files
  <2>5. CASE PurgeRaises(c)
    <3>1. pc'[c] = "failing" /\ \A y \in Requests : y # c => pc'[y] = pc[y]
      BY <1>1, <2>1, <2>5, GoesTyped DEF PurgeRaises, Places, Purging
    <3> QED
      BY <1>2, <2>5, <3>1 DEF PurgeRaises, Requests
  <2>6. CASE ReadForFinish(c)
    <3>1. /\ \/ pc'[c] = "completing" /\ seen'[c] = status
                /\ ValidTransition(status, "PURGE_COMPLETE")
             \/ pc'[c] = "failing"
          /\ \A y \in Requests : y # c => pc'[y] = pc[y] /\ seen'[y] = seen[y]
      <4>1. Select(c, "PURGE_COMPLETE", "completing", "failing")
        BY <2>6 DEF ReadForFinish
      <4>2. "completing" \in Places /\ "failing" \in Places
        BY NamedPlaces
      <4>3. /\ pc' \in [Requests -> Places]
             /\ seen' \in [Requests -> SessionState]
             /\ \/ pc'[c] = "completing" /\ seen'[c] = status /\ ValidTransition(status, "PURGE_COMPLETE")
                \/ pc'[c] = "failing"
             /\ \A y \in Requests : y # c => pc'[y] = pc[y] /\ seen'[y] = seen[y]
        BY <1>1, <2>1, <4>1, <4>2, SelectTyped
      <4> QED
        BY <4>3
    <3>2. pc[c] = "finishing"
      BY <2>6 DEF ReadForFinish
    <3> QED
      BY <1>2, <2>6, <3>1, <3>2 DEF ReadForFinish, Requests
  <2>7. ASSUME NEW new, NEW outcome, EndPurge(c, new, outcome)
        PROVE  pc'[c] = "ok" /\ \A y \in Requests : y # c => pc'[y] = pc[y]
    BY <1>1, <2>1, <2>7, GoesTyped DEF EndPurge, Places, Answers
  <2>8. CASE FinishPurge(c)
    <3>1. pc'[c] = "ok" /\ \A d \in Closes : d # c => pc'[d] = pc[d]
      BY <2>7, <2>8, FinishesAsSeen DEF Requests
    <3>2. traces' = traces \ Columns /\ traces \cap Files = {}
      BY <2>8, FinishesAsSeen DEF TracesOK, Files
    <3>3. traces' = {}
      BY <1>1, <3>2 DEF TypeOK
    <3> QED
      BY <3>1, <3>3 DEF TracesOK, PurgeLeavesNothing
  <2>9. CASE ReadForFailedPurge(c)
    <3>1. pc'[c] \in {"recording", "refused"} /\ \A y \in Requests : y # c => pc'[y] = pc[y]
      <4>1. Select(c, "FAILED_PURGED", "recording", "refused")
        BY <2>9 DEF ReadForFailedPurge
      <4>2. "recording" \in Places /\ "refused" \in Places
        BY NamedPlaces
      <4>3. /\ pc' \in [Requests -> Places]
             /\ seen' \in [Requests -> SessionState]
             /\ \/ pc'[c] = "recording" /\ seen'[c] = status /\ ValidTransition(status, "FAILED_PURGED")
                \/ pc'[c] = "refused"
             /\ \A y \in Requests : y # c => pc'[y] = pc[y] /\ seen'[y] = seen[y]
        BY <1>1, <2>1, <4>1, <4>2, SelectTyped
      <4> QED
        BY <4>3
    <3> QED
      BY <1>2, <2>9, <3>1 DEF ReadForFailedPurge, Requests
  <2>10. CASE RecordFailedPurge(c)
    <3>1. pc'[c] \in {"ok", "refused"} /\ \A y \in Requests : y # c => pc'[y] = pc[y]
      BY <1>1, <2>1, <2>7, <2>10, GoesTyped DEF RecordFailedPurge, Places, Answers
    <3>2. traces' = traces /\ (status' = "PURGE_COMPLETE" => status = "PURGE_COMPLETE")
      BY <2>10 DEF RecordFailedPurge, EndPurge
    <3> QED
      BY <1>2, <3>1, <3>2 DEF Requests
  <2>11. CASE PurgeLosesDatabase(c)
    <3>1. pc'[c] \in {"error", "failing"} /\ \A y \in Requests : y # c => pc'[y] = pc[y]
      BY <1>1, <2>1, <2>11, NamedPlaces, GoesTyped DEF PurgeLosesDatabase, Places, Answers
    <3> QED
      BY <1>2, <2>11, <3>1 DEF PurgeLosesDatabase, Requests
  <2> QED
    BY <1>5, <2>2, <2>3, <2>4, <2>5, <2>6, <2>8, <2>9, <2>10, <2>11 DEF CloseStep
<1>6. ASSUME NEW x \in Requests, Fails(x) PROVE TracesOK'
  <2>1. pc'[x] = "error" /\ \A y \in Requests : y # x => pc'[y] = pc[y]
    BY <1>1, <1>6, GoesTyped DEF Fails, Places, Answers
  <2> QED
    BY <1>2, <1>6, <2>1 DEF Fails, Requests
<1>7. CASE UNCHANGED vars
  BY <1>2, <1>7 DEF vars
<1> QED
  BY <1>3, <1>4, <1>5, <1>6, <1>7 DEF Next

LEMMA TracesInvariant ==
  ASSUME ~SidecarReadFails
  PROVE  Spec => [](ClosureInv /\ TracesOK)
<1>1. Init => TracesOK
  <2> SUFFICES ASSUME Init PROVE TracesOK
    OBVIOUS
  <2>1. \A c \in Closes : pc[c] = "idle"
    BY DEF Init, Requests
  <2>2. status # "PURGE_COMPLETE"
    BY SameStates DEF Init, Verification!Init, VERIFIED_STATES
  <2>3. "quarantine" \in traces => "sidecar" \in traces
    BY DEF Init, Files
  <2> QED
    BY <2>1, <2>2, <2>3 DEF TracesOK, PurgeLeavesNothing
<1>2. ClosureInv /\ TracesOK /\ [Next]_vars => (ClosureInv /\ TracesOK)'
  BY InvStep, TracesStep
<1> QED
  BY <1>1, <1>2, InvInit, PTL DEF Spec

\* When the sidecar can be read, a completed purge has left no file and no sensitive
\* column (workflow/runtime.py:134).
THEOREM PurgesLeaveNothing ==
  ASSUME ~SidecarReadFails
  PROVE  Spec => []PurgeLeavesNothing
<1>1. TracesOK => PurgeLeavesNothing
  BY DEF TracesOK
<1> QED
  BY <1>1, TracesInvariant, PTL

-----------------------------------------------------------------------------
(* Refinement                                                              *)

\* A step that leaves the phase, the decision and the traces alone stutters.
LEMMA Stutters ==
  ASSUME UNCHANGED <<status, decided, traces>>
  PROVE  UNCHANGED Retention!vars
  BY DEF Retention!vars, retentionPhase

LEMMA RetentionStep ==
  ASSUME ClosureInv, TracesOK, [Next]_vars
  PROVE  [Retention!Next]_(Retention!vars)
<1> USE DEF verificationVars, receiptVars, purgeVars, requestVars
<1>1. CASE Verify \/ CommitBundle
  <2>1. decided = "NULL" /\ decided' = "NULL"
    BY <1>1, VerificationIdle DEF Verify, CommitBundle
  <2>2. traces' \in {traces, traces \cup {"workspace_payload"}}
    BY <1>1 DEF Verify, Published, CommitBundle
  <2>3. \E found \in SUBSET Columns : traces' = traces \cup found
    <3>1. {} \in SUBSET Columns /\ {"workspace_payload"} \in SUBSET Columns
      BY DEF Columns
    <3> QED
      BY <2>2, <3>1
  <2>4. Retention!Collect
    BY <2>1, <2>3 DEF Retention!Collect, retentionPhase
  <2> QED
    BY <2>4 DEF Retention!Next
<1>2. ASSUME NEW r \in Reviews, ReviewStep(r)
      PROVE  [Retention!Next]_(Retention!vars)
  <2>1. CASE CommitDecision(r) /\ status = seen[r]
    <3>1. status \in Reviewable /\ choice[r] \in Decisions
      BY <2>1 DEF CommitDecision, ClosureInv, ReviewOK, TypeOK
    <3>2. decided = "NULL"
      <4> SUFFICES ASSUME decided # "NULL" PROVE FALSE
        OBVIOUS
      <4>1. decided \in Decisions
        BY DEF ClosureInv, TypeOK
      <4> QED
        BY <3>1, <4>1, FinalStates
        DEF ClosureInv, DecisionReceipted, Reviewable, VERIFIED_STATES
    <3>3. decided' = choice[r] /\ status' = FinalState[choice[r]] /\ traces' = traces
      BY <2>1 DEF CommitDecision
    <3>4. choice[r] # "NULL"
      BY <3>1 DEF Decisions
    <3>5. status' \notin {"PENDING_CLEANUP", "PURGE_COMPLETE", "FAILED_PURGED"}
      BY <3>1, <3>3, FinalStates
    <3>6. Retention!Decide(choice[r])
      BY <3>2, <3>3, <3>4, <3>5 DEF Retention!Decide, retentionPhase
    <3> QED
      BY <3>1, <3>6 DEF Retention!Next
  <2>2. CASE ~(CommitDecision(r) /\ status = seen[r])
    BY <1>2, <2>2, Stutters
    DEF ReviewStep, ReadForReview, RepeatDecision, SelectForDecision, CommitDecision
  <2> QED
    BY <2>1, <2>2
<1>3. ASSUME NEW c \in Closes, CloseStep(c)
      PROVE  [Retention!Next]_(Retention!vars)
  <2>1. decided' = decided
    BY <1>3
    DEF CloseStep, ReadForClose, ClaimForClose, DeleteFile, PurgeRaises, PurgeLosesDatabase,
        ReadForFinish, FinishPurge, ReadForFailedPurge, RecordFailedPurge, EndPurge
  <2>2. CASE ClaimForClose(c) /\ status = seen[c]
    <3>1. status \in HUMAN_FINAL_STATES
      BY <2>2 DEF ClaimForClose, ClosureInv, CloseOK
    <3>2. decided # "NULL"
      BY <3>1 DEF ClosureInv, RowOK
    <3>3. retentionPhase = "decided"
      BY <3>1, <3>2, FinalStates DEF retentionPhase
    <3>4. status' = "PENDING_CLEANUP" /\ traces' = traces
      BY <2>2 DEF ClaimForClose
    <3>5. Retention!StartPurge
      BY <2>1, <3>2, <3>3, <3>4 DEF Retention!StartPurge, retentionPhase
    <3> QED
      BY <3>5 DEF Retention!Next
  <2>3. ASSUME pc[c] \in Purging
        PROVE  status = "PENDING_CLEANUP" /\ decided # "NULL" /\ retentionPhase = "purging"
    BY <2>3, InCleanup DEF retentionPhase
  <2>4. CASE DeleteFile(c)
    <3>1. pc[c] \in Files /\ pc[c] \in Purging /\ status' = status
      BY <2>4 DEF DeleteFile, Files, Purging
    <3>2. \E gone \in SUBSET Files : traces' = traces \ gone
      <4>1. {} \in SUBSET Files /\ {pc[c]} \in SUBSET Files
        BY <3>1
      <4>2. traces' = traces \ {} \/ traces' = traces \ {pc[c]}
        BY <2>4 DEF DeleteFile
      <4> QED
        BY <4>1, <4>2
    <3>3. retentionPhase' = retentionPhase
      BY <2>1, <3>1 DEF retentionPhase
    <3>4. Retention!Erase
      BY <2>1, <2>3, <3>1, <3>2, <3>3 DEF Retention!Erase
    <3> QED
      BY <3>4 DEF Retention!Next
  <2>5. CASE FinishPurge(c)
    <3>1. pc[c] \in Purging /\ status' = "PURGE_COMPLETE" /\ traces' = traces \ Columns
      BY <2>5, FinishesAsSeen DEF EndPurge, Purging
    <3>2. traces \cap Files = {}
      BY <2>5, FinishesAsSeen DEF TracesOK, Files
    <3>3. traces' = {}
      BY <3>1, <3>2 DEF ClosureInv, TypeOK
    <3>4. Retention!Complete
      BY <2>1, <2>3, <3>1, <3>2, <3>3 DEF Retention!Complete, retentionPhase
    <3> QED
      BY <3>4 DEF Retention!Next
  <2>6. CASE RecordFailedPurge(c) /\ status = seen[c]
    <3>1. pc[c] \in Purging /\ status' = "FAILED_PURGED" /\ traces' = traces
      BY <2>6 DEF RecordFailedPurge, EndPurge, Purging
    <3>2. Retention!GiveUp
      BY <2>1, <2>3, <3>1 DEF Retention!GiveUp, retentionPhase
    <3> QED
      BY <3>2 DEF Retention!Next
  <2>7. CASE \/ ReadForClose(c) \/ PurgeRaises(c) \/ PurgeLosesDatabase(c)
             \/ ReadForFinish(c) \/ ReadForFailedPurge(c)
             \/ ClaimForClose(c) /\ status # seen[c]
             \/ RecordFailedPurge(c) /\ status # seen[c]
    BY <2>7, Stutters
    DEF ReadForClose, PurgeRaises, PurgeLosesDatabase, ReadForFinish, ReadForFailedPurge,
        ClaimForClose, RecordFailedPurge
  <2> QED
    BY <1>3, <2>2, <2>4, <2>5, <2>6, <2>7 DEF CloseStep
<1>4. ASSUME NEW x \in Requests, Fails(x) PROVE UNCHANGED Retention!vars
  BY <1>4, Stutters DEF Fails
<1>5. CASE UNCHANGED vars
  BY <1>5, Stutters DEF vars
<1> QED
  BY <1>1, <1>2, <1>3, <1>4, <1>5 DEF Next

\* Reviews, closes and the verification together keep what DocumentRetention promises
\* of a document (workflow/runtime.py:113, api/routes.py:413), when the sidecar can
\* be read.
THEOREM ReviewImplementsRetention ==
  ASSUME ~SidecarReadFails
  PROVE  Spec => ImplementsRetention
<1>1. Init => Retention!Init
  BY DEF Init, Retention!Init, retentionPhase, Files, Columns
<1>2. ClosureInv /\ TracesOK /\ [Next]_vars => [Retention!Next]_(Retention!vars)
  BY RetentionStep
<1> QED
  BY <1>1, <1>2, TracesInvariant, PTL DEF Spec, ImplementsRetention, Retention!Spec

\* A step is one of the verification, a decision on its last verdict, a step of the
\* closing, or leaves the verification alone.
LEMMA OwnershipStep ==
  ASSUME ClosureInv, [Next]_vars
  PROVE  [Verification!Next]_(Verification!vars)
<1> USE DEF verificationVars, receiptVars, purgeVars, requestVars
<1>0. owner # NoExecutor => status \in {"VERIFYING", "ABANDONED_VERIFYING"}
  BY DEF ClosureInv, RowOK
<1>1. CASE Verify
  BY <1>1 DEF Verify, Verification!Next
<1>2. ASSUME NEW r \in Reviews, ReviewStep(r)
      PROVE  [Verification!Next]_(Verification!vars)
  <2>1. CASE CommitDecision(r) /\ status = seen[r]
    <3>1. status \in Reviewable /\ verdict # 0 /\ choice[r] \in Decisions
      BY <2>1 DEF CommitDecision, ClosureInv, ReviewOK, TypeOK
    <3>2. owner = NoExecutor /\ verdict = attempts
      BY <1>0, <3>1 DEF ClosureInv, RowOK, Reviewable, VERIFIED_STATES
    <3>3. status' \in HUMAN_FINAL_STATES /\ UNCHANGED <<owner, attempts, verdict>>
      BY <2>1, <3>1, FinalStates DEF CommitDecision
    <3> QED
      BY <3>1, <3>2, <3>3, SameStates DEF Verification!Decide, Verification!Next
  <2>2. CASE CommitDecision(r) /\ status # seen[r]
    BY <2>2 DEF CommitDecision, Verification!vars
  <2>3. CASE ReadForReview(r) \/ RepeatDecision(r) \/ SelectForDecision(r)
    BY <2>3 DEF ReadForReview, RepeatDecision, SelectForDecision, Verification!vars
  <2> QED
    BY <1>2, <2>1, <2>2, <2>3 DEF ReviewStep
<1>3. ASSUME NEW c \in Closes, CloseStep(c)
      PROVE  [Verification!Next]_(Verification!vars)
  <2>1. CASE ClaimForClose(c) /\ status = seen[c]
    <3>1. status \in HUMAN_FINAL_STATES /\ status' = "PENDING_CLEANUP"
          /\ UNCHANGED <<owner, attempts, verdict>>
      BY <2>1 DEF ClaimForClose, ClosureInv, CloseOK
    <3>2. owner = NoExecutor
      BY <1>0, <3>1 DEF HUMAN_FINAL_STATES
    <3> QED
      BY <3>1, <3>2, SameStates DEF Verification!Close, Verification!Next
  <2>2. CASE FinishPurge(c) \/ RecordFailedPurge(c)
    <3>1. status = "PENDING_CLEANUP"
      BY <2>2, InCleanup DEF FinishPurge, RecordFailedPurge, Purging
    <3>2. owner = NoExecutor
      BY <1>0, <3>1
    <3>3. /\ status' \in {status, "PURGE_COMPLETE", "FAILED_PURGED"}
          /\ UNCHANGED <<owner, attempts, verdict>>
      BY <2>2 DEF FinishPurge, RecordFailedPurge, EndPurge
    <3> QED
      BY <3>1, <3>2, <3>3 DEF Verification!Close, Verification!Next, Verification!vars
  <2>3. CASE UNCHANGED <<status, owner, attempts, verdict>>
    BY <2>3 DEF Verification!vars
  <2> QED
    BY <1>3, <2>1, <2>2, <2>3
    DEF CloseStep, ReadForClose, ClaimForClose, DeleteFile, PurgeRaises, PurgeLosesDatabase,
        ReadForFinish, ReadForFailedPurge
<1>4. CASE CommitBundle \/ (\E x \in Requests : Fails(x)) \/ UNCHANGED vars
  BY <1>4 DEF CommitBundle, Fails, vars, Verification!vars
<1> QED
  BY <1>1, <1>2, <1>3, <1>4 DEF Next

\* The reviews and closes of the routes (api/routes.py:413, workflow/runtime.py:113)
\* are the Decide and Close of VerificationOwnership, the specification whose other
\* steps VerificationExecution implements: nobody owns a session that is decided or
\* closed, and the decision is on the verdict of the latest attempt.
THEOREM ReviewKeepsOwnership == Spec => KeepsOwnership
<1>1. Init => Verification!Init
  BY DEF Init
<1>2. ClosureInv /\ [Next]_vars => [Verification!Next]_(Verification!vars)
  BY OwnershipStep
<1> QED
  BY <1>1, <1>2, ClosureInvariant, PTL DEF Spec, KeepsOwnership, Verification!Spec

-----------------------------------------------------------------------------
(***************************************************************************)
(* Proofs about WorkspacePage, for any number of visits of the page.  What  *)
(* a visit shows is not inductive by itself: PageInv adds what it is about  *)
(* to show (an answered review that has not arrived, VisitInv) and why the  *)
(* server cannot change its mind (RowInv).                                  *)
(***************************************************************************)

\* The decision, once taken, is the row's status until the session is closed, and
\* whoever serves a run or a close has the row for itself.
RowInv ==
    /\ taken # NoDecision => rowStatus \in {taken} \cup CLOSED_STATES
    /\ \A p \in Visits : call[p]["run"] = "SERVING" => rowStatus = "VERIFYING"
    /\ \A p \in Visits : call[p]["close"] = "SERVING" => rowStatus = "PENDING_CLEANUP"
    /\ \A p, q \in Visits :
          \/ call[p]["run"] = "SERVING" /\ call[q]["run"] = "SERVING"
          \/ call[p]["close"] = "SERVING" /\ call[q]["close"] = "SERVING"
          => p = q

\* What a visit shows, and what it is about to show, is what the server took.
VisitInv(p) ==
    /\ call[p]["review"] \in {"SENT", "OK"} => asked[p] # NoDecision
    /\ call[p]["review"] = "OK" => taken = asked[p]
    /\ page[p].reviewResult # NoDecision => taken = page[p].reviewResult

PageInv ==
    /\ PageTypeOK
    /\ RowInv
    /\ \A p \in Visits : VisitInv(p)

-----------------------------------------------------------------------------
(* The answers of a call, and the page.                                    *)

Answerable == Unanswered \cup Errors \cup Payloads \cup {"OK"}

Visit == [visit : {"NEW", "OPEN", "LEFT"},
          workspace : Payloads \cup {NoWorkspace},
          isWorkspacePending : BOOLEAN,
          isLoading : BOOLEAN,
          reviewResult : HUMAN_FINAL_STATES \cup {NoDecision},
          reviewMessage : {"", "VERIFIED", "SUBMITTED"}]

LEMMA PageTypes ==
  PageTypeOK <=>
    /\ rowStatus \in SessionState
    /\ stored \in BOOLEAN
    /\ taken \in HUMAN_FINAL_STATES \cup {NoDecision}
    /\ page \in [Visits -> Visit]
    /\ call \in [Visits -> [Kinds -> Answerable]]
    /\ asked \in [Visits -> Choices \cup {NoDecision}]
  BY DEF PageTypeOK, Visit, Answerable

\* A reply is the answer of that call, and of no other.
LEMMA Replied ==
  ASSUME NEW p \in Visits, NEW k \in Kinds, NEW answer \in Answerable,
         call \in [Visits -> [Kinds -> Answerable]],
         call' = [call EXCEPT ![p][k] = answer]
  PROVE  /\ call' \in [Visits -> [Kinds -> Answerable]]
         /\ call'[p][k] = answer
         /\ \A q \in Visits, j \in Kinds : q # p \/ j # k => call'[q][j] = call[q][j]
  OBVIOUS

\* An answer to a load changes neither the visit nor what it shows as decided.
LEMMA LoadedVisit ==
  ASSUME NEW s \in Visit, NEW answer
  PROVE  /\ Loaded(s, answer) \in Visit
         /\ Loaded(s, answer).reviewResult = s.reviewResult
         /\ \A m \in {"", "VERIFIED", "SUBMITTED"} :
               /\ [Loaded(s, answer) EXCEPT !.reviewMessage = m] \in Visit
               /\ [Loaded(s, answer) EXCEPT !.reviewMessage = m].reviewResult = s.reviewResult
  <1>1. Loaded(s, answer) \in Visit /\ Loaded(s, answer).reviewResult = s.reviewResult
    BY DEF Loaded, Visit
  <1>2. QED
    BY <1>1 DEF Visit

LEMMA FreshVisits ==
  /\ FreshPage \in Visit /\ FreshPage.reviewResult = NoDecision
  /\ LeftPage \in Visit /\ LeftPage.reviewResult = NoDecision
  BY DEF FreshPage, LeftPage, Visit

\* The page forgets its message when it calls.
LEMMA Silenced ==
  ASSUME NEW p \in Visits, page \in [Visits -> Visit],
         page' = [page EXCEPT ![p].reviewMessage = ""]
  PROVE  page' \in [Visits -> Visit] /\ page'[p].reviewResult = page[p].reviewResult
  <1>1. page[p] \in Visit
    OBVIOUS
  <1>2. page'[p] = [page[p] EXCEPT !.reviewMessage = ""]
    OBVIOUS
  <1>3. page'[p] \in Visit /\ page'[p].reviewResult = page[p].reviewResult
    BY <1>1, <1>2 DEF Visit
  <1>4. QED
    BY <1>3

\* A visit shows what it is given while it is open, and then nothing changes.
LEMMA Shown ==
  ASSUME NEW p \in Visits, NEW s \in Visit, page \in [Visits -> Visit], Show(p, s)
  PROVE  /\ page' \in [Visits -> Visit]
         /\ page'[p] \in {page[p], s}
         /\ \A q \in Visits \ {p} : page'[q] = page[q]
  BY DEF Show

-----------------------------------------------------------------------------
(* The reviewer and the answers                                            *)

LEMMA PageInvInit ==
  ASSUME PageInit
  PROVE  PageInv
<1> USE DEF PageInit
<1>1. PageTypeOK
  BY PageTypes, FreshVisits DEF SessionState, Answerable, Unanswered
<1>2. RowInv
  BY DEF RowInv, Kinds
<1>3. ASSUME NEW p \in Visits PROVE VisitInv(p)
  BY FreshVisits DEF VisitInv, Kinds
<1>4. QED
  BY <1>1, <1>2, <1>3 DEF PageInv

\* A step of one visit that leaves the server alone, and has no call served.
LEMMA VisitStep ==
  ASSUME PageInv, UNCHANGED serverVars,
         NEW p \in Visits,
         page' \in [Visits -> Visit],
         call' \in [Visits -> [Kinds -> Answerable]],
         asked' \in [Visits -> Choices \cup {NoDecision}],
         \A q \in Visits \ {p} : page'[q] = page[q] /\ asked'[q] = asked[q],
         \A q \in Visits, k \in Kinds : call'[q][k] # call[q][k] =>
             /\ q = p
             /\ call'[q][k] # "SERVING",
         VisitInv(p)'
  PROVE  PageInv'
<1> USE DEF serverVars, Kinds
<1>1. PageTypeOK'
  BY PageTypes DEF PageInv, PageTypeOK, Visit, Answerable
<1>2. RowInv'
  BY DEF PageInv, RowInv
<1>3. ASSUME NEW q \in Visits PROVE VisitInv(q)'
  <2>1. CASE q = p
    BY <2>1
  <2>2. CASE q # p
    BY <2>2 DEF PageInv, VisitInv
  <2>3. QED
    BY <2>1, <2>2
<1>4. QED
  BY <1>1, <1>2, <1>3 DEF PageInv

LEMMA ReviewerStep ==
  ASSUME PageInv, NEW p \in Visits, Reviewer(p)
  PROVE  PageInv'
<1> USE DEF Kinds, Send, Idle
<1>0. /\ page \in [Visits -> Visit]
      /\ call \in [Visits -> [Kinds -> Answerable]]
      /\ asked \in [Visits -> Choices \cup {NoDecision}]
      /\ VisitInv(p)
      /\ "SENT" \in Answerable
      /\ NoDecision \notin Choices
  BY PageTypes, ChoicesAssumption DEF PageInv, Answerable, Unanswered, HUMAN_FINAL_STATES, NoDecision
<1>1. CASE Open(p)
  <2>1. page' \in [Visits -> Visit] /\ page'[p].reviewResult = page[p].reviewResult
    BY <1>0, <1>1 DEF Open, Visit
  <2>2. /\ call' \in [Visits -> [Kinds -> Answerable]]
        /\ call'[p]["load"] = "SENT"
        /\ \A q \in Visits, j \in Kinds : q # p \/ j # "load" => call'[q][j] = call[q][j]
    BY <1>0, <1>1, Replied DEF Open
  <2>3. VisitInv(p)'
    BY <1>0, <1>1, <2>1, <2>2 DEF Open, VisitInv, serverVars
  <2>4. QED
    BY <1>0, <1>1, <2>1, <2>2, <2>3, VisitStep DEF Open
<1>2. CASE ClickRun(p)
  <2>0. page' = [page EXCEPT ![p].reviewMessage = ""]
    BY <1>2 DEF ClickRun
  <2>1. page' \in [Visits -> Visit] /\ page'[p].reviewResult = page[p].reviewResult
    BY <1>0, <2>0, Silenced
  <2>2. /\ call' \in [Visits -> [Kinds -> Answerable]]
        /\ call'[p]["run"] = "SENT"
        /\ \A q \in Visits, j \in Kinds : q # p \/ j # "run" => call'[q][j] = call[q][j]
    BY <1>0, <1>2, Replied DEF ClickRun
  <2>3. VisitInv(p)'
    BY <1>0, <1>2, <2>1, <2>2 DEF ClickRun, VisitInv, serverVars
  <2>4. QED
    BY <1>0, <1>2, <2>1, <2>2, <2>3, VisitStep DEF ClickRun
<1>3. CASE ClickReview(p)
  <2>0. page' = [page EXCEPT ![p].reviewMessage = ""]
    BY <1>3 DEF ClickReview
  <2>1. page' \in [Visits -> Visit] /\ page'[p].reviewResult = page[p].reviewResult
    BY <1>0, <2>0, Silenced
  <2>2. PICK d \in Choices : asked' = [asked EXCEPT ![p] = d]
    BY <1>3 DEF ClickReview
  <2>3. /\ call' \in [Visits -> [Kinds -> Answerable]]
        /\ call'[p]["review"] = "SENT"
        /\ \A q \in Visits, j \in Kinds : q # p \/ j # "review" => call'[q][j] = call[q][j]
    BY <1>0, <1>3, Replied DEF ClickReview
  <2>4. VisitInv(p)'
    BY <1>0, <1>3, <2>1, <2>2, <2>3 DEF ClickReview, VisitInv, serverVars
  <2>5. QED
    BY <1>0, <1>3, <2>1, <2>2, <2>3, <2>4, VisitStep DEF ClickReview
<1>4. CASE ClickClose(p)
  <2>1. /\ call' \in [Visits -> [Kinds -> Answerable]]
        /\ call'[p]["close"] = "SENT"
        /\ \A q \in Visits, j \in Kinds : q # p \/ j # "close" => call'[q][j] = call[q][j]
    BY <1>0, <1>4, Replied DEF ClickClose
  <2>2. VisitInv(p)'
    BY <1>0, <1>4, <2>1 DEF ClickClose, VisitInv, serverVars
  <2>3. QED
    BY <1>0, <1>4, <2>1, <2>2, VisitStep DEF ClickClose
<1>5. CASE Leave(p)
  <2>1. page' \in [Visits -> Visit] /\ page'[p].reviewResult = NoDecision
    BY <1>0, <1>5, FreshVisits DEF Leave
  <2>2. VisitInv(p)'
    BY <1>0, <1>5, <2>1 DEF Leave, VisitInv, serverVars
  <2>3. QED
    BY <1>0, <1>5, <2>1, <2>2, VisitStep DEF Leave
<1>6. QED
  BY <1>1, <1>2, <1>3, <1>4, <1>5 DEF Reviewer

LEMMA AnswerStep ==
  ASSUME PageInv, NEW p \in Visits, NEW k \in Kinds, Answer(p, k)
  PROVE  PageInv'
<1> USE DEF Kinds
<1>0. /\ page \in [Visits -> Visit] /\ page[p] \in Visit
      /\ call \in [Visits -> [Kinds -> Answerable]]
      /\ asked \in [Visits -> Choices \cup {NoDecision}]
      /\ asked[p] \in HUMAN_FINAL_STATES \cup {NoDecision}
      /\ VisitInv(p)
      /\ "IDLE" \in Answerable /\ "SENT" \in Answerable
  BY PageTypes, ChoicesAssumption DEF PageInv, Answerable, Unanswered
\* An answer that decides nothing changes one call and keeps the visit's decision.
<1>1. ASSUME NEW s \in Visit, s.reviewResult = page[p].reviewResult, NEW j \in Kinds,
             Show(p, s), Reply(p, j, "IDLE"), UNCHANGED <<serverVars, asked>>
      PROVE  PageInv'
  <2>1. /\ page' \in [Visits -> Visit]
        /\ page'[p].reviewResult = page[p].reviewResult
        /\ \A q \in Visits \ {p} : page'[q] = page[q]
    BY <1>0, <1>1, Shown
  <2>2. /\ call' \in [Visits -> [Kinds -> Answerable]]
        /\ call'[p][j] = "IDLE"
        /\ \A q \in Visits, i \in Kinds : q # p \/ i # j => call'[q][i] = call[q][i]
    BY <1>0, <1>1, Replied DEF Reply
  <2>3. VisitInv(p)'
    BY <1>0, <1>1, <2>1, <2>2 DEF VisitInv, serverVars
  <2>4. QED
    BY <1>0, <1>1, <2>1, <2>2, <2>3, VisitStep
<1>2. CASE AnswerLoad(p)
  BY <1>0, <1>1, <1>2, LoadedVisit DEF AnswerLoad
<1>3. CASE AnswerRun(p)
  <2> DEFINE s == IF call[p]["run"] \in Payloads
                  THEN [Loaded(page[p], call[p]["run"]) EXCEPT !.reviewMessage = "VERIFIED"]
                  ELSE page[p]
  <2>1. s \in Visit /\ s.reviewResult = page[p].reviewResult
    BY <1>0, LoadedVisit
  <2>2. QED
    BY <1>1, <1>3, <2>1 DEF AnswerRun
<1>4. CASE AnswerRefresh(p)
  BY <1>0, <1>1, <1>4, LoadedVisit DEF AnswerRefresh
<1>5. CASE AnswerReview(p) /\ call[p]["review"] = "OK"
  <2> DEFINE s == [page[p] EXCEPT !.reviewResult = asked[p]]
  <2>1. s \in Visit /\ s.reviewResult = asked[p]
    BY <1>0 DEF Visit
  <2>2. /\ page' \in [Visits -> Visit]
        /\ page'[p] \in {page[p], s}
        /\ \A q \in Visits \ {p} : page'[q] = page[q]
    BY <1>0, <1>5, <2>1, Shown DEF AnswerReview
  <2>3. /\ call' \in [Visits -> [Kinds -> Answerable]]
        /\ call'[p]["review"] = "IDLE" /\ call'[p]["refresh"] = "SENT"
        /\ \A q \in Visits, i \in Kinds :
              q # p \/ i \notin {"review", "refresh"} => call'[q][i] = call[q][i]
    BY <1>0, <1>5 DEF AnswerReview
  <2>4. asked' \in [Visits -> Choices \cup {NoDecision}]
        /\ \A q \in Visits \ {p} : asked'[q] = asked[q]
    BY <1>0, <1>5 DEF AnswerReview
  <2>5. VisitInv(p)'
    BY <1>0, <1>5, <2>1, <2>2, <2>3 DEF AnswerReview, VisitInv, serverVars
  <2>6. QED
    BY <1>0, <1>5, <2>2, <2>3, <2>4, <2>5, VisitStep DEF AnswerReview
<1>6. CASE AnswerReview(p) /\ call[p]["review"] # "OK"
  <2>1. /\ call' \in [Visits -> [Kinds -> Answerable]]
        /\ call'[p]["review"] = "IDLE"
        /\ \A q \in Visits, i \in Kinds : q # p \/ i # "review" => call'[q][i] = call[q][i]
    BY <1>0, <1>6, Replied DEF AnswerReview, Reply
  <2>2. asked' \in [Visits -> Choices \cup {NoDecision}]
        /\ \A q \in Visits \ {p} : asked'[q] = asked[q]
    BY <1>0, <1>6 DEF AnswerReview
  <2>3. VisitInv(p)'
    BY <1>0, <1>6, <2>1 DEF AnswerReview, VisitInv, serverVars
  <2>4. QED
    BY <1>0, <1>6, <2>1, <2>2, <2>3, VisitStep DEF AnswerReview
<1>7. CASE AnswerClose(p)
  <2> DEFINE s == IF call[p]["close"] = "OK" THEN LeftPage ELSE page[p]
  <2>1. s \in Visit /\ s.reviewResult \in {NoDecision, page[p].reviewResult}
    BY <1>0, FreshVisits
  <2>2. /\ page' \in [Visits -> Visit]
        /\ page'[p].reviewResult \in {NoDecision, page[p].reviewResult}
        /\ \A q \in Visits \ {p} : page'[q] = page[q]
    BY <1>0, <1>7, <2>1, Shown DEF AnswerClose
  <2>3. /\ call' \in [Visits -> [Kinds -> Answerable]]
        /\ call'[p]["close"] = "IDLE"
        /\ \A q \in Visits, i \in Kinds : q # p \/ i # "close" => call'[q][i] = call[q][i]
    BY <1>0, <1>7, Replied DEF AnswerClose, Reply
  <2>4. VisitInv(p)'
    BY <1>0, <1>7, <2>2, <2>3 DEF AnswerClose, VisitInv, serverVars
  <2>5. QED
    BY <1>0, <1>7, <2>2, <2>3, <2>4, VisitStep DEF AnswerClose
<1>8. QED
  BY <1>2, <1>3, <1>4, <1>5, <1>6, <1>7 DEF Answer

-----------------------------------------------------------------------------
(* The server                                                              *)

\* Who serves runs and closes, and what its session's row may be.
RowStates(taken_) ==
    IF taken_ = NoDecision THEN SessionState ELSE {taken_} \cup CLOSED_STATES

\* A step of the server that answers one call and decides nothing.
LEMMA ServerStep ==
  ASSUME PageInv, UNCHANGED <<taken, page, asked>>,
         NEW p \in Visits, NEW k \in Kinds, NEW answer \in Answerable,
         call' = [call EXCEPT ![p][k] = answer],
         rowStatus' \in RowStates(taken), stored' \in BOOLEAN,
         k = "review" => answer \notin {"SENT", "OK"},
         answer = "SERVING" => k \in {"run", "close"},
         \A q \in Visits : call'[q]["run"] = "SERVING" => rowStatus' = "VERIFYING",
         \A q \in Visits : call'[q]["close"] = "SERVING" => rowStatus' = "PENDING_CLEANUP",
         answer = "SERVING" => \A q \in Visits : call[q][k] # "SERVING"
  PROVE  PageInv'
<1> USE DEF Kinds
<1>1. /\ call \in [Visits -> [Kinds -> Answerable]]
      /\ taken \in HUMAN_FINAL_STATES \cup {NoDecision}
      /\ CLOSED_STATES \subseteq SessionState /\ HUMAN_FINAL_STATES \subseteq SessionState
  BY PageTypes DEF PageInv, CLOSED_STATES, SessionState
<1>2. /\ call' \in [Visits -> [Kinds -> Answerable]]
      /\ call'[p][k] = answer
      /\ \A q \in Visits, j \in Kinds : q # p \/ j # k => call'[q][j] = call[q][j]
  BY <1>1, Replied
<1>3. PageTypeOK'
  BY <1>1, <1>2 DEF PageInv, PageTypeOK, RowStates, Answerable
<1>4. RowInv'
  <2>1. taken' # NoDecision => rowStatus' \in {taken'} \cup CLOSED_STATES
    BY DEF RowStates
  <2>2. ASSUME NEW x \in Visits, NEW y \in Visits,
               \/ call'[x]["run"] = "SERVING" /\ call'[y]["run"] = "SERVING"
               \/ call'[x]["close"] = "SERVING" /\ call'[y]["close"] = "SERVING"
        PROVE  x = y
    BY <1>2, <2>2 DEF PageInv, RowInv
  <2>3. QED
    BY <2>1, <2>2 DEF RowInv
<1>5. ASSUME NEW q \in Visits PROVE VisitInv(q)'
  BY <1>2 DEF PageInv, VisitInv
<1>6. QED
  BY <1>3, <1>4, <1>5 DEF PageInv

LEMMA AcceptedReviewStep ==
  ASSUME PageInv, NEW p \in Visits, ServeReview(p), ReviewAccepted(p)
  PROVE  PageInv'
<1> USE DEF Kinds
<1>1. /\ call \in [Visits -> [Kinds -> Answerable]]
      /\ asked[p] \in HUMAN_FINAL_STATES /\ asked[p] # NoDecision
      /\ taken \in HUMAN_FINAL_STATES \cup {NoDecision}
      /\ "OK" \in Answerable
  BY PageTypes, ChoicesAssumption DEF PageInv, Answerable, ServeReview, VisitInv
\* A decision that was taken before is the one that is taken now.
<1>2. /\ rowStatus' = asked[p] /\ taken' = asked[p]
      /\ taken # NoDecision => taken' = taken
      /\ rowStatus \notin {"VERIFYING", "PENDING_CLEANUP"}
  BY <1>1 DEF ServeReview, ReviewAccepted, PageInv, RowInv, HUMAN_FINAL_STATES,
              VERIFIED_STATES, CLOSED_STATES, NoDecision
<1>3. /\ call' \in [Visits -> [Kinds -> Answerable]]
      /\ call'[p]["review"] = "OK"
      /\ \A q \in Visits, j \in Kinds : q # p \/ j # "review" => call'[q][j] = call[q][j]
  BY <1>1, Replied DEF ServeReview, Reply
<1>4. PageTypeOK'
  BY <1>1, <1>2, <1>3 DEF ServeReview, PageInv, PageTypeOK, Answerable, SessionState
<1>5. RowInv'
  BY <1>2, <1>3 DEF PageInv, RowInv
<1>6. ASSUME NEW q \in Visits PROVE VisitInv(q)'
  <2>1. page' = page /\ asked' = asked
    BY DEF ServeReview
  <2>2. CASE q = p
    <3>1. VisitInv(p)
      BY DEF PageInv
    <3>2. QED
      BY <1>1, <1>2, <1>3, <2>1, <2>2, <3>1 DEF VisitInv
  <2>3. CASE q # p
    <3>1. \A j \in Kinds : call'[q][j] = call[q][j]
      BY <1>3, <2>3
    <3>2. VisitInv(q)
      BY DEF PageInv
    <3>3. asked[q] \in HUMAN_FINAL_STATES \cup {NoDecision}
      BY PageTypes, ChoicesAssumption DEF PageInv
    <3>4. QED
      BY <1>2, <2>1, <3>1, <3>2, <3>3 DEF VisitInv
  <2>4. QED
    BY <2>2, <2>3
<1>7. QED
  BY <1>4, <1>5, <1>6 DEF PageInv

LEMMA ServerSteps ==
  ASSUME PageInv, NEW p \in Visits, NEW k \in Kinds, Serve(p, k) \/ Lost(p, k)
  PROVE  PageInv'
<1> USE DEF Kinds, Reply
<1>0. /\ call \in [Visits -> [Kinds -> Answerable]]
      /\ stored \in BOOLEAN /\ rowStatus \in SessionState
      /\ taken \in HUMAN_FINAL_STATES \cup {NoDecision}
      /\ Payloads \cup {"SERVING", "REFUSED", "OK", "NOT_READY"} \subseteq Answerable
  BY PageTypes DEF PageInv, Answerable, Unanswered, Errors
<1>r. RowInv /\ rowStatus \in RowStates(taken)
  BY <1>0 DEF PageInv, RowInv, RowStates
\* The row may move on where no decision has been taken.
<1>u. rowStatus \notin HUMAN_FINAL_STATES \cup CLOSED_STATES => RowStates(taken) = SessionState
  BY <1>0, <1>r DEF RowInv, RowStates
\* An answer after which nobody serves the call: the row is the server's own, or stays.
<1>s. ASSUME NEW j \in Kinds, NEW a \in Answerable, Reply(p, j, a), a # "SERVING",
             j = "review" => a \notin {"SENT", "OK"},
             UNCHANGED <<taken, page, asked>>,
             rowStatus' \in RowStates(taken), stored' \in BOOLEAN,
             \/ rowStatus' = rowStatus
             \/ j \in {"run", "close"} /\ call[p][j] = "SERVING"
      PROVE  PageInv'
  <2>1. /\ call'[p][j] = a
        /\ \A q \in Visits, i \in Kinds : q # p \/ i # j => call'[q][i] = call[q][i]
    BY <1>0, <1>s, Replied
  <2>2. ASSUME NEW q \in Visits, call'[q]["run"] = "SERVING" PROVE rowStatus' = "VERIFYING"
    BY <1>r, <1>s, <2>1, <2>2 DEF RowInv
  <2>3. ASSUME NEW q \in Visits, call'[q]["close"] = "SERVING" PROVE rowStatus' = "PENDING_CLEANUP"
    BY <1>r, <1>s, <2>1, <2>3 DEF RowInv
  <2>4. QED
    BY <1>s, <2>2, <2>3, ServerStep
\* An answer that somebody goes on serving, while nobody serves another.
<1>t. ASSUME NEW j \in {"run", "close"}, Reply(p, j, "SERVING"),
             UNCHANGED <<stored, taken, page, asked>>,
             rowStatus \notin {"VERIFYING", "PENDING_CLEANUP"},
             rowStatus' = IF j = "run" THEN "VERIFYING" ELSE "PENDING_CLEANUP",
             rowStatus' \in RowStates(taken)
      PROVE  PageInv'
  <2>1. /\ call'[p][j] = "SERVING"
        /\ \A q \in Visits, i \in Kinds : q # p \/ i # j => call'[q][i] = call[q][i]
    BY <1>0, <1>t, Replied
  <2>2. \A q \in Visits, i \in {"run", "close"} : call[q][i] # "SERVING"
    BY <1>r, <1>t DEF RowInv
  <2>3. ASSUME NEW q \in Visits, call'[q]["run"] = "SERVING" PROVE rowStatus' = "VERIFYING"
    BY <1>t, <2>1, <2>2, <2>3
  <2>4. ASSUME NEW q \in Visits, call'[q]["close"] = "SERVING" PROVE rowStatus' = "PENDING_CLEANUP"
    BY <1>t, <2>1, <2>2, <2>4
  <2>5. QED
    BY <1>0, <1>t, <2>2, <2>3, <2>4, ServerStep
<1>1. CASE ServeLoad(p, k)
  <2>1. WorkspaceAnswer \in {"REFUSED", "NOT_READY", "PENDING_HUMAN_REVIEW"}
    BY DEF WorkspaceAnswer
  <2>2. QED
    BY <1>0, <1>1, <1>r, <1>s, <2>1 DEF ServeLoad, serverVars, Payloads
<1>2. CASE ServeRun(p)
  <2>1. CASE rowStatus \in LEASE_ACQUIRABLE_STATES /\ rowStatus' = "VERIFYING"
             /\ Reply(p, "run", "SERVING")
    <3>1. /\ rowStatus' \in RowStates(taken)
          /\ rowStatus \notin {"VERIFYING", "PENDING_CLEANUP"}
      BY <1>u, <2>1 DEF LEASE_ACQUIRABLE_STATES, HUMAN_FINAL_STATES, CLOSED_STATES, SessionState
    <3>2. QED
      BY <1>2, <1>t, <2>1, <3>1 DEF ServeRun
  <2>2. CASE rowStatus' = rowStatus /\ \E a \in Payloads \cup {"REFUSED"} : Reply(p, "run", a)
    <3>1. PICK a \in Payloads \cup {"REFUSED"} : Reply(p, "run", a)
      BY <2>2
    <3>2. a # "SERVING"
      BY DEF Payloads, VERIFIED_STATES, HUMAN_FINAL_STATES
    <3>3. QED
      BY <1>0, <1>2, <1>r, <1>s, <2>2, <3>1, <3>2 DEF ServeRun
  <2>3. QED
    BY <1>2, <2>1, <2>2 DEF ServeRun, Payloads
<1>3. CASE FinishRun(p)
  <2>1. rowStatus = "VERIFYING" /\ RowStates(taken) = SessionState
    BY <1>3, <1>u, <1>r DEF FinishRun, RowInv, HUMAN_FINAL_STATES, CLOSED_STATES
  <2>2. PICK a \in {"PENDING_HUMAN_REVIEW", "REFUSED"} : Reply(p, "run", a)
    BY <1>3 DEF FinishRun
  <2>3. rowStatus' \in SessionState /\ stored' \in BOOLEAN
    BY <1>0, <1>3 DEF FinishRun, SessionState
  <2>4. QED
    BY <1>0, <1>3, <1>s, <2>1, <2>2, <2>3 DEF FinishRun, Payloads
<1>4. CASE ServeReview(p)
  <2>1. CASE ReviewAccepted(p)
    BY <1>4, <2>1, AcceptedReviewStep
  <2>2. CASE ~ReviewAccepted(p)
    BY <1>0, <1>4, <1>r, <1>s, <2>2 DEF ServeReview
  <2>3. QED
    BY <2>1, <2>2
<1>5. CASE ServeClose(p)
  <2>1. CASE ValidTransition(rowStatus, "PENDING_CLEANUP")
    <3>1. rowStatus \in HUMAN_FINAL_STATES /\ rowStatus \notin {"VERIFYING", "PENDING_CLEANUP"}
      BY <2>1 DEF ValidTransition, ALLOWED_TRANSITIONS, HUMAN_FINAL_STATES, VERIFIED_STATES,
                  LEASE_ACQUIRABLE_STATES
    <3>2. "PENDING_CLEANUP" \in RowStates(taken)
      BY DEF RowStates, CLOSED_STATES, SessionState
    <3>3. QED
      BY <1>5, <1>t, <2>1, <3>1, <3>2 DEF ServeClose
  <2>2. CASE ~ValidTransition(rowStatus, "PENDING_CLEANUP")
    BY <1>0, <1>5, <1>r, <1>s, <2>2 DEF ServeClose
  <2>3. QED
    BY <2>1, <2>2
<1>6. CASE FinishClose(p)
  <2>1. rowStatus = "PENDING_CLEANUP" /\ rowStatus' \in RowStates(taken) /\ stored' \in BOOLEAN
    BY <1>0, <1>6, <1>r DEF FinishClose, RowInv, RowStates, CLOSED_STATES, SessionState
  <2>2. PICK a \in {"OK", "REFUSED"} : Reply(p, "close", a)
    BY <1>6 DEF FinishClose
  <2>3. QED
    BY <1>0, <1>6, <1>s, <2>1, <2>2 DEF FinishClose
<1>7. CASE Lost(p, k)
  BY <1>0, <1>7, <1>r, <1>s DEF Lost, serverVars
<1>8. QED
  BY <1>1, <1>2, <1>3, <1>4, <1>5, <1>6, <1>7 DEF Serve

LEMMA WorkerStep ==
  ASSUME PageInv, WorkerVerifies
  PROVE  PageInv'
<1>1. rowStatus \notin {"VERIFYING", "PENDING_CLEANUP"} \cup HUMAN_FINAL_STATES \cup CLOSED_STATES
  BY DEF WorkerVerifies, LEASE_ACQUIRABLE_STATES, HUMAN_FINAL_STATES, CLOSED_STATES
<1>2. taken = NoDecision /\ rowStatus' \in SessionState
  BY <1>1, PageTypes DEF WorkerVerifies, PageInv, RowInv, SessionState
<1>3. PageTypeOK'
  BY <1>2 DEF WorkerVerifies, PageInv, PageTypeOK
<1>4. RowInv'
  BY <1>1, <1>2 DEF WorkerVerifies, PageInv, RowInv
<1>5. \A p \in Visits : VisitInv(p)'
  BY DEF WorkerVerifies, PageInv, VisitInv
<1>6. QED
  BY <1>3, <1>4, <1>5 DEF PageInv

LEMMA PageInvStep ==
  ASSUME PageInv, [PageNext]_pageVars
  PROVE  PageInv'
<1>1. CASE WorkerVerifies
  BY <1>1, WorkerStep
<1>2. CASE \E p \in Visits : Reviewer(p)
  BY <1>2, ReviewerStep
<1>3. CASE \E p \in Visits : \E k \in Kinds : Answer(p, k)
  BY <1>3, AnswerStep
<1>4. CASE \E p \in Visits : \E k \in Kinds : Serve(p, k) \/ Lost(p, k)
  BY <1>4, ServerSteps
<1>5. CASE UNCHANGED pageVars
  BY <1>5 DEF pageVars, PageInv, PageTypeOK, RowInv, VisitInv
<1>6. QED
  BY <1>1, <1>2, <1>3, <1>4, <1>5 DEF PageNext

-----------------------------------------------------------------------------

\* Every value the page and the server's row take is one they may take.
THEOREM PageTypeCorrect == PageSpec => []PageTypeOK
<1>1. PageInit => PageInv
  BY PageInvInit
<1>2. PageInv /\ [PageNext]_pageVars => PageInv'
  BY PageInvStep
<1>3. PageInv => PageTypeOK
  BY DEF PageInv
<1>4. QED
  BY <1>1, <1>2, <1>3, PTL DEF PageSpec

\* The decision a page shows as submitted is the one the server took, for any number of
\* visits, whatever is lost or late and whoever decides otherwise.
THEOREM ShownDecisionIsRecorded == PageSpec => []ShownDecisionRecorded
<1>1. PageInit => PageInv
  BY PageInvInit
<1>2. PageInv /\ [PageNext]_pageVars => PageInv'
  BY PageInvStep
<1>3. PageInv => ShownDecisionRecorded
  BY DEF PageInv, VisitInv, ShownDecisionRecorded
<1>4. QED
  BY <1>1, <1>2, <1>3, PTL DEF PageSpec

\* Until a decision is taken no row, answer or page is in a state after one, and a
\* workspace in such a state is the only one that can be closed.
Undecided ==
    taken = NoDecision =>
        /\ rowStatus \notin HUMAN_FINAL_STATES
        /\ \A p \in Visits :
              /\ page[p].workspace \notin HUMAN_FINAL_STATES
              /\ \A k \in Kinds : call[p][k] \notin HUMAN_FINAL_STATES

\* The reviewer's steps and the answers show a page only what it has or was answered.
LEMMA WorkspaceShown ==
  ASSUME PageInv, NEW p \in Visits, NEW k \in Kinds, Reviewer(p) \/ Answer(p, k)
  PROVE  \A q \in Visits :
            \/ page'[q].workspace \in {page[q].workspace, NoWorkspace}
            \/ q = p /\ \E j \in Kinds : page'[q].workspace = call[p][j]
<1>1. page \in [Visits -> Visit] /\ page[p] \in Visit
  BY PageTypes DEF PageInv
<1>2. ASSUME NEW s, Show(p, s),
             \/ s.workspace \in {page[p].workspace, NoWorkspace}
             \/ \E j \in Kinds : s.workspace = call[p][j]
      PROVE  \A q \in Visits :
                \/ page'[q].workspace \in {page[q].workspace, NoWorkspace}
                \/ q = p /\ \E j \in Kinds : page'[q].workspace = call[p][j]
  BY <1>1, <1>2 DEF Show
<1>3. ASSUME NEW j \in Kinds
      PROVE  LET s == Loaded(page[p], call[p][j])
             IN  /\ s \in Visit
                 /\ s.workspace \in {page[p].workspace, call[p][j]}
                 /\ \A m : [s EXCEPT !.reviewMessage = m].workspace = s.workspace
  <2> DEFINE s == Loaded(page[p], call[p][j])
  <2>1. s \in Visit
    BY <1>1, LoadedVisit
  <2>2. s.workspace \in {page[p].workspace, call[p][j]}
    BY <1>1 DEF Loaded, Visit
  <2>3. \A m : [s EXCEPT !.reviewMessage = m].workspace = s.workspace
    BY <2>1 DEF Visit
  <2>4. QED
    BY <2>1, <2>2, <2>3
<1>4. CASE Reviewer(p)
  <2>1. CASE Open(p)
    BY <1>1, <2>1 DEF Open, Visit
  <2>2. CASE ClickRun(p) \/ ClickReview(p)
    <3>1. page' = [page EXCEPT ![p].reviewMessage = ""]
      BY <2>2 DEF ClickRun, ClickReview
    <3>2. QED
      BY <1>1, <3>1 DEF Visit
  <2>3. CASE ClickClose(p)
    BY <2>3 DEF ClickClose
  <2>4. CASE Leave(p)
    BY <1>1, <2>4 DEF Leave, LeftPage, FreshPage
  <2>5. QED
    BY <1>4, <2>1, <2>2, <2>3, <2>4 DEF Reviewer
<1>5. CASE Answer(p, k)
  <2>1. CASE AnswerLoad(p)
    BY <1>2, <1>3, <2>1 DEF AnswerLoad, Kinds
  <2>2. CASE AnswerRun(p)
    <3>1. CASE call[p]["run"] \in Payloads
      BY <1>2, <1>3, <2>2, <3>1 DEF AnswerRun, Kinds
    <3>2. CASE call[p]["run"] \notin Payloads
      BY <1>2, <2>2, <3>2 DEF AnswerRun
    <3>3. QED
      BY <3>1, <3>2
  <2>3. CASE AnswerReview(p)
    <3>1. [page[p] EXCEPT !.reviewResult = asked[p]].workspace = page[p].workspace
      BY <1>1 DEF Visit
    <3>2. QED
      BY <1>2, <2>3, <3>1 DEF AnswerReview
  <2>4. CASE AnswerRefresh(p)
    BY <1>2, <1>3, <2>4 DEF AnswerRefresh, Kinds
  <2>5. CASE AnswerClose(p)
    <3>1. LeftPage.workspace = NoWorkspace
      BY DEF LeftPage, FreshPage
    <3>2. QED
      BY <1>2, <2>5, <3>1 DEF AnswerClose
  <2>6. QED
    BY <1>5, <2>1, <2>2, <2>3, <2>4, <2>5 DEF Answer
<1>6. QED
  BY <1>4, <1>5

LEMMA UndecidedStep ==
  ASSUME PageInv, Undecided, [PageNext]_pageVars
  PROVE  Undecided'
<1> SUFFICES ASSUME taken' = NoDecision PROVE Undecided'
  BY DEF Undecided
<1> USE DEF serverVars
<1> DEFINE Neutral == Unanswered \cup Errors \cup {"OK", "PENDING_HUMAN_REVIEW"}
<1>0. /\ call \in [Visits -> [Kinds -> Answerable]]
      /\ asked \in [Visits -> Choices \cup {NoDecision}]
      /\ NoDecision \notin HUMAN_FINAL_STATES /\ NoWorkspace \notin HUMAN_FINAL_STATES
      /\ Neutral \cap HUMAN_FINAL_STATES = {}
      /\ Neutral \subseteq Answerable
  BY PageTypes
  DEF PageInv, HUMAN_FINAL_STATES, NoDecision, NoWorkspace, Unanswered, Errors, Answerable,
      Payloads
\* A step that answers with no decision, and leaves the decisions to others.
<1>1. ASSUME NEW p \in Visits, NEW k \in Kinds, NEW a \in Neutral, Reply(p, k, a)
      PROVE  \A q \in Visits, j \in Kinds : call'[q][j] \in Neutral \/ call'[q][j] = call[q][j]
  <2>1. /\ call'[p][k] = a
        /\ \A q \in Visits, j \in Kinds : q # p \/ j # k => call'[q][j] = call[q][j]
    BY <1>0, <1>1, Replied DEF Reply
  <2>2. QED
    BY <2>1
<1>2. ASSUME taken = NoDecision,
             rowStatus' = rowStatus \/ rowStatus' \notin HUMAN_FINAL_STATES,
             \A q \in Visits :
                \/ page'[q].workspace \in {page[q].workspace, NoWorkspace}
                \/ \E p \in Visits, j \in Kinds : page'[q].workspace = call[p][j],
             \A q \in Visits, j \in Kinds :
                call'[q][j] \notin HUMAN_FINAL_STATES \/ call'[q][j] = call[q][j]
      PROVE  Undecided'
  BY <1>0, <1>2 DEF Undecided
<1>3. CASE WorkerVerifies
  BY <1>2, <1>3 DEF WorkerVerifies, HUMAN_FINAL_STATES
<1>4. ASSUME NEW p \in Visits, NEW k \in Kinds, Reviewer(p) \/ Answer(p, k) PROVE Undecided'
  <2>1. taken = NoDecision /\ rowStatus' = rowStatus
    BY <1>4
    DEF Reviewer, Open, ClickRun, ClickReview, ClickClose, Leave,
        Answer, AnswerLoad, AnswerRun, AnswerReview, AnswerRefresh, AnswerClose
  <2>2. \A q \in Visits, j \in Kinds :
           call'[q][j] \notin HUMAN_FINAL_STATES \/ call'[q][j] = call[q][j]
    <3>1. CASE \E j \in Kinds, a \in Neutral : Reply(p, j, a)
      BY <1>0, <1>1, <3>1
    <3>2. CASE call' = call
      BY <3>2
    <3>3. CASE call' = [call EXCEPT ![p]["review"] = "IDLE", ![p]["refresh"] = "SENT"]
      BY <1>0, <3>3 DEF Unanswered, Kinds
    <3>4. QED
      BY <1>4, <3>1, <3>2, <3>3
      DEF Reviewer, Open, ClickRun, ClickReview, ClickClose, Leave, Send, Reply, Kinds,
          Unanswered, Answer, AnswerLoad, AnswerRun, AnswerReview, AnswerRefresh, AnswerClose
  <2>3. QED
    BY <1>2, <1>4, <2>1, <2>2, WorkspaceShown
<1>5. ASSUME NEW p \in Visits, NEW k \in Kinds, Serve(p, k) \/ Lost(p, k) PROVE Undecided'
  <2>1. CASE ServeReview(p)
    <3>1. ~ReviewAccepted(p)
      <4>1. "OK" \in Answerable /\ "review" \in Kinds
        BY <1>0 DEF Kinds
      <4>2. asked[p] # NoDecision
        BY <2>1 DEF ServeReview, PageInv, VisitInv
      <4>3. SUFFICES ASSUME ReviewAccepted(p) PROVE FALSE
        OBVIOUS
      <4>4. taken' \in HUMAN_FINAL_STATES \/ taken' = asked[p]
        BY <2>1, <4>3 DEF ServeReview
      <4>5. QED
        BY <1>0, <4>2, <4>4
    <3>2. taken' = taken /\ rowStatus' = rowStatus /\ page' = page
          /\ Reply(p, "review", "REFUSED")
      BY <2>1, <3>1 DEF ServeReview
    <3>3. QED
      BY <1>0, <1>1, <1>2, <3>2 DEF Kinds, Errors
  <2>2. CASE ~ServeReview(p)
    <3>1. taken' = taken /\ page' = page
      BY <1>5, <2>2
      DEF Serve, ServeLoad, ServeRun, FinishRun, ServeClose, FinishClose, Lost
    <3>2. rowStatus' = rowStatus \/ rowStatus' \notin HUMAN_FINAL_STATES
      BY <1>5, <2>2
      DEF Serve, ServeLoad, ServeRun, FinishRun, ServeClose, FinishClose, Lost,
          HUMAN_FINAL_STATES
    <3>3. rowStatus \notin HUMAN_FINAL_STATES
      BY <3>1 DEF Undecided
    <3>4. rowStatus \in Payloads => rowStatus \notin HUMAN_FINAL_STATES
      BY <3>3
    <3>5. PICK j \in Kinds, a \in Answerable :
             Reply(p, j, a) /\ a \notin HUMAN_FINAL_STATES
      <4>1. CASE ServeLoad(p, k)
        BY <1>0, <4>1 DEF ServeLoad, WorkspaceAnswer, Errors
      <4>2. CASE ServeRun(p)
        <5>1. CASE rowStatus \in Payloads /\ Reply(p, "run",
                      IF stored THEN "PENDING_HUMAN_REVIEW" ELSE rowStatus)
          BY <1>0, <3>3, <5>1 DEF Kinds, Answerable
        <5>2. CASE Reply(p, "run", "SERVING") \/ Reply(p, "run", "REFUSED")
          BY <1>0, <5>2 DEF Kinds, Unanswered, Errors
        <5>3. QED
          BY <4>2, <5>1, <5>2 DEF ServeRun
      <4>3. CASE FinishRun(p)
        BY <1>0, <4>3 DEF FinishRun, Kinds, Errors
      <4>4. CASE ServeClose(p)
        BY <1>0, <4>4 DEF ServeClose, Kinds, Unanswered, Errors
      <4>5. CASE FinishClose(p)
        BY <1>0, <4>5 DEF FinishClose, Kinds, Errors
      <4>6. CASE Lost(p, k)
        BY <1>0, <4>6 DEF Lost, Errors
      <4>7. QED
        BY <1>5, <2>2, <4>1, <4>2, <4>3, <4>4, <4>5, <4>6 DEF Serve
    <3>6. /\ call'[p][j] = a
          /\ \A q \in Visits, i \in Kinds : q # p \/ i # j => call'[q][i] = call[q][i]
      BY <1>0, <3>5, Replied DEF Reply
    <3>7. \A q \in Visits, i \in Kinds :
             call'[q][i] \notin HUMAN_FINAL_STATES \/ call'[q][i] = call[q][i]
      BY <3>5, <3>6
    <3>8. QED
      BY <1>2, <3>1, <3>2, <3>7
  <2>3. QED
    BY <2>1, <2>2
<1>6. CASE UNCHANGED pageVars
  BY <1>6 DEF pageVars, Undecided
<1>7. QED
  BY <1>3, <1>4, <1>5, <1>6 DEF PageNext, Kinds

\* A page offers to close, and calls the review complete, only when the row's decision
\* has been taken, for any number of visits, whatever is lost or late.
THEOREM CloseIsOfferedWhenDecided == PageSpec => []CloseOfferedWhenDecided
<1>1. PageInit => PageInv /\ Undecided
  <2>1. PageInit => Undecided
    <3> SUFFICES ASSUME PageInit PROVE Undecided
      OBVIOUS
    <3>1. rowStatus \notin HUMAN_FINAL_STATES
      BY DEF PageInit, HUMAN_FINAL_STATES
    <3>2. ASSUME NEW p \in Visits
          PROVE  /\ page[p].workspace = NoWorkspace
                 /\ \A k \in Kinds : call[p][k] = "IDLE"
      BY DEF PageInit, FreshPage
    <3>3. NoWorkspace \notin HUMAN_FINAL_STATES /\ "IDLE" \notin HUMAN_FINAL_STATES
      BY DEF NoWorkspace, HUMAN_FINAL_STATES
    <3>4. QED
      BY <3>1, <3>2, <3>3 DEF Undecided
  <2>2. QED
    BY <2>1, PageInvInit
<1>2. PageInv /\ Undecided /\ [PageNext]_pageVars => (PageInv /\ Undecided)'
  BY PageInvStep, UndecidedStep
<1>3. PageInv /\ Undecided => CloseOfferedWhenDecided
  <2> SUFFICES ASSUME PageInv, Undecided, NEW p \in Visits, canCloseSession(p)
               PROVE  rowStatus \in HUMAN_FINAL_STATES \cup CLOSED_STATES /\ taken # NoDecision
    BY DEF CloseOfferedWhenDecided
  <2>1. page[p].workspace \in Payloads
    BY PageTypes DEF PageInv, Visit, canCloseSession
  <2>2. page[p].workspace \in HUMAN_FINAL_STATES
    BY <2>1 DEF canCloseSession, can_close, Payloads, VERIFIED_STATES
  <2>3. taken # NoDecision
    BY <2>2 DEF Undecided
  <2>4. QED
    BY <2>3, PageTypes DEF PageInv, RowInv
<1>4. QED
  BY <1>1, <1>2, <1>3, PTL DEF PageSpec

=============================================================================
