-------------------------- MODULE TrustVerdictProofs --------------------------
(***************************************************************************)
(* Proofs about TrustVerdict, for any claims, plans, candidates and levels  *)
(* of confidence: its type invariant, that a GREEN document is backed, that  *)
(* the worker lets no contradiction pass, that a RED document has a cause,   *)
(* and that the worker's verdict does not depend on the order of the plan.   *)
(*                                                                          *)
(* The inductive invariant TrustInv says what an audit status stands for,    *)
(* and what a verdict was computed from.  The rest is about the maximum that *)
(* _best_result_for_claim() takes: that there is one, that it is one of the  *)
(* results that count, and that no result of higher priority is passed over. *)
(***************************************************************************)
EXTENDS TrustVerdict, WellFoundedInduction, TLAPS

-----------------------------------------------------------------------------
(* The inductive invariant                                                 *)

\* An audit status says what the provider answered.
ResultsOK ==
    \A i \in DOMAIN results :
        /\ results[i].audit_status = "MISMATCH" <=> results[i].mismatched_fields
        /\ results[i].audit_status = "VERIFIED" =>
              results[i].matched_fields /\ ~results[i].mismatched_fields

FusedOK ==
    /\ pc = "fused" => entry = "run" /\ (~unsafe => decisions = Findings)
    /\ pc \notin {"fused", "decided"} => verdict = "none"

VerdictOK ==
    verdict # "none" =>
        \/ unsafe /\ verdict = "RED"
        \/ entry = "worker" /\ results = <<>> /\ verdict \in {"AMBER", "RED"}
        \/ verdict = Outcome(Findings)

TrustInv ==
    /\ TypeOK
    /\ DOMAIN claims # {}
    /\ pc \in {"direct", "trying"} => TasksLeft
    /\ ResultsOK
    /\ FusedOK
    /\ VerdictOK

-----------------------------------------------------------------------------
(* The best result                                                         *)

\* A set of natural numbers that is not empty has a least element.
LEMMA LeastElement ==
  ASSUME NEW S \in SUBSET Nat, S # {}
  PROVE  \E n \in S : \A m \in S : n <= m
<1>1. PICK n \in S : \A m \in S : <<m, n>> \notin OpToRel(<, Nat)
  BY NatLessThanWellFounded, WFMin, Zenon
<1>2. \A m \in S : ~(m < n)
  BY <1>1 DEF OpToRel
<1> QED
  BY <1>2

LEMMA ResultsCount ==
  ASSUME TypeOK, results # <<>>, NEW c
  PROVE  /\ ResultsFor(c) \subseteq 1..Len(results)
         /\ ResultsFor(c) # {}
<1>1. results \in Seq(VerificationTaskResult)
  BY DEF TypeOK
<1>2. /\ DOMAIN results = 1..Len(results)
      /\ Len(results) \in Nat \ {0}
  BY <1>1
<1> QED
  BY <1>2 DEF ResultsFor, Own

LEMMA ResultTyped ==
  ASSUME TypeOK, NEW i \in 1..Len(results)
  PROVE  /\ results[i] \in VerificationTaskResult
         /\ results[i].confidence \in 0..MaxConfidence
         /\ results[i].audit_status \in AuditStatus
         /\ AuditPriority(results[i]) \in 1..4
<1>1. results[i] \in VerificationTaskResult
  BY DEF TypeOK
<1>2. /\ results[i].confidence \in 0..MaxConfidence
      /\ results[i].audit_status \in AuditStatus
  BY <1>1 DEF VerificationTaskResult, Confidence
<1>3. AuditPriority(results[i]) \in 1..4
  BY <1>2 DEF AuditPriority, AuditStatus
<1> QED
  BY <1>1, <1>2, <1>3

\* max() has a result to return: the highest confidence within the highest priority.
LEMMA BestExists ==
  ASSUME TypeOK, results # <<>>, NEW c
  PROVE  Best(c) # {}
<1> DEFINE R == ResultsFor(c)
           P(i) == AuditPriority(results[i])
           C(i) == results[i].confidence
<1>1. R \subseteq 1..Len(results) /\ R # {}
  BY ResultsCount
<1>2. \A i \in R : P(i) \in 1..4 /\ C(i) \in 0..MaxConfidence
  BY <1>1, ResultTyped
<1>3. PICK i \in R : \A j \in R : P(j) <= P(i)
  <2> DEFINE S == {4 - P(i) : i \in R}
  <2>1. S \in SUBSET Nat /\ S # {}
    BY <1>1, <1>2
  <2>2. PICK n \in S : \A m \in S : n <= m
    BY <2>1, LeastElement
  <2>3. PICK i \in R : n = 4 - P(i)
    BY <2>2
  <2>4. \A j \in R : 4 - P(i) <= 4 - P(j)
    BY <2>2, <2>3
  <2> HIDE DEF P
  <2>5. \A j \in R : P(j) <= P(i)
    BY <2>4, <1>2, <2>3
  <2> QED
    BY <2>5
<1> DEFINE T == {j \in R : P(j) = P(i)}
<1>4. PICK k \in T : \A j \in T : C(j) <= C(k)
  <2> DEFINE S == {MaxConfidence - C(j) : j \in T}
  <2>1. S \in SUBSET Nat /\ S # {}
    BY <1>2, TrustAssumption
  <2>2. PICK n \in S : \A m \in S : n <= m
    BY <2>1, LeastElement
  <2>3. PICK k \in T : n = MaxConfidence - C(k)
    BY <2>2
  <2>4. \A j \in T : MaxConfidence - C(k) <= MaxConfidence - C(j)
    BY <2>2, <2>3
  <2>5. \A j \in T : C(j) <= C(k)
    BY <2>4, <1>2, <2>3, TrustAssumption
  <2> QED
    BY <2>5
<1>5. \A j \in R : ~Outranks(results[j], results[k])
  BY <1>2, <1>3, <1>4 DEF Outranks
<1> QED
  BY <1>4, <1>5 DEF Best

\* What the code takes is one of the results max() may return.
LEMMA BestTaken ==
  ASSUME TypeOK, results # <<>>, NEW c
  PROVE  \E i \in Best(c) : BestResult(c) = results[i]
<1>1. Best(c) \subseteq Nat
  BY ResultsCount DEF Best
<1>2. PICK i \in Best(c) : \A j \in Best(c) : i <= j
  BY <1>1, BestExists, LeastElement
<1> QED
  BY <1>2 DEF BestResult

-----------------------------------------------------------------------------
(* Findings                                                                *)

\* A finding on a claim with a value is the colour of a result that counts for it,
\* than which none has a higher priority.
LEMMA FindingTaken ==
  ASSUME TypeOK, results # <<>>, NEW c, ~Missing(c)
  PROVE  \E i \in ResultsFor(c) :
            /\ Finding(c) = ColourOf(results[i])
            /\ \A j \in ResultsFor(c) : ~Outranks(results[j], results[i])
<1>1. PICK i \in Best(c) : BestResult(c) = results[i]
  BY BestTaken
<1>2. Finding(c) = ColourOf(results[i])
  BY <1>1 DEF Finding
<1> QED
  BY <1>1, <1>2 DEF Best

LEMMA FindingColour ==
  ASSUME NEW c
  PROVE  Finding(c) \in Colours
  BY DEF Finding, ColourOf, Colours

LEMMA FindingsTyped ==
  ASSUME TypeOK
  PROVE  /\ Findings \in [DOMAIN claims -> Colours]
         /\ DOMAIN claims \in SUBSET Claims
<1>1. Findings \in [DOMAIN claims -> Colours]
  BY FindingColour DEF Findings
<1> QED
  BY <1>1 DEF TypeOK

LEMMA OutcomeColour ==
  ASSUME NEW found
  PROVE  Outcome(found) \in Colours
  BY DEF Outcome, Worst, Colours

-----------------------------------------------------------------------------
(* Types                                                                   *)

LEMMA TypeStart ==
  ASSUME Init
  PROVE  TypeOK
<1>1. /\ tasks \in Seq(Credentials)
      /\ candidates \in Seq(Providers \cup {ManualReview})
      /\ results \in Seq(VerificationTaskResult)
  BY TrustAssumption DEF Init, UpTo
<1>2. decisions \in UNION {[S -> Colours] : S \in SUBSET Claims}
  <2>1. decisions \in [{} -> Colours]
    BY DEF Init
  <2> QED
    BY <2>1
<1> QED
  BY <1>1, <1>2 DEF Init, TypeOK, Entries, Colours

LEMMA RecordTyped ==
  ASSUME TypeOK, TasksLeft,
         NEW matched \in BOOLEAN, NEW mismatched \in BOOLEAN,
         NEW audit \in AuditStatus, NEW confidence \in Confidence,
         Record(matched, mismatched, audit, confidence)
  PROVE  TypeOK'
<1>1. Task \in Credentials
  BY DEF TypeOK, TasksLeft, Task
<1>2. results' \in Seq(VerificationTaskResult)
  BY <1>1 DEF TypeOK, Record, VerificationTaskResult
<1> QED
  BY <1>2 DEF TypeOK, Record, inputs

-----------------------------------------------------------------------------
(* The steps                                                               *)

\* A result whose audit status says what its evidence is keeps the invariant.
LEMMA RecordKeeps ==
  ASSUME TrustInv, pc \in {"direct", "trying"},
         NEW matched \in BOOLEAN, NEW mismatched \in BOOLEAN,
         NEW audit \in AuditStatus, NEW confidence \in Confidence,
         audit = "MISMATCH" <=> mismatched,
         audit = "VERIFIED" => matched /\ ~mismatched,
         Record(matched, mismatched, audit, confidence)
  PROVE  TrustInv'
<1> DEFINE new == [credential_id |-> Task, matched_fields |-> matched,
                   mismatched_fields |-> mismatched, audit_status |-> audit,
                   confidence |-> confidence]
<1>1. TypeOK'
  BY RecordTyped DEF TrustInv
<1>2. pc' = "next_task"
  BY DEF Record
<1>3. verdict = "none" /\ verdict' = "none"
  BY DEF TrustInv, FusedOK, Record
<1>4. ResultsOK'
  <2>1. results \in Seq(VerificationTaskResult) /\ results' = Append(results, new)
    BY DEF TrustInv, TypeOK, Record
  <2>2. /\ DOMAIN results = 1..Len(results)
        /\ Len(results) \in Nat
        /\ DOMAIN results' = 1..(Len(results) + 1)
    BY <2>1
  <2>3. ASSUME NEW i \in DOMAIN results'
        PROVE  \/ i \in DOMAIN results /\ results'[i] = results[i]
               \/ results'[i] = new
    BY <2>1, <2>2
  <2> QED
    BY <2>3 DEF TrustInv, ResultsOK
<1> QED
  BY <1>1, <1>2, <1>3, <1>4 DEF TrustInv, FusedOK, VerdictOK, Record, inputs

LEMMA ManualReviewKeeps ==
  ASSUME TrustInv, pc \in {"direct", "trying"}, RecordManualReview
  PROVE  TrustInv'
<1>1. PICK confidence \in Confidence : Record(FALSE, FALSE, "MANUAL_REVIEW", confidence)
  BY DEF RecordManualReview
<1> QED
  BY <1>1, RecordKeeps DEF AuditStatus

LEMMA AnswerKeeps ==
  ASSUME TrustInv, pc \in {"direct", "trying"}, VerifierAnswers
  PROVE  TrustInv'
<1>1. PICK confidence \in Confidence :
         \/ \E matched, mismatched, missing, manual \in BOOLEAN :
               Record(matched, mismatched,
                      AuditOf(matched, mismatched, missing, manual), confidence)
         \/ \E audit \in {"PARTIAL", "MANUAL_REVIEW"} :
               Record(FALSE, FALSE, audit, confidence)
  BY DEF VerifierAnswers
<1>2. ASSUME NEW matched \in BOOLEAN, NEW mismatched \in BOOLEAN,
             NEW missing \in BOOLEAN, NEW manual \in BOOLEAN,
             Record(matched, mismatched,
                    AuditOf(matched, mismatched, missing, manual), confidence)
      PROVE  TrustInv'
  <2> DEFINE audit == AuditOf(matched, mismatched, missing, manual)
  <2>1. /\ audit \in AuditStatus
        /\ audit = "MISMATCH" <=> mismatched
        /\ audit = "VERIFIED" => matched /\ ~mismatched
    BY DEF AuditOf, AuditStatus
  <2> QED
    BY <1>2, <2>1, RecordKeeps
<1>3. ASSUME NEW audit \in {"PARTIAL", "MANUAL_REVIEW"},
             Record(FALSE, FALSE, audit, confidence)
      PROVE  TrustInv'
  BY <1>3, RecordKeeps DEF AuditStatus
<1> QED
  BY <1>1, <1>2, <1>3

\* The steps that leave claims and results alone.
LEMMA SameEvidence ==
  ASSUME UNCHANGED <<inputs, results>>
  PROVE  /\ Findings' = Findings
         /\ TasksLeft' = TasksLeft
         /\ ResultsOK' = ResultsOK
  BY DEF inputs, Findings, Finding, Missing, ColourOf, BestResult, Best, ResultsFor, Own,
         Outranks, AuditPriority, TasksLeft, ResultsOK

LEMMA EvaluateKeeps ==
  ASSUME TrustInv, EvaluateTrust
  PROVE  TrustInv'
<1>1. UNCHANGED <<inputs, results>>
  BY DEF EvaluateTrust
<1>2. /\ Findings' = Findings
      /\ ResultsOK'
  BY <1>1, SameEvidence DEF TrustInv
<1>3. pc' = "decided" /\ decisions' = Findings /\ verdict' = Outcome(Findings)
  BY DEF EvaluateTrust
<1>4. TypeOK'
  BY <1>3, FindingsTyped, OutcomeColour DEF EvaluateTrust, TrustInv, TypeOK, inputs
<1>5. VerdictOK'
  BY <1>2, <1>3 DEF VerdictOK, Outcome
<1> QED
  BY <1>1, <1>2, <1>3, <1>4, <1>5 DEF TrustInv, FusedOK, inputs

LEMMA EvaluateWithoutKeeps ==
  ASSUME TrustInv, EvaluateWithoutResults
  PROVE  TrustInv'
<1>1. UNCHANGED <<inputs, results>>
  BY DEF EvaluateWithoutResults
<1>2. ResultsOK'
  BY <1>1, SameEvidence DEF TrustInv
<1>3. PICK decided \in [DOMAIN claims -> {"AMBER", "RED"}] : verdict' = Outcome(decided)
  BY DEF EvaluateWithoutResults
<1>4. /\ pc' = "decided" /\ decisions' = Findings
      /\ entry' = "worker" /\ results' = <<>>
  BY DEF EvaluateWithoutResults, inputs
<1>5. verdict' \in Colours
  BY <1>3, OutcomeColour
<1>6. TypeOK'
  BY <1>4, <1>5, FindingsTyped DEF EvaluateWithoutResults, TrustInv, TypeOK, inputs
<1>7. VerdictOK'
  <2>1. PICK c \in DOMAIN claims : TRUE
    BY DEF TrustInv
  <2>2. /\ DOMAIN decided = DOMAIN claims
        /\ \A d \in DOMAIN claims : decided[d] \in {"AMBER", "RED"}
    BY <1>3
  <2>3. Outcome(decided) \in {"AMBER", "RED"}
    BY <2>1, <2>2 DEF Outcome, Worst
  <2> QED
    BY <1>3, <1>4, <2>3 DEF VerdictOK
<1> QED
  BY <1>1, <1>2, <1>4, <1>6, <1>7 DEF TrustInv, FusedOK, inputs

LEMMA FuseKeeps ==
  ASSUME TrustInv, Fuse
  PROVE  TrustInv'
<1>1. UNCHANGED <<inputs, results>> /\ verdict' = verdict
  BY DEF Fuse
<1>2. Findings' = Findings /\ ResultsOK'
  BY <1>1, SameEvidence DEF TrustInv
<1>3. /\ pc = "next_task" /\ pc' = "fused" /\ entry = "run"
      /\ decisions' = IF unsafe THEN [c \in DOMAIN claims |-> "RED"] ELSE Findings
  BY DEF Fuse, PlanExecuted
<1>4. decisions' \in [DOMAIN claims -> Colours]
  BY <1>3, FindingsTyped DEF TrustInv, Colours
<1>5. TypeOK'
  BY <1>3, <1>4, FindingsTyped DEF Fuse, TrustInv, TypeOK, inputs
<1>6. verdict = "none"
  BY <1>3 DEF TrustInv, FusedOK
<1> QED
  BY <1>1, <1>2, <1>3, <1>5, <1>6 DEF TrustInv, FusedOK, VerdictOK, inputs

LEMMA PolicyKeeps ==
  ASSUME TrustInv, PolicyVerdict
  PROVE  TrustInv'
<1>1. UNCHANGED <<inputs, results, decisions, candidates>>
  BY DEF PolicyVerdict
<1>2. Findings' = Findings /\ ResultsOK'
  BY <1>1, SameEvidence DEF TrustInv
<1>3. /\ pc = "fused" /\ pc' = "decided"
      /\ verdict' = IF unsafe THEN "RED" ELSE Outcome(decisions)
  BY DEF PolicyVerdict
<1>4. verdict' \in Colours
  BY <1>3, OutcomeColour DEF Colours
<1>5. TypeOK'
  BY <1>1, <1>3, <1>4 DEF TrustInv, TypeOK, inputs
<1>6. ~unsafe => decisions = Findings
  BY <1>3 DEF TrustInv, FusedOK
<1>7. VerdictOK'
  BY <1>1, <1>2, <1>3, <1>6 DEF VerdictOK, Outcome, inputs
<1> QED
  BY <1>1, <1>2, <1>3, <1>5, <1>7 DEF TrustInv, FusedOK, inputs

LEMMA StartTaskKeeps ==
  ASSUME TrustInv, StartTask
  PROVE  TrustInv'
<1>1. /\ UNCHANGED <<inputs, results>> /\ TasksLeft
      /\ pc = "next_task" /\ pc' \in {"direct", "trying"}
      /\ candidates' \in UpTo(MaxCandidates, Providers \cup {ManualReview})
  BY DEF StartTask
<1>2. candidates' \in Seq(Providers \cup {ManualReview})
  BY <1>1, TrustAssumption DEF UpTo
<1>3. verdict = "none" /\ verdict' = "none" /\ decisions' = decisions
  BY DEF StartTask, TrustInv, FusedOK
<1>4. TypeOK'
  BY <1>1, <1>2, <1>3 DEF TrustInv, TypeOK, inputs
<1> QED
  BY <1>1, <1>3, <1>4, SameEvidence DEF TrustInv, FusedOK, VerdictOK, inputs

LEMMA SkipKeeps ==
  ASSUME TrustInv, SkipCandidate
  PROVE  TrustInv'
<1>1. /\ UNCHANGED <<inputs, pc, results, decisions, verdict>>
      /\ pc = "trying" /\ candidates # <<>> /\ candidates' = Tail(candidates)
  BY DEF SkipCandidate
<1>2. TypeOK'
  BY <1>1 DEF TrustInv, TypeOK, inputs
<1>3. verdict = "none"
  BY <1>1 DEF TrustInv, FusedOK
<1> QED
  BY <1>1, <1>2, <1>3, SameEvidence DEF TrustInv, FusedOK, VerdictOK, inputs

THEOREM TrustInvariant == Spec => []TrustInv
<1>1. Init => TrustInv
  <2> SUFFICES ASSUME Init PROVE TrustInv
    OBVIOUS
  <2>1. DOMAIN claims # {} /\ pc = "next_task" /\ verdict = "none" /\ results = <<>>
    BY DEF Init
  <2> QED
    BY <2>1, TypeStart DEF TrustInv, ResultsOK, FusedOK, VerdictOK
<1>2. TrustInv /\ [Next]_vars => TrustInv'
  <2> SUFFICES ASSUME TrustInv, [Next]_vars PROVE TrustInv'
    OBVIOUS
  <2>1. CASE StartTask
    BY <2>1, StartTaskKeeps
  <2>2. CASE ExecuteDirectly
    BY <2>2, AnswerKeeps, ManualReviewKeeps DEF ExecuteDirectly
  <2>3. CASE TryManualReview
    BY <2>3, ManualReviewKeeps DEF TryManualReview
  <2>4. CASE SkipCandidate
    BY <2>4, SkipKeeps
  <2>5. CASE CandidateAnswers
    BY <2>5, AnswerKeeps DEF CandidateAnswers
  <2>6. CASE CandidatesExhausted
    BY <2>6, ManualReviewKeeps DEF CandidatesExhausted
  <2>7. CASE EvaluateTrust
    BY <2>7, EvaluateKeeps
  <2>8. CASE EvaluateWithoutResults
    BY <2>8, EvaluateWithoutKeeps
  <2>9. CASE Fuse
    BY <2>9, FuseKeeps
  <2>10. CASE PolicyVerdict
    BY <2>10, PolicyKeeps
  <2>11. CASE UNCHANGED vars
    <3>1. UNCHANGED <<inputs, candidates, pc, results, decisions, verdict>>
      BY <2>11 DEF vars
    <3>2. TypeOK'
      BY <3>1 DEF TrustInv, TypeOK, inputs
    <3> QED
      BY <3>1, <3>2, SameEvidence DEF TrustInv, FusedOK, VerdictOK, Outcome, inputs
  <2> QED
    BY <2>1, <2>2, <2>3, <2>4, <2>5, <2>6, <2>7, <2>8, <2>9, <2>10, <2>11 DEF Next
<1> QED
  BY <1>1, <1>2, PTL DEF Spec

-----------------------------------------------------------------------------
(* The theorems                                                            *)

\* The variables hold only what the code puts there, for any plan.
THEOREM TypeCorrect == Spec => []TypeOK
<1>1. TrustInv => TypeOK
  BY DEF TrustInv
<1> QED
  BY <1>1, TrustInvariant, PTL

\* What a computed outcome says of the findings.
LEMMA OutcomeMeans ==
  ASSUME NEW found
  PROVE  /\ Outcome(found) = "GREEN" =>
               \A c \in DOMAIN found : found[c] # "RED" /\ found[c] # "AMBER"
         /\ Outcome(found) = "RED" <=> \E c \in DOMAIN found : found[c] = "RED"
  BY DEF Outcome, Worst

\* A GREEN document has, for each of its claims, a value if it is required, a matching
\* answer of its own if it was verified, and some credential's match if it was not.
THEOREM GreenDocumentsBacked == Spec => []GreenIsBacked
<1>1. TrustInv => GreenIsBacked
  <2> SUFFICES ASSUME TrustInv, verdict = "GREEN", NEW c \in DOMAIN claims
               PROVE  /\ ~Missing(c)
                      /\ Own(c) # {} => \E i \in Own(c) : Matching(i)
                      /\ \E i \in DOMAIN results : Matching(i)
    BY DEF GreenIsBacked
  <2>1. Outcome(Findings) = "GREEN"
    BY DEF TrustInv, VerdictOK
  <2>2. Findings[c] = Finding(c) /\ DOMAIN Findings = DOMAIN claims
    BY DEF Findings
  <2>3. Finding(c) = "GREEN"
    BY <2>1, <2>2, OutcomeMeans, FindingColour DEF Colours
  <2>4. ~Missing(c) /\ results # <<>>
    BY <2>3 DEF Finding
  <2>5. PICK i \in ResultsFor(c) : Finding(c) = ColourOf(results[i])
    BY <2>4, FindingTaken DEF TrustInv
  <2>6. results[i].audit_status = "VERIFIED"
    BY <2>3, <2>5 DEF ColourOf
  <2>7. i \in DOMAIN results
    BY DEF ResultsFor, Own
  <2>8. Matching(i)
    BY <2>6, <2>7 DEF TrustInv, ResultsOK, Matching
  <2> QED
    BY <2>4, <2>8, <2>7 DEF ResultsFor
<1> QED
  BY <1>1, TrustInvariant, PTL

\* No contradicting answer is passed over by the worker.
THEOREM WorkerLosesNoContradiction == Spec => []WorkerContradictionIsRed
<1>1. TrustInv => WorkerContradictionIsRed
  <2> SUFFICES ASSUME TrustInv, entry = "worker", verdict # "none",
                      NEW c \in DOMAIN claims, ~Missing(c), Contradicted(c)
               PROVE  verdict = "RED"
    BY DEF WorkerContradictionIsRed
  <2>1. PICK i \in ResultsFor(c) : results[i].mismatched_fields
    BY DEF Contradicted
  <2>2. i \in DOMAIN results /\ results # <<>>
    BY DEF ResultsFor, Own, TrustInv, TypeOK
  <2>3. PICK k \in ResultsFor(c) :
            /\ Finding(c) = ColourOf(results[k])
            /\ \A j \in ResultsFor(c) : ~Outranks(results[j], results[k])
    BY <2>2, FindingTaken DEF TrustInv
  <2>4. results[i].audit_status = "MISMATCH"
    BY <2>1, <2>2 DEF TrustInv, ResultsOK
  <2>5. results[k].audit_status \in AuditStatus
    BY <2>2, ResultsCount, ResultTyped DEF TrustInv
  <2>6. AuditPriority(results[i]) = 4
    BY <2>4 DEF AuditPriority
  <2>7. ~(AuditPriority(results[i]) > AuditPriority(results[k]))
    BY <2>3 DEF Outranks
  <2>8. results[k].audit_status = "MISMATCH"
    <3>1. results[k].audit_status # "MISMATCH" => AuditPriority(results[k]) \in 1..3
      BY <2>5 DEF AuditPriority, AuditStatus
    <3> QED
      BY <3>1, <2>6, <2>7
  <2>9. Finding(c) = "RED"
    BY <2>3, <2>8 DEF ColourOf
  <2>10. Outcome(Findings) = "RED"
    BY <2>9, OutcomeMeans DEF Findings
  <2> QED
    BY <2>2, <2>10 DEF TrustInv, VerdictOK
<1> QED
  BY <1>1, TrustInvariant, PTL

\* A RED document has a cause that a reviewer can be shown.
THEOREM RedDocumentsExplained == Spec => []RedIsExplained
<1>1. TrustInv => RedIsExplained
  <2> SUFFICES ASSUME TrustInv, verdict = "RED", ~unsafe,
                      ~(entry = "worker" /\ results = <<>>)
               PROVE  \E c \in DOMAIN claims : Contradicted(c)
    BY DEF RedIsExplained
  <2>1. Outcome(Findings) = "RED"
    BY DEF TrustInv, VerdictOK
  <2>2. PICK c \in DOMAIN claims : Finding(c) = "RED"
    BY <2>1, OutcomeMeans DEF Findings
  <2>3. ~Missing(c) /\ results # <<>>
    BY <2>2 DEF Finding
  <2>4. PICK i \in ResultsFor(c) : Finding(c) = ColourOf(results[i])
    BY <2>3, FindingTaken DEF TrustInv
  <2>5. results[i].audit_status = "MISMATCH"
    BY <2>2, <2>4 DEF ColourOf
  <2> QED
    BY <2>5 DEF TrustInv, ResultsOK, Contradicted, ResultsFor, Own
<1> QED
  BY <1>1, TrustInvariant, PTL

\* Results that rank the same have the same colour, so the worker's verdict does not
\* depend on which of them the plan has first.
THEOREM WorkerIgnoresOrder == Spec => []VerdictIgnoresOrder
<1>1. TrustInv => VerdictIgnoresOrder
  <2> SUFFICES ASSUME TrustInv, entry = "worker", NEW c \in DOMAIN claims,
                      NEW i \in Best(c), NEW j \in Best(c)
               PROVE  ColourOf(results[i]) = ColourOf(results[j])
    BY DEF VerdictIgnoresOrder
  <2>1. i \in DOMAIN results /\ j \in DOMAIN results
    BY DEF Best, ResultsFor, Own
  <2>2. i \in 1..Len(results) /\ j \in 1..Len(results)
    BY <2>1 DEF TrustInv, TypeOK
  <2>3. /\ results[i].audit_status \in AuditStatus
        /\ results[j].audit_status \in AuditStatus
        /\ AuditPriority(results[i]) \in 1..4
        /\ AuditPriority(results[j]) \in 1..4
    BY <2>2, ResultTyped DEF TrustInv
  <2>4. ~Outranks(results[i], results[j]) /\ ~Outranks(results[j], results[i])
    BY DEF Best
  <2>5. AuditPriority(results[i]) = AuditPriority(results[j])
    BY <2>3, <2>4 DEF Outranks
  <2> QED
    BY <2>3, <2>5 DEF AuditPriority, AuditStatus, ColourOf
<1> QED
  BY <1>1, TrustInvariant, PTL
=============================================================================
