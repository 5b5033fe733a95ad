---------------------------- MODULE WorkspacePage ----------------------------
(***************************************************************************)
(* The reviewer's page, and the routes it talks to.  Each visit of the page *)
(* has at most one call of each kind under way; the server takes the calls  *)
(* in any order, their answers arrive in any order, and any of them may be  *)
(* lost.                                                                    *)
(*   frontend/src/features/generalized-verification/hooks/                  *)
(*       useGeneralizedVerificationWorkspace.js                             *)
(*   frontend/src/features/generalized-verification/utils/                  *)
(*       workspaceNormalizer.js                                             *)
(*   frontend/src/pages/VerifyPage.jsx        the page and its buttons      *)
(*   frontend/src/lib/api.js                  apiRequest                    *)
(*   backend/app/api/routes.py                /workspace, /run, review      *)
(*   backend/app/agent_orchestration/workspace.py  the payload of /run      *)
(* A workspace payload is the status it was made with: that status decides  *)
(* which of its actions are enabled.  The hook's timers are left out: they  *)
(* need a payload in a status that is not terminal, and none is stored.     *)
(***************************************************************************)
EXTENDS Naturals, SessionStates

CONSTANTS Visits,       \* visits of the page, each mounted once
          Choices       \* the decisions the reviewers may ask for

ASSUME ChoicesAssumption == Choices \subseteq HUMAN_FINAL_STATES

VARIABLES rowStatus,    \* of the session's row
          stored,       \* workspace_payload is not NULL
          taken,        \* the decision the server took (history)
          page,         \* the React state of each visit
          call,         \* its calls, by kind
          asked         \* the decision its review under way asks for

pageVars == <<rowStatus, stored, taken, page, call, asked>>
serverVars == <<rowStatus, stored, taken>>

Kinds == {"load", "run", "review", "refresh", "close"}

NoWorkspace == "null"
NoDecision == "none"

CLOSED_STATES == {"PENDING_CLEANUP", "PURGE_COMPLETE", "FAILED_PURGED"}

\* What an unanswered call is, and what it may be answered.
Unanswered == {"IDLE", "SENT", "SERVING"}
Errors == {"NOT_READY", "REFUSED"}
Payloads == VERIFIED_STATES \cup HUMAN_FINAL_STATES \cup {"PENDING_HUMAN_REVIEW"}

-----------------------------------------------------------------------------

\* Mutant: the status between verification and decision is not thought of.
can_closeVerified(payload) == payload \notin VERIFIED_STATES

\* _default_actions(), _workspace_actions_for_status(): can_close of a payload.
can_close(payload) ==
    payload \notin VERIFIED_STATES \cup {"PENDING_HUMAN_REVIEW"}

\* canReview of the page.
canReview(p) ==
    /\ page[p].workspace = "PENDING_HUMAN_REVIEW"
    /\ page[p].reviewResult = NoDecision

\* canCloseSession of the page.
canCloseSession(p) ==
    /\ page[p].workspace # NoWorkspace
    /\ \/ page[p].workspace \in HUMAN_FINAL_STATES \cup {"PENDING_CLEANUP"}
       \/ can_close(page[p].workspace)

\* The run button is in the overview of a workspace, or in the pending panel.
canRun(p) ==
    \/ page[p].workspace # NoWorkspace
    \/ page[p].isWorkspacePending /\ ~page[p].isLoading

FreshPage ==
    [visit |-> "NEW", workspace |-> NoWorkspace, isWorkspacePending |-> FALSE,
     isLoading |-> TRUE, reviewResult |-> NoDecision, reviewMessage |-> ""]

PageTypeOK ==
    /\ rowStatus \in SessionState
    /\ stored \in BOOLEAN
    /\ taken \in HUMAN_FINAL_STATES \cup {NoDecision}
    /\ page \in [Visits ->
           [visit : {"NEW", "OPEN", "LEFT"},
            workspace : Payloads \cup {NoWorkspace},
            isWorkspacePending : BOOLEAN,
            isLoading : BOOLEAN,
            reviewResult : HUMAN_FINAL_STATES \cup {NoDecision},
            reviewMessage : {"", "VERIFIED", "SUBMITTED"}]]
    /\ call \in [Visits -> [Kinds -> Unanswered \cup Errors \cup Payloads \cup {"OK"}]]
    /\ asked \in [Visits -> Choices \cup {NoDecision}]

\* An uploaded session, or one a worker has verified: it stores no workspace.
PageInit ==
    /\ rowStatus \in {"UPLOADED_PENDING_REVIEW", "PENDING_HUMAN_REVIEW"}
    /\ stored = FALSE
    /\ taken = NoDecision
    /\ page = [p \in Visits |-> FreshPage]
    /\ call = [p \in Visits |-> [k \in Kinds |-> "IDLE"]]
    /\ asked = [p \in Visits |-> NoDecision]

-----------------------------------------------------------------------------
(* The reviewer.                                                           *)

Idle(p, k) == call[p][k] = "IDLE"

Send(p, k) == call' = [call EXCEPT ![p][k] = "SENT"]

Open(p) ==
    /\ page[p].visit = "NEW"
    /\ page' = [page EXCEPT ![p].visit = "OPEN"]
    /\ Send(p, "load")
    /\ UNCHANGED <<serverVars, asked>>

\* handleRunVerification()
ClickRun(p) ==
    /\ page[p].visit = "OPEN" /\ canRun(p) /\ Idle(p, "run")
    /\ page' = [page EXCEPT ![p].reviewMessage = ""]
    /\ Send(p, "run")
    /\ UNCHANGED <<serverVars, asked>>

\* handleReviewDecision()
ClickReview(p) ==
    /\ page[p].visit = "OPEN" /\ canReview(p)
    /\ Idle(p, "review") /\ Idle(p, "refresh")
    /\ page' = [page EXCEPT ![p].reviewMessage = ""]
    /\ \E d \in Choices : asked' = [asked EXCEPT ![p] = d]
    /\ Send(p, "review")
    /\ UNCHANGED serverVars

\* handleCloseSession()
ClickClose(p) ==
    /\ page[p].visit = "OPEN" /\ canCloseSession(p) /\ Idle(p, "close")
    /\ Send(p, "close")
    /\ UNCHANGED <<serverVars, page, asked>>

LeftPage == [FreshPage EXCEPT !.visit = "LEFT"]

\* The page is unmounted; its calls go on.
Leave(p) ==
    /\ page[p].visit = "OPEN"
    /\ page' = [page EXCEPT ![p] = LeftPage]
    /\ UNCHANGED <<serverVars, call, asked>>

-----------------------------------------------------------------------------
(* The server.                                                             *)

Reply(p, k, answer) == call' = [call EXCEPT ![p][k] = answer]

\* get_generalized_workspace_route(): the payload as it was stored.
WorkspaceAnswer ==
    CASE rowStatus \in CLOSED_STATES -> "REFUSED"
      [] rowStatus \notin CLOSED_STATES /\ ~stored -> "NOT_READY"
      [] OTHER -> "PENDING_HUMAN_REVIEW"

ServeLoad(p, k) ==
    /\ k \in {"load", "refresh"} /\ call[p][k] = "SENT"
    /\ Reply(p, k, WorkspaceAnswer)
    /\ UNCHANGED <<serverVars, page, asked>>

\* run_generalized_verification_route(): refuses, returns a workspace, or begins.
ServeRun(p) ==
    /\ call[p]["run"] = "SENT"
    /\ \/ /\ rowStatus \in LEASE_ACQUIRABLE_STATES
          /\ rowStatus' = "VERIFYING"
          /\ Reply(p, "run", "SERVING")
       \/ /\ rowStatus \in Payloads
          /\ Reply(p, "run", IF stored THEN "PENDING_HUMAN_REVIEW" ELSE rowStatus)
          /\ UNCHANGED rowStatus
       \/ /\ rowStatus \in CLOSED_STATES \cup {"VERIFYING"}
          /\ Reply(p, "run", "REFUSED")
          /\ UNCHANGED rowStatus
    /\ UNCHANGED <<stored, taken, page, asked>>

\* run_generalized_verification_session() stores the workspace, or fails.
FinishRun(p) ==
    /\ call[p]["run"] = "SERVING"
    /\ \/ /\ rowStatus' = "PENDING_HUMAN_REVIEW" /\ stored' = TRUE
          /\ Reply(p, "run", "PENDING_HUMAN_REVIEW")
       \/ /\ rowStatus' = "FAILED_RETRIABLE" /\ UNCHANGED stored
          /\ Reply(p, "run", "REFUSED")
    /\ UNCHANGED <<taken, page, asked>>

\* Mutant: any decision on a decided session is taken for a repetition.
ReviewRepeated(p) ==
    rowStatus \in HUMAN_FINAL_STATES \cup {"PENDING_HUMAN_REVIEW"} \cup VERIFIED_STATES

\* review_decision_route(), whose steps are those of ReviewAndClosure.
ReviewAccepted(p) ==
    rowStatus \in {asked[p], "PENDING_HUMAN_REVIEW"} \cup VERIFIED_STATES

ServeReview(p) ==
    /\ call[p]["review"] = "SENT"
    /\ IF ReviewAccepted(p)
       THEN /\ rowStatus' = IF rowStatus \in HUMAN_FINAL_STATES THEN rowStatus ELSE asked[p]
            /\ taken' = rowStatus'
            /\ Reply(p, "review", "OK")
       ELSE /\ Reply(p, "review", "REFUSED")
            /\ UNCHANGED <<rowStatus, taken>>
    /\ UNCHANGED <<stored, page, asked>>

\* A worker verifies the session meanwhile, and stores no workspace.
WorkerVerifies ==
    /\ rowStatus \in LEASE_ACQUIRABLE_STATES
    /\ rowStatus' \in {"PENDING_HUMAN_REVIEW", "FAILED_RETRIABLE"}
    /\ UNCHANGED <<stored, taken, page, call, asked>>

\* close_session() answers with the session, purged or not, or the purge could not
\* even record its failure.
ServeClose(p) ==
    /\ call[p]["close"] = "SENT"
    /\ IF ValidTransition(rowStatus, "PENDING_CLEANUP")
       THEN rowStatus' = "PENDING_CLEANUP" /\ Reply(p, "close", "SERVING")
       ELSE UNCHANGED rowStatus /\ Reply(p, "close", "REFUSED")
    /\ UNCHANGED <<stored, taken, page, asked>>

FinishClose(p) ==
    /\ call[p]["close"] = "SERVING"
    /\ \/ rowStatus' = "PURGE_COMPLETE" /\ stored' = FALSE /\ Reply(p, "close", "OK")
       \/ rowStatus' = "FAILED_PURGED" /\ UNCHANGED stored /\ Reply(p, "close", "OK")
       \/ UNCHANGED <<rowStatus, stored>> /\ Reply(p, "close", "REFUSED")
    /\ UNCHANGED <<taken, page, asked>>

\* The request never reached the server, or its answer never the page.
Lost(p, k) ==
    /\ call[p][k] \notin {"IDLE", "SERVING", "REFUSED"}
    /\ Reply(p, k, "REFUSED")
    /\ UNCHANGED <<serverVars, page, asked>>

-----------------------------------------------------------------------------
(* The answers.  A page that was left drops them.                          *)

Arrives(p, k) == page[p].visit # "NEW" /\ call[p][k] \notin Unanswered

\* loadWorkspace(), hydrateWorkspace(): the page after an answer to a load.
Loaded(s, answer) ==
    [s EXCEPT !.workspace = IF answer \in Payloads THEN answer ELSE @,
              !.isWorkspacePending = IF answer \in Payloads THEN FALSE
                                     ELSE @ \/ answer = "NOT_READY",
              !.isLoading = FALSE]

Show(p, s) == page' = [page EXCEPT ![p] = IF @.visit = "OPEN" THEN s ELSE @]

AnswerLoad(p) ==
    /\ Arrives(p, "load")
    /\ Show(p, Loaded(page[p], call[p]["load"]))
    /\ Reply(p, "load", "IDLE")
    /\ UNCHANGED <<serverVars, asked>>

AnswerRun(p) ==
    /\ Arrives(p, "run")
    /\ Show(p, IF call[p]["run"] \in Payloads
               THEN [Loaded(page[p], call[p]["run"]) EXCEPT !.reviewMessage = "VERIFIED"]
               ELSE page[p])
    /\ Reply(p, "run", "IDLE")
    /\ UNCHANGED <<serverVars, asked>>

\* A decision taken is shown, and the workspace asked for again.
AnswerReview(p) ==
    /\ Arrives(p, "review")
    /\ IF call[p]["review"] = "OK"
       THEN /\ Show(p, [page[p] EXCEPT !.reviewResult = asked[p]])
            /\ call' = [call EXCEPT ![p]["review"] = "IDLE", ![p]["refresh"] = "SENT"]
       ELSE /\ Reply(p, "review", "IDLE")
            /\ UNCHANGED page
    /\ asked' = [asked EXCEPT ![p] = NoDecision]
    /\ UNCHANGED serverVars

\* "Review decision submitted successfully: ... You can now close the session."
AnswerRefresh(p) ==
    /\ Arrives(p, "refresh")
    /\ Show(p, [Loaded(page[p], call[p]["refresh"]) EXCEPT !.reviewMessage = "SUBMITTED"])
    /\ Reply(p, "refresh", "IDLE")
    /\ UNCHANGED <<serverVars, asked>>

AnswerClose(p) ==
    /\ Arrives(p, "close")
    /\ Show(p, IF call[p]["close"] = "OK"
               THEN LeftPage
               ELSE page[p])
    /\ Reply(p, "close", "IDLE")
    /\ UNCHANGED <<serverVars, asked>>

-----------------------------------------------------------------------------

Serve(p, k) ==
    \/ ServeLoad(p, k)
    \/ k = "run" /\ (ServeRun(p) \/ FinishRun(p))
    \/ k = "review" /\ ServeReview(p)
    \/ k = "close" /\ (ServeClose(p) \/ FinishClose(p))

Answer(p, k) ==
    \/ k = "load" /\ AnswerLoad(p)
    \/ k = "run" /\ AnswerRun(p)
    \/ k = "review" /\ AnswerReview(p)
    \/ k = "refresh" /\ AnswerRefresh(p)
    \/ k = "close" /\ AnswerClose(p)

Reviewer(p) ==
    Open(p) \/ ClickRun(p) \/ ClickReview(p) \/ ClickClose(p) \/ Leave(p)

PageNext ==
    \/ WorkerVerifies
    \/ \E p \in Visits :
          \/ Reviewer(p)
          \/ \E k \in Kinds : Serve(p, k) \/ Answer(p, k) \/ Lost(p, k)

PageSpec == PageInit /\ [][PageNext]_pageVars

-----------------------------------------------------------------------------

(***************************************************************************)
(* A decision a page shows as submitted is the one the server took, though  *)
(* answers are lost and another page may ask for the opposite.              *)
(***************************************************************************)
ShownDecisionRecorded ==
    \A p \in Visits :
        page[p].reviewResult # NoDecision => taken = page[p].reviewResult

(***************************************************************************)
(* The page says "Review decision is complete. You can close this session   *)
(* now." (VerifyPage.jsx:907) of a decided session only, however stale its  *)
(* workspace, whichever visit took the decision and whatever was lost: a    *)
(* close deletes the document of a session that is reviewed.                *)
(***************************************************************************)
CloseOfferedWhenDecided ==
    \A p \in Visits :
        page[p].visit = "OPEN" /\ canCloseSession(p) =>
            /\ rowStatus \in HUMAN_FINAL_STATES \cup CLOSED_STATES
            /\ taken # NoDecision

(***************************************************************************)
(* The text of VerifyPage.jsx:778, "You can now close the session.", goes   *)
(* with a page that lets the reviewer close it.  It does not: the refresh   *)
(* that follows a decision brings the workspace stored before it, or none,  *)
(* (routes.py:491-505), so that can_close stays disabled: TLC refutes it.   *)
(***************************************************************************)
CloseOfferedWhenTold ==
    \A p \in Visits :
        page[p].reviewMessage = "SUBMITTED" => canCloseSession(p)

=============================================================================
