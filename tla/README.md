# A verification project for the Secuura verification engine

Secuura receives a PDF of credentials, verifies what it claims against providers and hands the findings
to a human reviewer, whose decision ends the session; then every trace of the document is deleted and
only an audit receipt is kept. The TLA+ modules here model the parts of `src/` that decide *when* a
session may move, *who* may move it, *what* of the document is verified and shown, and *what colour* it
gets. TLC checks them on small instances, TLAPS proves the main results for every value of the constants.

Paths below are relative to `src/backend/app/` unless they begin with `src/`.

- [1. The system](#1-the-system)
- [2. The modules](#2-the-modules)
- [3. The runs](#3-the-runs)
- [4. Bounds](#4-bounds)
- [5. Fairness](#5-fairness)
- [6. The proofs](#6-the-proofs)
- [7. What the code does against its documents](#7-what-the-code-does-against-its-documents)
- [8. Abstractions](#8-abstractions)
- [9. Not modelled, and the plan](#9-not-modelled-and-the-plan)

## 1. The system

The backend is a FastAPI server whose routes run in a pool of threads, and any number of worker
processes. They share one Postgres database (`verification_sessions`, `verification_jobs`,
`session_upload_tokens`, `audit_receipts`, `purge_tracking`) and one upload directory, and nothing else:
there are no queues or locks outside the database. Every write of a session's status is a compare-and-set
(`transition_state()`: a SELECT, a look at the table of transitions, an `UPDATE ... WHERE status = <what
was read>`), so the interesting behaviours lie between the SELECT of one thread and the UPDATE of
another, and in what a transaction leaves behind when its thread dies.

### Components that are modelled

| component | state | operations | meets the others through |
|---|---|---|---|
| **Workflow states** `sessions/constants.py`, `workflow/state_machine.py`, `workflow/failures.py` | none | `validate_transition`, `classify_failure` | every write of `status` |
| **Upload intake** `sessions/routes.py`, `security/pdf_validator.py` | tokens, `status`, `file_path`, the document, its quarantined original and its sidecar | create a session, issue a token, upload | the row it leaves in `UPLOADED_PENDING_REVIEW`, the files a close deletes |
| **Job queue and worker loop** `workflow/job_queue.py`, `orchestrator/`, `worker/worker.py` | rows of `verification_jobs`; each worker's place in its loop and its `JobHeartbeat` threads | enqueue, dequeue, heartbeat, stale scans, terminal marks | `acquire_lease` on the session, the pipeline it calls |
| **Session verification** `workflow/repository.py`, `workflow/service.py`, `agent_orchestration/workspace.py` | the session row (lease, heartbeat, phase, outcome), receipts; each executor's open transaction and heartbeat thread | lease or start of `/run`, phases, completion, failure, heartbeat, stale scan | the row, with every route; the trust verdict it publishes |
| **Extraction** `src/extraction/` as the backend calls it | the engine cache of a process; per thread the engine, page images, what each stage answered | gate, make or share an engine, render, predict, close, publish | the fields and warnings it hands to the graph |
| **Gemini stages** `agent_orchestration/providers/gemini_pool.py`, the stages of `agent_orchestration/graph.py` | cooldowns and rotation of the keys, shared by the threads of a process; per run its stage and flags | a stage of a run, a call of the pool, a cooldown's end | the claims of the document, `agent_run_status` |
| **Claims of a document** `agent_orchestration/graph.py`, `semantic_normalization.py` | evidence, claims, normalised fields, decisions | discovery, normalisation, decision, highlights | the planner's items, the reviewer's page |
| **Planning** `verification_domain/planner.py`, `adapters.py`, `workflow/task_planner.py`, `verifier_execution/registry.py` | groups, tasks, routes, credentials, the plan, results and bundles | group, route, plan, execute, bundle | the tasks it gives the executor |
| **Providers** `verifier_providers/`, `verifier_execution/` | the mode and the registry of a process; per task its candidates, requests, results and traces | choose a candidate, ask locally or over HTTP, retry, record | one result per task, for the trust engine |
| **Trust engine and findings** `trust/findings.py`, `trust/trust_engine.py`, the loop of `verifier_execution/executor.py`, the last nodes of `agent_orchestration/graph.py` | task results, the colour of each claim, the verdict | run a plan, take the best result per claim, fuse, decide | called by both pipelines, with different shapes of a result |
| **Review and closure** `api/routes.py`, `workflow/runtime.py`, `audit/service.py`, `cleanup/controller.py` | the row, the latest receipt, `purge_tracking`, the files | review decision (first and repeated), close | the row, with a verification that may still be going on |
| **Reviewer's page** `src/frontend/src/features/generalized-verification/`, `src/frontend/src/pages/VerifyPage.jsx` | per visit the React state and at most one call of each kind; the row it talks to | open, run, review, close, leave; the server's answers, late or lost | the routes of the backend |

What is hard in each, and the properties that would catch it going wrong (the full list, with lines, is
`hazards` in `PROJECT.json`):

- *Intake.* One token, or several tokens of one session, may be presented twice at once (`is_used` is
  checked at `sessions/routes.py:168`, written after all of the files are); a token request that has read
  `UPLOAD_PENDING` issues its token after the upload; an upload fails between the three files it writes.
  Correct: one upload per session is accepted, its files are whole before the row names them, the answer
  tells the truth, no late request reopens a session.
- *Queue.* `enqueue_job()` looks, then inserts, with nothing in between to stop a second requester; two
  workers read the same oldest job; a worker that a scan took for dead reports late, and
  `_mark_terminal()` updates by id alone; a last heartbeat may follow the terminal mark; a worker dies
  after its claim. Correct: one claim per job, one job at a time per session, DONE means verified, jobs
  never come back, every job is taken and ends.
- *Verification.* `POST /run` takes neither lease nor heartbeat and competes with workers that take both;
  completion asks for no lease; an abandoned worker goes on working and may find its session retried by
  another; the heartbeat thread commits on the pipeline's own connection, in the middle of the transaction
  that stores the audit bundle. Correct: one owner at a time, the published verdict is that of the latest
  attempt, no receipt is doubled or lost, the status follows the table, attempts end, sessions of dead
  workers are found.
- *Extraction.* Two threads find the cache empty and make an engine each; stages fail one by one, or give
  answers that cannot be used, and what the pages before a failure answered is kept. Correct: nobody closes
  the engine another one uses and none is forgotten; a result says which stages were not asked, and has what
  they answered.
- *Gemini stages.* All keys of the pool may be cooling down; between the look at a cooldown and the refusal
  that starts it, other requests look too; each stage falls back by itself. Correct: an exhausted key is not
  hammered, READY means that no stage that asked was refused or given what it cannot use, every stage ends.
- *Claims.* Gemini may give two claims one id, cite what it likes, name any page, and answer the normalisation
  with other values. Correct: what was extracted is what is shown as extracted, the value and the evidence of a
  decision are of one claim, the page highlights the evidence of a claim with its id.
- *Planning.* What a field is worth depends on the other fields; tasks are made from groups and credentials
  by the planner, apart from each other; ids may repeat. Correct: alike fields are treated alike, no
  mandatory field is lost, each result reaches the bundle of its credential and a contradiction survives it.
- *Providers.* Timeouts, retries, unreadable and refused answers; rules or local records stand in for a
  provider. Correct: what is called live was answered by a live provider, nobody is asked again after an
  answer that settles the task.
- *Verdict.* Candidates fail one after another and something is recorded all the same; results of other
  credentials stand in for a claim without results; `max()` returns the first of equals; the graph
  renames the field the ranking reads. Correct: GREEN is backed by matching answers, a verified claim's by its
  own; a contradiction is RED; the order of the plan does not matter.
- *Review and closure.* Two reviews and two closes overlap; a repeated decision writes the receipt again
  after its check; a purge deletes file by file before it clears the row, and any of its steps fails; a late verdict arrives while the session
  is reviewed or purged. Correct: the receipt holds the one decision, nothing is deleted before it, one
  close purges, a complete purge leaves nothing, the purge records agree with the row.
- *Page.* Answers are lost or come late, on a page that has been left or after another page's decision.
  Correct: a decision shown is the one recorded, and a session is offered for closing only when it is decided.

### Components that are not modelled, or only in part

| component | what is modelled | what is left out, and why |
|---|---|---|
| **Agent orchestration graph** `agent_orchestration/graph.py` | every node: the control of the stages in GeminiEnrichment, their data in DocumentClaims, RunPlanning and TrustVerdict | document understanding (free text for the reviewer), prompts, the codes of warnings, masking; `graph.py:2030-2087` is not reached |
| **Review and closure** | the routes that write | the routes that only read, and the serialisation of workspaces |
| **Verifier providers** | modes, gates, the local store, the HTTP provider, traces | the Entra provider beyond what it supports: it answers from a configured tenant only |
| **Verification domain** | planner, tasks, routes and plans of a run | `routing.py`, the getters of `service.py` and the audits of `adapters.py`: only tests call them |
| **Extraction and OCR** `src/extraction/` | the path the backend takes, `run_pp_chatocr_v4_extraction()` | the older extractors (`ocr/engine.py` and its parts), which the backend does not reach; what a model recognises is chosen |
| **Web frontend** `src/frontend/` | the reviewer's page and its hook | sign-in, upload pages, layout |
| **PDF security** (the scanning) | the verdict and what follows it, in UploadIntake | which bytes are active content is data |
| **Audit receipts** (the hash) `audit/hmac_utils.py`, `audit/receipt_generator.py` | when a receipt is written, and what the row points to | cryptography and formatting |
| **Redaction** `security/redaction.py`, `agent_orchestration/sanitization.py` | nothing | recursion over payloads by the names of keys and by regular expressions: character work |
| **Authentication** `auth/` | nothing | one row per name, kept unique by the database |
| **Demo profiles, connectors** `demo_profiles/`, `connectors/` | nothing | lookups without state |
| **Schema synchronisation** `db/database.py` | nothing | `ALTER TABLE` at start-up |

## 2. The modules

```
                     SessionStates
        ______________/  |   |  \____________________________________
       /                 |   |                   \                    \
 UploadIntake     JobQueue   VerificationOwnership <-- implements -- VerificationExecution
                                 implements                            WorkspacePage
                                     |
                              ReviewAndClosure -- implements --> DocumentRetention

 OcrExtraction       GeminiEnrichment       DocumentClaims
 CredentialPlanning <-- RunPlanning         ProviderAttempts       TrustVerdict
```

`VerificationOwnership` and `DocumentRetention` are abstract specifications: what the backend promises,
with neither leases nor transactions. `VerificationOwnership` is the seam between the two halves of a
session's life, and both are shown to implement it. VerificationExecution has the verification in detail, and
of a review and a closing the writes that its executors may read. ReviewAndClosure has the routes in detail
and, for the verification, the *abstract* actions, which it takes from its INSTANCE of VerificationOwnership.
Neither half could rely on the other if one of them took a step the abstract specification does not have, a
decision beside a running verification above all. The second row of the picture is what one
verification does inside: its modules follow the document from its text to its verdict, each taking as
its inputs whatever the one before may hand over. Most components have an `MC` module, which only gives
names to small sets. There are eight `Proofs` modules, some of them for two components: ReviewAndClosureProofs
also proves about WorkspacePage, RunGraphProofs about GeminiEnrichment and DocumentClaims, TaskProofs about
ProviderAttempts and RunPlanning. Definitions that begin with a comment "Mutant:"
are plausible bugs of the definition below them; no specification uses them.

**SessionStates.** `ALLOWED_TRANSITIONS` as a set of edges, `ValidTransition` = `validate_transition()`
returning, `classify_failure` over the error types its branches tell apart, `FinalState` and `Reviewable`
of the review route.

**VerificationOwnership.** Status, owner, number of attempts and the attempt whose verdict is published:
`Begin`, `Publish`, `Fail`, `Abandon`, `Lose`, then `Decide` and `Close` when nobody owns the session. A
session begins uploaded, or in one of the VERIFIED_ states of earlier versions.

**UploadIntake.** Per session `status` and `file_path` (the upload that wrote the file); per token its
row; per upload the three files it may write (`disk`, a file being absent, written in part, active or
inert), its place in the handler (`pc`) and the bytes it is about to store. `RequestToken`, `OpenUpload`
and `IssueToken` are the token route; `ReceiveUpload`, `QuarantineOriginal`, `StoreDocument`,
`WriteSidecar`, `SelectStatus` and `UpdateSession` the upload route, in the order of
`sessions/routes.py:160-224`. `UploadFails` and `TokenRequestFails` are an exception or a killed process
at any of them, including after the COMMIT, when only the answer is lost. `DeletePart` and `Purge` are the
purge of `close_session()` as far as the files see it: a file at a time, in its order, while the row goes on
naming them, and the row last; it may stop anywhere.

**JobQueue.** `jobs` is the table in the order of `created_at`. `FindNoActiveJob` and `InsertJob` are the
two statements of `enqueue_job()`. A worker's loop is `ScanSessions`, `ExpireJobs`,
`ReadOldestPending`, `ClaimJob`, `AcquireLease`, then `PipelineReturns` or `PipelineRaises`, then one of
the three marks. `Beat` is a turn of a JobHeartbeat thread, which may outlive its `with` block.
`DatabaseFails` follows the `except` of the loop from each statement; `Crash` ends the process. The
sessions move by other hands too: `RequestRuns` and `RequestEnds` are a `/run` request, `ReviewAdvances`
the review and the closing.

**VerificationExecution.** `session` is the row with the columns that matter; `receipts` the committed
receipts; per executor (a worker or a `/run` request) `pc`, `seen` (the status its last SELECT
returned), `error`, `mine` (its attempt), `txn` and `beating`. `txn` is what makes the module subtle:
`store_audit_bundle()` only *flushes* a receipt, and any commit on that connection makes it durable, be
it the completion, the failure, the heartbeat thread's tick or the job's failure mark; a flush that
itself failed leaves a transaction that refuses every statement (`"broken"`).

| actions | code |
|---|---|
| `ReadForClaim`, `AcquireLease` | `repository.py` `acquire_lease()` |
| `ReadForClaim`, `StartRun` | `workspace.py` up to its `transition_state()` |
| `EnterPipeline`, `StageReturns`, `StageRaises` | `service.py` `run_worker_pipeline()`, `update_worker_phase()` |
| `StoreAuditBundle`, `AuditBundleFails` | `service.py` `_build_completion_values()`, `workspace.py:70-93` |
| `ReadForCompletion`, `CommitCompletion` | `complete_processing()` |
| `ReadForFailure`, `CommitFailure`, `FailureNotRecorded` | `fail_processing()` and what its callers do when it raises |
| `HeartbeatTick`, `HeartbeatDies` | `_HeartbeatRunner._run()`, `update_heartbeat()` |
| `MarkStaleSession`, `HeartbeatAges` | `mark_stale_sessions()`, the passing of its timeout |
| `Crash` | the process is killed |
| `Decide` | `review_decision_route()` with `upsert_final_review_receipt()`, as one step |
| `Close` | `close_session()`: its claim, and its end, complete or failed |

**ReviewAndClosure.** The four variables of VerificationOwnership, the receipts and the row's pointer,
`traces` (files and sensitive columns left), `purge_status` and `purges`, and per request its place,
the status it read and the decision it asks for. A review is `ReadForReview`, then `RepeatDecision` (the
idempotent branch) or `SelectForDecision` and `CommitDecision`. A close is `ReadForClose`,
`ClaimForClose`, three `DeleteFile` in the order of the code, `ReadForFinish`, `FinishPurge`, or, from
the `except`, `ReadForFailedPurge` and `RecordFailedPurge`. `PurgeRaises` is an `unlink()` that raises, which
leaves the database fit to record it; `PurgeLosesDatabase` a statement that fails: the `except` does not roll
back, so that it may fail as well and nothing is recorded. `Verify` and `CommitBundle` are the
verification that goes on meanwhile.

**TrustVerdict.** `entry` says which caller asks. A task is executed by `StartTask` and then
`ExecuteDirectly`, or `TryManualReview`, `SkipCandidate`, `CandidateAnswers` and `CandidatesExhausted`
over its candidates. `ResultsFor`, `Outranks`, `Best`, `BestResult`, `Finding` and `Outcome` are the
functions of `findings.py` (a tuple comparison and Python's `max()`, which returns the first maximum). `Own(c)` are the results of a
claim itself; `ResultsFor` falls back to all results when there are none.
The verdict is `EvaluateTrust`, `EvaluateWithoutResults`, or `Fuse` and `PolicyVerdict` in the graph.

**OcrExtraction.** `cache`, `made` and `open` are `_ENGINE_CACHE` and the engines that were made and not
closed; per thread its place, engine, page images and what each stage answered. `LookUp`, `MakeEngine`
and `StoreEngine` are the three parts of `_get_pp_chatocr_engine()`, the middle one outside the lock;
`Render` to `Chat` are the stages of `run_pp_chatocr_v4_extraction()`, `PredictPage` a page of the
multimodal one, whose answer may be one that the code skips (`asked` counts the pages, `mllm_res` has the
answers that were kept); `MergedPages` is what `_merge_prediction_maps()` and `_normalize_prediction_map()`
leave of them; `LeaveInputs` and `CloseEngine` its `with` and `finally`; `Publish` the fields.

**GeminiEnrichment.** `cooling` and `rotation` are the module's globals; per run `stage`, `order` (keys its
call has yet to try) and `pc`. `BeginCall`, `SkipCoolingKey`, `AskKey`, `RateLimited` and `PoolExhausted`
are `invoke_gemini_balanced()`; `Answered`, `CallFails` and `StageWithoutGemini` what each stage makes of
it, through `FallBack`. `Discovered` and `Grouped` are answers that are accepted although they name no claims,
or no groups, and are replaced later without the flag. `refusals` and `replaced` (what took the place of an
answer, and why) are history variables.

**DocumentClaims.** Evidence is chosen, then `NoEvidenceGraph`, `GeminiNamesClaims` or `FieldsNameClaims`,
`NormalizeFields`, `Decide` and `BuildWorkspace`, one action per node of the graph. A text is its set of
words, so that "is found in" is the subset relation; a region is a page and the pieces that it was drawn
around. A claim of Gemini's has one (`Hull`), on the page Gemini names; the highlights search the evidence that
a claim cites (`SpecificBoxes`) and fall back to the region the decision came with. A decision keeps the number
of the `finding` its label, status and confidence are from.

**CredentialPlanning.** The rules of `planner.py` as operators: what a label means (`SemanticKey`), which
fields support it (`Anchored`, `SupportsContext`), whether it is good enough (`Passes`), what becomes of it
(`PlanningDecision`), and the tasks and candidates that follow. A chain of `if` is `FirstOf`, a list of
conditions and results; a label, like an id (`IdTokens`), is the set of the tokens the code looks for; `Those(s, I)` is what a list
comprehension keeps of a list.

**RunPlanning.** Composes those rules with the groups of `graph.py`: `KeepCandidates`, `FieldsNameClaims` or
`GeminiNamesClaims`, `GroupByType` or `GroupByGemini`, `PlanTasks`, `PlanForRuntime`, then
`ExecuteByProvider` or `ExecuteManually` for each task, and `BuildBundles`. Without any item the fields of
`trust_input` are grouped (`TrustFields`).

**ProviderAttempts.** `mode` and `registered` are what `policies.py` and `registry.py` make of the
environment. A task is `StartTask`, then per candidate `SkipCandidate` or `TakeCandidate`, and the answer of
a connector, of the local store (`AskLocally`) or of the outside (`AskExternally`, then `SendRequest` once
per attempt of `http_client.py`), or else `TryManualReview`. `recorded` and `traces` are what is stored.

**WorkspacePage.** `page` is the React state of each visit, `call` its calls by kind, `rowStatus`, `stored`
and `taken` the server's. `Click...`, `Open` and `Leave` are the reviewer's; `Serve...` and `Finish...` the
routes, at whatever time the server takes a call; `Lost` an answer that does not come; `Answer...` the
hook's continuation after its `await`.

## 3. The runs

Runs that pass. "States" are distinct ones.

| run | instance | states | checks |
|---|---|---|---|
| `execution` | 2 workers, 1 `/run` request, 3 attempts, 2 crashes, any decision and closing | 75 k | one owner, no stale verdict, receipts; the refinement of VerificationOwnership; two liveness properties |
| `review` | 2 reviews with any decisions, 2 closes, 1 executor, 1 attempt, 1 fault | 528 k | three invariants, the refinements of DocumentRetention and VerificationOwnership, PurgesEnd |
| `queue` | 2 requesters, 2 workers, 1 session with one final state, 2 jobs, 1 fault | 330 k | three safety and two liveness properties |
| `intake_safety` | 2 sessions, 2 tokens, 2 uploads, 1 fault | 134 k (up to symmetry) | three invariants |
| `trust` | 2 claims, 1 group, 2 tasks, 2 candidates each, 2 levels of confidence, both callers | 368 k | three properties of the verdict |
| `page` | 2 visits, 2 decisions | 822 k (up to symmetry) | ShownDecisionRecorded, CloseOfferedWhenDecided |
| `providers` | 2 tasks, 2 values, a store of 2 records, 1 retry, every mode | 84 k | LiveIsEvidence, SettledOnce |
| `enrichment` | 2 runs, 2 keys, 4 stages | 702 k | two invariants, StagesEnd |
| `claims` | 2 pieces of evidence, on any of 2 pages or none, 2 ids, 3 texts, 2 claims | 4.2 M (up to symmetry) | three invariants |
| `extraction` | 2 threads, 2 documents of up to 2 pages, every configuration | 6.4 M (up to symmetry) | three invariants |
| `planning` | documents of 3 out of 5 fields, answers of 2 claims and 2 groups, 2 families | 2.4 M | three invariants |

What the less obvious properties say:

- `OwnerHoldsSession` / `LeaseExcludesOthers` / `ImplementsOwnership`: at most one executor is in its
  pipeline, it works on the latest attempt, and nobody has closed, reviewed or retried the session
  meanwhile. This is *not* what the lease alone gives, as `/run` takes none and completion asks for none.
  What gives it is the table: `ABANDONED_VERIFYING` leads only to the failed states, and the one who takes
  that edge is the abandoned executor itself, as it stops. The price is in section 7: an abandoned session
  whose worker is dead stays abandoned. A review and a closing ask for no lease either: that they come after
  the verdict, when its owner is out of the pipeline, is the table's doing as well.
- `KeepsOwnership`: the same from the other side. The two statements of a review or a close have any step of a
  verification between them, and what they commit is one of the steps the executors count on.
- `VerdictOfLatestAttempt`: from the verdict to the end of a purge, `trust_outcome` is that of the attempt
  begun last; an attempt that failed leaves none.
- `LeaseExcludesOthers` also says that a fresh lease meets no heartbeat of an earlier attempt: otherwise
  the scan could take a session from a worker in the instant after its claim. It holds because every
  write that frees a session for another attempt clears `heartbeat_at`.
- `ReceiptsConsistent`: no attempt has two receipts, and the row never names a receipt that was rolled
  back, although a heartbeat may commit the bundle early and a failure commits it too. A receipt with a
  decision is the session's last, the row names it, and it holds the verdict that was decided on, although the
  receipt may be one that an earlier attempt left: `upsert_final_review_receipt()` takes the newest it finds.
- `DoneMeansVerified`: DONE means that this job's own worker published the verdict, so that of two jobs of
  one session at most one is DONE, and no later job, `/run` request, review or closing of the session makes a
  DONE job a false one.
- `DecisionReceipted`: the idempotent branch of the review route rewrites the receipt after its check;
  still the receipt holds the one decision and the outcome it was taken on.
- `PurgeTracked`: one purge record per session, and it agrees with the row in every state.
- `VerdictIgnoresOrder`: for the worker, results between which `max()` chooses by position have the same
  colour.
- `DocumentWhole`: what the row names is whole until a purge begins; afterwards the row may well name a file
  that is gone, but a file that is left is always named, the original by the sidecar, the rest by the row.
- `PurgesEnd`: a purge that began is completed or recorded as failed, or its request has answered 500.
- `GreenIsBacked`: a required claim has a value, one that was verified a matching answer of its own, and one
  that was not the match of another credential. That is less than
  the contract asks for (`GreenIsVerified`, section 7).
- `CloseOfferedWhenDecided`: closing destroys the document, so a page offers it only for a session with a
  decision, whatever it was loaded with, in which order and by whom the decision was taken.
- `ReadyMeansServed`: of a run that is READY, no stage that asked was refused, failed or was given an answer
  outside the schema. An answer that fits the schema and has nothing in it is another matter
  (`NoSilentFallback`, section 7).
- `DecisionOfOneClaim`, `HighlightsBelong`: with one id for two claims, the last one's value and evidence go
  together, and what is highlighted is around evidence that a claim of that id cites, where the evidence is,
  or is the region such a claim came with.
- `RefusalsBounded`: each request looks at the cooldown before it asks, and only then; a bound of one refusal
  per request is what is left of "not at all".
- `StagesAccountedFor`: every configured stage has been asked, for every page, or the result's warnings name
  it; and each key that was answered is a field of the stage that answered it, although stages and pages are
  merged: the one exception is in section 7.
- `AlikeFieldsAlikePlanned`: fields that differ in value and page only, and in their ids as far as the planner
  reads nothing in them, are planned alike, wherever they stand, as what anchors a field may come after it.
- `ResultsReachBundles`: credentials and tasks are made apart from each other; still no result is one that
  no bundle has, and `MISMATCH` survives the aggregation.

One run shows a property violated, on the instance of `trust`; section 7 has the sentence it states:

| run | property | what it shows |
|---|---|---|
| `trust_contradiction_lost` | ContradictionIsRed | in `/run` a mismatch loses to a more confident match |

Each property of a passing run has a mutant in `PROJECT.json`: a definition of the model changed the way a
bug would change the code (a dropped WHERE, a forgotten column, a renamed status, a missing handler),
under which TLC finds the property violated on the same instance. What is stated only by theorems has no
run: the type invariants, `SingleOwner`, the two `StatusFollowsTable`, `ReviewBeforeCleanup`, `OnePurger`,
`DecisionIsFinal`, `JobsMoveForward`, `ActiveJobsBounded`, `NeverReopened` and `RedIsExplained` (section 6).

Deadlock is not checked: a session that is closed, reviewed or failed with nobody asking anything is a
legitimate end, as is a finished run, task list or document.

## 4. Bounds

- Two workers and one `/run` request are the smallest set with both kinds of competition (worker against
  worker, worker against request). *Three attempts* let a worker abandoned in its first attempt meet a
  second and a third one. *Two crashes* let both the owner and its successor die. `MaxAttempts` bounds
  only `ReadForClaim`; it is the code's retry by a human or by a new job, which has no limit of its own.
- Two reviews and two closes: every property of the routes is about a request and one other. One fault
  at any step of any request. One executor with one attempt is all the verification this run needs: the
  competition of executors is the `execution` run's, and the safety properties of `review` are theorems for
  any number of executors and attempts.
- One final state of a review in `queue` (`Outcomes`): the queue does not look at a session that has a
  verdict, and no edge of the table tells the final states apart.
- Two jobs of one session are what two requesters can enqueue; a third would be a job of a session that
  is being served already, which `ACTIVE_JOB_STATUSES` forbids unless a requester races.
- Two sessions in `intake_safety` let a token of one session be presented while the other is opened.
- Two claims, a group that is no claim, and two tasks are enough for a claim with two results of its own,
  with one, with none (when the results of others stand in), and for two results that rank the same; two
  levels of confidence are enough for an order to matter. A task has up to two candidates, so that
  failing over and exhaustion both happen.

- Two visits of the page are a reviewer with two tabs, or two reviewers; two opposed decisions.
- Two keys: one that refuses and one that is left; two runs share them. Four stages are what the graph has.
- Two pages, and none, for a piece of evidence; one page that Gemini names, which is that of the evidence or
  is not (section 7 takes both pages). Two texts with words and one of symbols only, one contained in
  the other: equal, contained and disjoint texts occur. Two ids, two claims: equal and different ids occur.
- Two threads are enough for both to find the cache empty; two documents let the second of a thread
  find it filled; two pages let a stage fail before, between and after them. One key: what the stages answer
  of it is what distinguishes their fields.
- Three fields: one to be planned, one that anchors it and one that competes with it. The five fields of
  `MCRunPlanning` hold two names that differ only in their value, a roll number, and two contacts whose ids
  differ in what the planner can read in them; every order and every subset of three occurs.
- Two tasks in `providers` let the requests and traces of one be taken for the other's; one retry, two
  records (a matching one may hide a contradicting one), two values, one of them too long to be sent.

The proofs of section 6 hold for any number of executors, requests, workers, jobs, tokens, uploads, claims,
tasks, candidates, levels, threads, pages, keys and runs, and for any value of the bounds.

## 5. Fairness

- `VerificationExecution!FairSpec`: a thread that has claimed the session takes its next step (weak
  fairness of `Proceeds(e)`, one executor's local steps: the operating system schedules threads; that
  every stage returns or raises in the end is an assumption about the calls it makes, whose timeouts are
  not modelled); some idle worker scans again and again (every turn of
  `run_worker()` begins with `_mark_stale_work()`); time passes (`HeartbeatAges`). Nobody is obliged to
  ask for a verification, and a heartbeat thread need not beat. Under it `AttemptsEnd` and
  `HeartbeatingSessionMovesOn`.
- `JobQueue!FairSpec`: a worker that is not gone goes on with its loop, time passes. Nothing obliges
  anybody to enqueue, a heartbeat to come in time or a `/run` request to end. Under it `PendingJobTaken`
  (as long as one worker is left, which `MaxFaults = 1` of two grants) and `ClaimedJobEnds`.
- `ReviewAndClosure!FairSpec`: a request the server has begun to serve takes its next step; nothing obliges
  a client to ask or the verification to go on. Under it `PurgesEnd`, for a close that is not killed.
- `GeminiEnrichment!FairSpec`: a run takes its next step, an answer or a failure of the call included: the
  client has a timeout of 45 seconds, after which the call fails. No cooldown need ever end. Under it
  `StagesEnd`.

## 6. The proofs

`tlapm` checks every leaf; SMT and Zenon for the steps, LS4 for the temporal rule at the end of each
theorem. The assumptions are those named in the modules: `ExecutorsAssumption` (workers and requests are
different, `NoLease` is none of them), `RequestsAssumption`, `QueueAssumption` (a finite set of
requesters, and `Outcomes` are final states), `IntakeAssumption`, `TrustAssumption`, `ExtractionAssumption` (a document has a page, no key is
the value that stands for no answer), `PoolAssumption` (finitely many requests, one key at least),
`ClaimsAssumption`, `ProviderAssumption`, `PlanningAssumption` and `RunPlanningAssumption` (a value that stands
for none is not a value, pages are numbered from 1, ids are read as sets of tokens, and the bounds are numbers) and `ChoicesAssumption` (a reviewer decides for one of the
two final states); TLC evaluates them in every run.

**VerificationExecutionProofs.** `TypeCorrect` first. Mutual exclusion is not inductive as it stands: that
a second executor cannot begin while one is active rests on the status (an active executor's session is
`VERIFYING` or `ABANDONED_VERIFYING`, and neither is acquirable); that *it* stays so rests on the lease
(only the owner or the scan writes), the heartbeat (`null` until the owner initialises it, so that the
scan cannot take a session from a worker between its claim and its first beat) and on what each executor
has read. `OwnershipInv` therefore joins `TypeOK`, `SingleOwner`, `RowOK` (what the row's columns say
together: a lease only when `VERIFYING`, a verdict in every status from `PENDING_HUMAN_REVIEW` to the end of
the purge and then the latest attempt's, a heartbeat only in a session being verified or abandoned) and `ExecutorOK(e)` (what each place of an executor
knows of `seen`, `mine`, `txn`, `beating` and the row). Its step is one proof per action, with lemmas for
the kinds of step (`EndsStep`, `PipelineStep`, `CommitStep`...). From it: `MutualExclusion`,
`OwnersHoldTheSession`, `LeasesExclude`, `VerdictsAreLatest`, and, as an action property,
`TransitionsFollowTable`. `ReceiptsStayConsistent` has an invariant of its own on top, `ReceiptsInv`: an
attempt whose bundle is only flushed has no committed receipt. Its part about decisions is `DecisionInv`: a
receipt has a decision only in a session that is `Closed`, where nobody is in the pipeline, so that no
flushed bundle can follow the decided receipt (`ClosedStep`); while none has, every commit keeps it so
(`CommitsUndecided`), and the decision takes the last one.

`ExecutionImplementsOwnership` is the refinement: the initial state maps to the initial
state; under `OwnershipInv` the owner, a CHOOSE over the active executors, is *the* active executor, so
each action maps to `Begin`, `Publish`, `Fail`, `Abandon`, `Lose`, `Decide`, `Close` or a stutter.

**ReviewAndClosureProofs.** `ClosureInv` joins `TypeOK`, `RowOK`, the three properties `DecisionReceipted`,
`OnePurger` and `PurgeTracked`, and per request `ReviewOK` (a review that repeats has read the decision
taken; one about to commit has read a reviewable status) and `CloseOK`. `ReviewsBeforeCleanup`,
`DecisionsAreFinal` and the rest follow. `PurgesLeaveNothing` and `ReviewImplementsRetention` assume
`~SidecarReadFails`: with an unreadable sidecar they are false (section 7). Their own
invariant `TracesOK` says which files are gone at each place of a purge.

`ReviewKeepsOwnership` closes the circle: under `ClosureInv` every step of the routes is a `Decide`, a `Close`
or a stutter of VerificationOwnership. What it needs of the row is in `RowOK`: an owner only in `VERIFYING` or
`ABANDONED_VERIFYING`, hence in no state the routes act in, and a verdict that is either none or the latest
attempt's. With `ExecutionImplementsOwnership` it says that the two modules describe one session.

The page's properties speak of what a reviewer sees, and rest on calls that are still on their way. `PageInv`
joins `RowInv` (what the row is while the server serves a call, and that one purge and one verification at most
are being served) and `VisitInv(p)` (an accepted review call holds the decision of the row; a page shows a result
only when it is the row's). `ShownDecisionIsRecorded` follows at once. `CloseIsOfferedWhenDecided` is about the converse: what offers the
button is a workspace or a result, and neither the row, nor an answer that is on its way, nor a page is in a
state after a decision before one is taken (`Undecided`).

**JobQueueProofs.** `QueueInv`: `TypeOK`; `WorkerOK(w)` (whoever holds a job is
its `worker_id`; whoever runs has a session nobody else runs, a `/run` request included; whoever is about
to mark a job DONE has published its verdict); `JobOK(j)` (a job's status, worker and
attempts agree; a DONE job is the published one, in a status of the session that nobody verifies from any
more: `PublishedStays`); a session a `/run` request verifies is `VERIFYING`. `QueueFollowsTable` is an action
property from it: a worker that finishes and a request that ends do not look at the status again.
`ActiveJobsAreBounded` is the proof about the unguarded check: the number of active jobs of a session plus
that of the requesters about to insert one never exceeds the number of requesters, because
`FindNoActiveJob` is only enabled when the former is zero; it uses the cardinality theorems.

**UploadIntakeProofs.** `IntakeInv`: `TypeOK`, `TokenOK`, `UploadOK` (what is on disk at each place of the
handler, and that what it is about to store is inert), `SessionOK` (the accepted upload has reached its end) and
in it `DocumentOK` (its files are there; when a purge has begun, what is left of them can be found). The properties of the
run and `NeverReopened` are theorems.

**TrustVerdictProofs.** The lemma the others rest on is that `max()` has something to return: a nonempty
set of results has a maximal one in the lexicographic order (`BestExists`, by the least-element principle
on the naturals, twice), and that the one taken is maximal (`BestTaken`). `TrustInv` says of every result
that its audit status and its fields agree, and of findings and verdict that they are the functions of the
results. A result of a claim itself counts before those of others, and a GREEN
finding is of a matching one. From it `GreenDocumentsBacked`, `RedDocumentsExplained`, `WorkerLosesNoContradiction`,
`WorkerIgnoresOrder`.

**OcrExtractionProofs.** Two invariants, as engines and stages do not meet. `EngineInUseOpen` is not inductive:
a close of one thread may close the engine of another unless their engines differ. `EngineInv` divides the
open engines among the cache and the threads that own one (`HasOwn`): an own engine is open, not the cache's
and nobody else's; a shared one is the cache's. The critical step is `StoreEngine`, where the second of two
threads gives up its own engine for the cache's. `StageInv` says at each place of a thread which stages are
over (`VectorDone`, `MllmDone`, `ChatDone`), and `AnswersPredicted` that what was answered is what is published;
from them `StagesAccountedForAlways`.

**RunGraphProofs.** `RefusalsBounded` is not inductive, as calls that are under way will add refusals. `PoolInv`
says that the refusals of a key and the calls that wait for it together are no more than the requests, and
that a key that is not cooling down has had no refusal; a call begins only there, so that the bound is
re-established each time, and a refusal takes the place of the call it answers. It uses the cardinality
theorems. `ServedInv`, that a call which gave nothing has raised the flag, gives `ReadyMeansServedAlways`; silent
replacements are set apart (`SilentlyReplaced`).

The properties of DocumentClaims are about what the last nodes publish, and say nothing before. `ClaimsInv` says
at every node what has come through so far: a normalized field has the id, the value and the regions of its
source, in place; a source that is no answer of Gemini's has the id and the value of a field; a decision has
been taken on one claim, with the evidence and the finding that `DecisionInv` names; a highlight is around
evidence that a claim of its id cites, on the page of all of it (`RealRegion`), or such a claim's own region
(`HighlightsInv`). The lemmas are about the choices of the graph, a CHOOSE over
positions each: that what is chosen exists, and is the first. From it `ExtractedValuesAlwaysStand`,
`DecisionsAreOfOneClaim` and `HighlightsAlwaysBelong`.

**TaskProofs.** For ProviderAttempts, `AttemptsInv` says who may be asked when (nobody outside unless the process
is configured for it, one task at a time, within the budget, and again only after a reply that is worth
another attempt) and that a live result has a trace that bears it out (`Answers(t)`). `LiveResultsHaveEvidence`
needs the former: that a request was counted before its reply is what makes the count of a live result positive.
`TasksSettleOnce` is the action property.

For the planner, the lemmas are about lists that a comprehension makes: `InOrder(I)` enumerates a finite set of
numbers, each once and in their order (`InOrderLists`, from the cardinalities of initial segments), so that
`Those(s, I)` has exactly what `s` has at `I` (`ThoseListed`), a list without repetitions loses nothing
(`WithoutRepeatsRange`) and concatenation keeps both parts (`ConcatRange`). The properties of RunPlanning speak of
the end of a node only, each with what must hold on the way:

- `EveryResultReachesItsBundle`, by `ReachInv`: a task of the plan has a credential and a route; a result has a
  task's credential; and no later node takes a credential back. Credentials are planned at one node and tasks
  at another, so the plan adds a credential for a task that has none (`ReferencedKnown`). The rest is
  the aggregation's: a contradiction is the first in its order of priority (`ContradictionFirst`).
- `MandatoryFieldsAlwaysPlanned`, by `MandatoryInv`: ids differ from each other as long as the fields are those of
  the extraction, and the tasks are those of the groups by type. A field, one of `trust_input` too, then belongs
  to the task of its type (`TaskOfType`) and to no other (`TypeOfId`).
- `AlikeFieldsAlwaysAlikePlanned`, by `AlikeInv`. The heart of it is `DecisionByNature`: the planner's decision on
  a field depends on what it is (words, those of its id, patterns, confidence, region) and not on where it stands;
  `DedupeKeeps`, that of what is dropped as a repetition, one with the same key stays.

Only model-checked: the liveness properties (`AttemptsEnd`, `HeartbeatingSessionMovesOn`, `PurgesEnd`,
`PendingJobTaken`, `ClaimedJobEnds`, `StagesEnd`), since fairness and ENABLED are out of the prover's reach,
and what TLC refutes, which are counterexamples. Every invariant and every action property of the passing runs is
a theorem. What the rules of CredentialPlanning yield for a certain label is checked over the inputs of
the run; what a fold computes for every input would take induction over data, which is out of reach as well.

## 7. What the code does against its documents

Six are stated as formulas that TLC refutes. The first has a run, `trust_contradiction_lost`; the others are
seen by naming the formula as an INVARIANT of the configuration given (alone, as TLC stops at the first):

| formula | the code | says otherwise |
|---|---|---|
| `ContradictionIsRed` | `trust/findings.py:403` ranks by `audit_status`, which the results of the `/run` graph do not have (`graph.py:662-684` calls it `status`), so that a mismatch loses to a more confident match | `src/docs/shared_contracts_phase1.md:17-18` |
| `GreenIsVerified` (`trust.cfg`) | `trust/findings.py:394`: a claim without a result of its own takes the best of all results, so that a required claim nobody verified is GREEN by another credential's match | `src/docs/shared_contracts_phase1.md:15`, `:18` "GREEN requires verifier-backed evidence." |
| `NoSilentFallback` (`enrichment.cfg`) | `graph.py:391`: an accepted grouping without groups is replaced by the planner's own tasks, and `graph.py:199-203` a discovery without grounded claims by the extracted fields, with neither warning nor `gemini_fallback_used` | `agent_orchestration/SKILL.md:21` "No silent provider fallback" |
| `HighlightsAreReal` (`claims.cfg`, with `NamedPages = {1, 2}` and `MaxClaims = 1`) | `graph.py:1384` puts the rectangle around a claim's evidence on the page Gemini names (1 when it names none), `graph.py:1555-1581` makes one rectangle of evidence on several pages, and a decision whose text is in none of its evidence highlights that rectangle (`graph.py:871`) | `src/docs/ai/SKILL.md:134` "Never invent geometry." |
| `CloseOfferedWhenTold` (`page.cfg`) | `api/routes.py:505`: the workspace of a decided session is the one stored before the decision, and its `can_close` is still disabled | `src/frontend/src/pages/VerifyPage.jsx:778` "You can now close the session." |
| `PurgeLeavesNothing` (`review.cfg`, with `SidecarReadFails = TRUE`) | `security/pdf_validator.py:168`: an unreadable sidecar reads as `{}`, and the quarantined original outlives a purge that reports completion | `src/docs/shared_contracts_phase1.md:553` |

Others were found with the models, and have no formula:

| the code | says otherwise |
|---|---|
| `workspace.py:84`: after a failed flush of the audit bundle the handler goes on with the same database session and no rollback; completion and the failure's record are both refused and the session stays `VERIFYING` | `workspace.py:89` "workspace payload remains available." |
| `workflow/runtime.py:124`: a close killed after its first commit leaves `PENDING_CLEANUP`, from which a second close is refused and nothing resumes | `src/docs/shared_contracts_phase1.md:75` |
| `workflow/runtime.py:72` reports failed and abandoned sessions as ready for cleanup; the table has no edge for their close | `src/testing/test_api_routes.py:147` |
| `sessions/routes.py:218`: an upload writes its files before it learns that another was first, and nobody deletes them | `src/docs/shared_contracts_phase1.md:553` |
| `verifier_execution/executor.py:248-253`: a result that names no executed provider is stamped with the candidate that was tried, whether it gave evidence or not | `src/docs/generalized_verification_contracts.md:247` "the provider that actually returned evidence" |
| `verifier_providers/providers/local_mock.py:399-434`: a credential without a value is a mismatch with a record that has one, and so RED | `src/docs/shared_contracts_phase1.md:16` "AMBER covers missing evidence" |
| `src/extraction/ocr/pp_chatocr_v4.py`: a matched word without a box gives a field without a region, and no warning | `src/testing/test_pp_chatocr_v4.py:197` |

Seen while modelling, and without a run of their own: `/run` takes no lease, whereas `orchestrator.py:8-9`
says "A separate worker must acquire the strict single-session lease before processing." (`SingleOwner`
holds nevertheless); a worker whose plan gave no results makes a missing required field RED
(`trust_engine.py:43`), where the contract says AMBER; a repeated close is refused (`runtime.py:115`)
where `src/docs/shared_contracts_phase1.md:535` says "starts or confirms cleanup"; a session abandoned
from a dead worker has no way out (the table leads on to the failed states only, and only the abandoned
worker itself takes those edges), nor has one whose
`/run` request, or worker before its first heartbeat, died, as `heartbeat_at` is NULL and the scan passes
it over; a failed job is never retried by itself (`orchestrator.py:17`). A purge whose last transaction fails in the
database is not rolled back (`runtime.py:151-164`): where the failed statement leaves the transaction aborted,
the record of the failure raises too, the close is answered 500 and the session stays `PENDING_CLEANUP` with
its files gone.

Less than a disagreement, but worth knowing:

- *Page.* The hook polls while a workspace is not terminal, but the backend stores none such; closing leads
  away from the page also when the purge failed; a first load that fails is not repeated; a reload of a
  decided session offers the review again (`reviewCompleted` is the page's own, `VerifyPage.jsx:658`), and
  the same decision given twice writes the receipt anew (`routes.py:422-431`).
- *Providers.* A trace's `retry_count` is 0 when all retries failed; after a technical failure of a provider
  the next candidate is not asked, though the default policy is called `SUPPLEMENTARY_THEN_LOCAL_MOCK`;
  `VERIFIER_LIVE_PROVIDER_ENABLED` turns a requested `LOCAL_MOCK` into `EXTERNAL_CONFIGURED`; a blocked domain
  is traced like an ordinary HTTP failure; the operating mode is not stored; `certificate` claims of the graph
  have no verifier.
- *Gemini.* A rate limit in discovery is reported as a failed inference, one in the normalisation without a
  quota warning; a document without evidence skips discovery without the fallback flag (`graph.py:167-172`).
- *Claims.* The value of a grounded claim need not occur in its evidence; a value of symbols only matches any
  text; a decision has the label, the status and the confidence of the finding of its own claim, and the
  value and the evidence of the last claim of its id (`graph.py:601-603`, `699-716`), which are two claims
  where ids are repeated.
- *Extraction.* Threads share one engine without a lock; the evidence of a value found nowhere is the first
  line; a key that both models answer makes two fields; the page count is the last page with content;
  a page whose answer is no mapping is passed over without a warning (`pp_chatocr_v4.py:119-121`, `161`); a
  structured answer without a value, on an earlier page, hides the value of a later one (`442-448`,
  `900-912`).
- *Upload.* Markers such as `/JS` and `/AA` are searched in the raw bytes (`pdf_validator.py:18-29`), so that
  the compressed data of a harmless document, or of its flattened copy, may be refused by chance.
- *Planning.* Composite claim types and some categories have neither verifier nor provider and always end in
  manual review; fields that are discarded anchor others all the same, and a student's name anchors itself;
  in `/run` the planner's own credentials have no task, and their bundles say so; groups with one id share
  the route of the last; two claims of one id make two credentials of one id; a
  group's task routed to manual review is not marked as recommended for it (`graph.py:504`); the ids of fields
  are searched for words like their labels (`planner.py:899-903`), so that of two fields which differ in
  their ids only one may be planned.

## 8. Abstractions

- *Statements and transactions.* Postgres at READ COMMITTED: an UPDATE re-evaluates its WHERE on the
  current row and holds its lock until the transaction ends, so UPDATE and COMMIT are one action; a SELECT
  is another. A step that changes nothing (a refused lease, a 409 of the execution routes) is no action.
- *VerificationExecution.* The route's own first read and `transition_state()`'s SELECT are one read. The
  stages either return or raise one of their error types. `_HeartbeatRunner.__exit__` waits one second for
  its thread; a tick after that is left out here, and modelled for the job's heartbeat in JobQueue. An
  attempt's outcome is the number of the attempt.
- *ReviewAndClosure.* The bundle's `trust_outcome` names its attempt. A session may also begin in one of
  the VERIFIED_ states of earlier versions. A close deletes three files at most; `unlink()` may raise at
  each, and the database may be lost at the end.
- *JobQueue.* A session is its status: the lease may also be refused because the row changed between
  SELECT and UPDATE; which VERIFYING sessions a stale scan takes is left open; a killed `/run` request
  stays in `requests` for ever. The order of `created_at` is that of the commits.
- *UploadIntake.* Files are named by the upload and the part, as their names are uuids. The transition to
  `UPLOAD_PENDING` is one action, since no session returns to `CREATED`. A PDF is valid or not and active
  or not. The rest of the session's life is `Proceed`, `DeletePart`
  (one file of a purge) and `Purge` (its last commit). Routes that only read are left out.
- *TrustVerdict.* A confidence is a level; a list of matched or mismatched fields is whether it is empty.
  External connectors return nothing in this repository (`build_connector_responses()` returns `[]`). The
  worker's policy always has four required fields, so there is at least one claim, and the branches for
  an empty finding list are unreachable. Without task results the worker goes by the confidence of the
  extraction, `.65 c + .10`, which is below `0.80` for every `c` in `[0, 1]`: no field is GREEN. Reason
  codes and labels are left out.

- *OcrExtraction.* A document is its number of pages; what a model reads is a set of keys; a key is found on a
  page, put on a layout block or nowhere. The lock of the cache makes `LookUp` and `StoreEngine` atomic.
  `reset_pp_chatocr_engine_cache_for_tests()` is left out, as only tests call it.
- *GeminiEnrichment.* The pool's index is read and written without a lock, so that an increment may be lost.
  What Gemini says is whether it is usable and whether it names claims or groups. Environments in which no key is
  configured are those without Gemini.
- *DocumentClaims.* A text is the set of its words. Confidences, reasons and the wording of summaries are left
  out. Evidence has at most one
  box; a rectangle is the boxes it was made of and a page, and what else stands inside it is not told. Fields
  which Gemini's normalisation leaves out keep the reading of the extraction. The instance of `claims` has one
  page for Gemini to name.
- *CredentialPlanning, RunPlanning.* The type of a document is its family; labels are token sets, so that two
  tokens side by side are not told from two apart, and so are ids; the canonical labels of Gemini's normalisation
  do not change a group's type; assurance levels, `is_pii` and descriptions are left out.
  What a task finds is chosen here, and computed in ProviderAttempts.
- *ProviderAttempts.* Values are compared up to the code's normalisation; the store is what records the route
  of a task reaches; `academic_registry_http` is `identity_http` for another claim. Payloads carry no field
  values but the one compared (`_safe_task_payload`).
- *WorkspacePage.* A payload is the status it was made with. Verification and purge of the backend are one
  step here, as their own modules cover them. The server takes the calls in any order.

## 9. Not modelled, and the plan

The table at the end of section 1 lists what is left out and why. Of the program's own logic that is: the
masking of payloads and the redaction of logs (regular expressions over strings), the older extractors (not
reached by the backend), `verification_domain/routing.py` and the getters of its service (called by tests
only), and registration. What remains worth doing:

1. *One statement about a document* from upload to purge: that what UploadIntake leaves is where
   DocumentRetention begins, as VerificationOwnership is what the verification and the review share.
2. *From a task to the verdict*: that the plan of RunPlanning and the results of ProviderAttempts are
   inputs of TrustVerdict, as a refinement, so that a contradiction which a provider finds can be followed
   to the colour of the document in one theorem.
3. *Redaction* as a recursive function over small trees, in a module without theorems.
