------------------------------- MODULE JobQueue -------------------------------
(***************************************************************************)
(* The queue of verification jobs and the worker loop that serves it.      *)
(*   backend/app/workflow/job_queue.py    enqueue, dequeue, terminal marks  *)
(*   backend/app/worker/worker.py         run_worker, JobHeartbeat          *)
(* Several worker processes poll one table.  What a worker does within a    *)
(* session is VerificationExecution's concern: here a session is its status *)
(* column, which leases, /run requests, the stale scan, the review and the  *)
(* closing move.  An UPDATE and the COMMIT that follows it are one action.  *)
(***************************************************************************)
EXTENDS Naturals, Sequences, FiniteSets, SessionStates

CONSTANTS Workers,      \* worker processes: an identity is used once
          NoWorker,     \* worker_id IS NULL
          Requesters,   \* threads that call trigger_processing()
          Sessions,
          Outcomes,     \* bound: the final states reviewers bring about
          MaxJobs,      \* bound: rows of verification_jobs
          MaxFaults     \* bound: crashes and lost database connections

ASSUME QueueAssumption ==
    /\ NoWorker \notin Workers
    /\ IsFiniteSet(Requesters)
    /\ Outcomes \subseteq HUMAN_FINAL_STATES
    /\ MaxJobs \in Nat
    /\ MaxFaults \in Nat

VARIABLES jobs,         \* the committed rows of verification_jobs, oldest first
          status,       \* of each session
          verdict,      \* the job whose worker published it, 0: none (history)
          requests,     \* sessions a /run request is verifying
          enqueuing,    \* the session a requester has found no active job of
          pc, held,     \* of each worker: its place in the loop, the job it read
          beating,      \* of each worker: the jobs it has a JobHeartbeat thread for
          faults        \* faults so far (bound)

sessionVars == <<status, verdict, requests>>
workerVars == <<pc, held, beating>>
vars == <<jobs, sessionVars, enqueuing, workerVars, faults>>

-----------------------------------------------------------------------------

ACTIVE_JOB_STATUSES == {"PENDING", "PROCESSING"}
TERMINAL_JOB_STATUSES == {"DONE", "FAILED", "SKIPPED"}

VerificationJob ==
    [session_id : Sessions,
     status : ACTIVE_JOB_STATUSES \cup TERMINAL_JOB_STATUSES,
     worker_id : Workers \cup {NoWorker},
     attempts : Nat,
     heartbeat_at : {"NULL", "fresh", "old"}]

\* Places of a worker in its loop, those in which it owns the job it dequeued first.
Holding == {"leasing", "skipping", "running", "finishing", "failing"}
Places == {"scanning", "expiring", "dequeuing", "claiming", "gone"} \cup Holding

TypeOK ==
    /\ jobs \in Seq(VerificationJob)
    /\ status \in [Sessions -> SessionState]
    /\ verdict \in [Sessions -> Nat]
    /\ requests \subseteq Sessions
    /\ enqueuing \in [Requesters -> SUBSET Sessions]
    /\ pc \in [Workers -> Places]
    /\ held \in [Workers -> 0..Len(jobs)]
    /\ \A w \in Workers : pc[w] \in Holding \cup {"claiming"} => held[w] # 0
    /\ beating \in [Workers -> SUBSET (1..Len(jobs))]
    /\ faults \in Nat

Init ==
    /\ jobs = <<>>
    /\ status = [s \in Sessions |-> "UPLOADED_PENDING_REVIEW"]
    /\ verdict = [s \in Sessions |-> 0]
    /\ requests = {}
    /\ enqueuing = [q \in Requesters |-> {}]
    /\ pc = [w \in Workers |-> "scanning"]
    /\ held = [w \in Workers |-> 0]
    /\ beating = [w \in Workers |-> {}]
    /\ faults = 0

Goes(w, place) == pc' = [pc EXCEPT ![w] = place]

\* The next iteration of the loop.
NextIteration(w) ==
    /\ Goes(w, "scanning")
    /\ held' = [held EXCEPT ![w] = 0]

Job(w) == jobs[held[w]]
SessionOf(w) == Job(w).session_id

-----------------------------------------------------------------------------
(* Enqueueing                                                              *)

\* enqueue_job() found no active job of the session: it will insert one.
FindNoActiveJob(q, s) ==
    /\ enqueuing[q] = {}
    /\ \A j \in DOMAIN jobs :
          jobs[j].session_id = s => jobs[j].status \notin ACTIVE_JOB_STATUSES
    /\ enqueuing' = [enqueuing EXCEPT ![q] = {s}]
    /\ UNCHANGED <<jobs, sessionVars, workerVars, faults>>

\* The INSERT, or its failure, which trigger_processing() rolls back.
InsertJob(q) ==
    /\ \E s \in enqueuing[q] :
          \/ /\ Len(jobs) < MaxJobs
             /\ jobs' = Append(jobs, [session_id |-> s, status |-> "PENDING",
                                      worker_id |-> NoWorker, attempts |-> 0,
                                      heartbeat_at |-> "NULL"])
          \/ UNCHANGED jobs
    /\ enqueuing' = [enqueuing EXCEPT ![q] = {}]
    /\ UNCHANGED <<sessionVars, workerVars, faults>>

-----------------------------------------------------------------------------
(* The worker loop                                                         *)

\* mark_stale_sessions(): of the sessions a worker leased, those whose heartbeat is
\* old; which ones that is, is left open here.
ScanSessions(w) ==
    /\ pc[w] = "scanning"
    /\ \E stale \in SUBSET {s \in Sessions \ requests : status[s] = "VERIFYING"} :
          status' = [s \in Sessions |->
                        IF s \in stale THEN "ABANDONED_VERIFYING" ELSE status[s]]
    /\ Goes(w, "expiring")
    /\ UNCHANGED <<jobs, verdict, requests, enqueuing, held, beating, faults>>

\* mark_stale_processing_jobs_failed()
ExpireJobs(w) ==
    /\ pc[w] = "expiring"
    /\ jobs' = [j \in DOMAIN jobs |->
                  IF jobs[j].status = "PROCESSING" /\ jobs[j].heartbeat_at = "old"
                  THEN [jobs[j] EXCEPT !.status = "FAILED"]
                  ELSE jobs[j]]
    /\ Goes(w, "dequeuing")
    /\ UNCHANGED <<sessionVars, enqueuing, held, beating, faults>>

\* The values of the UPDATE of dequeue_job().
Claimed(job, w) ==
    [job EXCEPT !.status = "PROCESSING", !.worker_id = w, !.attempts = job.attempts + 1,
                !.heartbeat_at = "fresh"]

\* The SELECT of dequeue_job(): the oldest pending job, or a pause.
ReadOldestPending(w) ==
    /\ pc[w] = "dequeuing"
    /\ LET pending == {j \in DOMAIN jobs : jobs[j].status = "PENDING"}
       IN  \/ /\ \E j \in pending :
                    /\ \A i \in pending : j <= i
                    /\ held' = [held EXCEPT ![w] = j]
              /\ Goes(w, "claiming")
           \/ /\ pending = {}
              /\ NextIteration(w)
    /\ UNCHANGED <<jobs, sessionVars, enqueuing, beating, faults>>

\* Mutant: the first read is not compared with the row again.
ClaimJobUnguarded(w) ==
    /\ pc[w] = "claiming"
    /\ jobs' = [jobs EXCEPT ![held[w]] = Claimed(@, w)]
    /\ Goes(w, "leasing")
    /\ UNCHANGED <<sessionVars, enqueuing, held, beating, faults>>

\* Mutant: heartbeat_at is left to the heartbeat thread.
ClaimJobWithoutHeartbeat(w) ==
    /\ pc[w] = "claiming"
    /\ \/ /\ Job(w).status = "PENDING"
          /\ jobs' = [jobs EXCEPT ![held[w]] =
                        [@ EXCEPT !.status = "PROCESSING", !.worker_id = w,
                                  !.attempts = @ + 1]]
          /\ Goes(w, "leasing")
          /\ UNCHANGED held
       \/ /\ Job(w).status # "PENDING"
          /\ NextIteration(w)
          /\ UNCHANGED jobs
    /\ UNCHANGED <<sessionVars, enqueuing, beating, faults>>

\* The UPDATE of dequeue_job(): only one worker finds the job still pending.
ClaimJob(w) ==
    /\ pc[w] = "claiming"
    /\ \/ /\ Job(w).status = "PENDING"
          /\ jobs' = [jobs EXCEPT ![held[w]] = Claimed(@, w)]
          /\ Goes(w, "leasing")
          /\ UNCHANGED held
       \/ /\ Job(w).status # "PENDING"
          /\ NextIteration(w)
          /\ UNCHANGED jobs
    /\ UNCHANGED <<sessionVars, enqueuing, beating, faults>>

\* Mutant: a lease is taken without a look at the session.
AcquireLeaseOfAnyStatus(w) ==
    /\ pc[w] = "leasing"
    /\ status' = [status EXCEPT ![SessionOf(w)] = "VERIFYING"]
    /\ Goes(w, "running")
    /\ beating' = [beating EXCEPT ![w] = @ \cup {held[w]}]
    /\ UNCHANGED <<jobs, verdict, requests, enqueuing, held, faults>>

\* acquire_lease(), and the start of JobHeartbeat.  The lease is also refused when
\* the session was acquirable at the SELECT and has changed at the UPDATE.
AcquireLease(w) ==
    /\ pc[w] = "leasing"
    /\ \/ /\ status[SessionOf(w)] \in LEASE_ACQUIRABLE_STATES
          /\ status' = [status EXCEPT ![SessionOf(w)] = "VERIFYING"]
          /\ Goes(w, "running")
          /\ beating' = [beating EXCEPT ![w] = @ \cup {held[w]}]
       \/ /\ Goes(w, "skipping")
          /\ UNCHANGED <<status, beating>>
    /\ UNCHANGED <<jobs, verdict, requests, enqueuing, held, faults>>

\* run_worker_pipeline() returns: it has published the verdict.
PipelineReturns(w) ==
    /\ pc[w] = "running"
    /\ status[SessionOf(w)] = "VERIFYING"
    /\ status' = [status EXCEPT ![SessionOf(w)] = "PENDING_HUMAN_REVIEW"]
    /\ verdict' = [verdict EXCEPT ![SessionOf(w)] = held[w]]
    /\ Goes(w, "finishing")
    /\ UNCHANGED <<jobs, requests, enqueuing, held, beating, faults>>

\* Mutant: a failure of the pipeline is not raised.
PipelineRaisesSwallowed(w) ==
    /\ pc[w] = "running"
    /\ \E new \in {"FAILED_RETRIABLE", "FAILED_PURGED"} :
          /\ ValidTransition(status[SessionOf(w)], new)
          /\ status' = [status EXCEPT ![SessionOf(w)] = new]
    /\ Goes(w, "finishing")
    /\ UNCHANGED <<jobs, verdict, requests, enqueuing, held, beating, faults>>

\* It raises: it has recorded the failure of the attempt, or could not.
PipelineRaises(w) ==
    /\ pc[w] = "running"
    /\ \/ UNCHANGED status
       \/ \E new \in {"FAILED_RETRIABLE", "FAILED_PURGED"} :
             /\ ValidTransition(status[SessionOf(w)], new)
             /\ status' = [status EXCEPT ![SessionOf(w)] = new]
    /\ Goes(w, "failing")
    /\ UNCHANGED <<jobs, verdict, requests, enqueuing, held, beating, faults>>

\* _mark_terminal(): by the id of the job alone.
MarkTerminal(w, new) ==
    /\ jobs' = [jobs EXCEPT ![held[w]] = [@ EXCEPT !.status = new, !.heartbeat_at = "NULL"]]
    /\ NextIteration(w)
    /\ UNCHANGED <<sessionVars, enqueuing, beating, faults>>

MarkJobSkipped(w) == pc[w] = "skipping" /\ MarkTerminal(w, "SKIPPED")
MarkJobDone(w) == pc[w] = "finishing" /\ MarkTerminal(w, "DONE")

\* Mutant: the worker ends with the job that failed.
MarkJobFailedAndStop(w) ==
    /\ pc[w] = "failing"
    /\ jobs' = [jobs EXCEPT ![held[w]] = [@ EXCEPT !.status = "FAILED", !.heartbeat_at = "NULL"]]
    /\ Goes(w, "gone")
    /\ held' = [held EXCEPT ![w] = 0]
    /\ UNCHANGED <<sessionVars, enqueuing, beating, faults>>

MarkJobFailed(w) == pc[w] = "failing" /\ MarkTerminal(w, "FAILED")

-----------------------------------------------------------------------------
(* Heartbeats, requests to /run, faults                                    *)

\* JobHeartbeat._run(): the thread ends when the job is not its worker's any more,
\* when the database fails, or when it is told to stop, which may be after a last
\* heartbeat: __exit__ waits for it one second only.
Beat(w, j) ==
    /\ j \in beating[w]
    /\ \/ /\ jobs[j].worker_id = w
          /\ jobs[j].status = "PROCESSING"
          /\ jobs' = [jobs EXCEPT ![j] = [@ EXCEPT !.heartbeat_at = "fresh"]]
          /\ \/ pc[w] = "running" /\ held[w] = j /\ UNCHANGED beating
             \/ beating' = [beating EXCEPT ![w] = @ \ {j}]
       \/ /\ beating' = [beating EXCEPT ![w] = @ \ {j}]
          /\ UNCHANGED jobs
    /\ UNCHANGED <<sessionVars, enqueuing, pc, held, faults>>

\* The timeout passes without a heartbeat.
HeartbeatAges(j) ==
    /\ j \in DOMAIN jobs
    /\ jobs[j].heartbeat_at = "fresh"
    /\ jobs' = [jobs EXCEPT ![j] = [@ EXCEPT !.heartbeat_at = "old"]]
    /\ UNCHANGED <<sessionVars, enqueuing, workerVars, faults>>

\* A /run request begins an attempt without a job and without a lease.
RequestRuns(s) ==
    /\ status[s] \in LEASE_ACQUIRABLE_STATES
    /\ status' = [status EXCEPT ![s] = "VERIFYING"]
    /\ requests' = requests \cup {s}
    /\ UNCHANGED <<jobs, verdict, enqueuing, workerVars, faults>>

\* It ends as its pipeline does.  One that is killed never does: the session stays
\* VERIFYING without a lease, which the stale scan passes over.
RequestEnds(s) ==
    /\ s \in requests
    /\ requests' = requests \ {s}
    /\ \E new \in {"PENDING_HUMAN_REVIEW", "FAILED_RETRIABLE", "FAILED_PURGED"} :
          status' = [status EXCEPT ![s] = new]
    /\ UNCHANGED <<jobs, verdict, enqueuing, workerVars, faults>>

\* The review-decision and close routes: any step of the table from a verdict on.
ReviewAdvances(s) ==
    /\ status[s] \in Verdicted
    /\ \E new \in SessionState :
          /\ ValidTransition(status[s], new)
          /\ new \in HUMAN_FINAL_STATES => new \in Outcomes
          /\ status' = [status EXCEPT ![s] = new]
    /\ UNCHANGED <<jobs, verdict, requests, enqueuing, workerVars, faults>>

\* The database fails a worker.  What it holds is the job dequeue_job() returned: a
\* job whose claim was committed but could not be read back is nobody's.
DatabaseFails(w) ==
    /\ faults < MaxFaults
    /\ faults' = faults + 1
    /\ \/ /\ pc[w] \in {"dequeuing", "claiming", "failing"}
          /\ NextIteration(w)
          /\ UNCHANGED jobs
       \/ /\ pc[w] = "claiming"
          /\ Job(w).status = "PENDING"
          /\ jobs' = [jobs EXCEPT ![held[w]] = Claimed(@, w)]
          /\ NextIteration(w)
       \/ /\ pc[w] \in {"leasing", "skipping", "finishing"}
          /\ Goes(w, "failing")
          /\ UNCHANGED <<jobs, held>>
    /\ UNCHANGED <<sessionVars, enqueuing, beating>>

\* The process ends: it is killed, it is told to stop at the head of its loop, or its
\* stale scan raises, which nothing catches.
Crash(w) ==
    /\ pc[w] # "gone"
    /\ faults < MaxFaults
    /\ faults' = faults + 1
    /\ Goes(w, "gone")
    /\ held' = [held EXCEPT ![w] = 0]
    /\ beating' = [beating EXCEPT ![w] = {}]
    /\ UNCHANGED <<jobs, sessionVars, enqueuing>>

-----------------------------------------------------------------------------

\* An iteration of run_worker().
Iterate(w) ==
    \/ ScanSessions(w) \/ ExpireJobs(w) \/ ReadOldestPending(w) \/ ClaimJob(w)
    \/ AcquireLease(w) \/ PipelineReturns(w) \/ PipelineRaises(w)
    \/ MarkJobSkipped(w) \/ MarkJobDone(w) \/ MarkJobFailed(w)

Next ==
    \/ \E q \in Requesters, s \in Sessions : FindNoActiveJob(q, s)
    \/ \E q \in Requesters : InsertJob(q)
    \/ \E w \in Workers : Iterate(w) \/ DatabaseFails(w) \/ Crash(w)
    \/ \E w \in Workers, j \in 1..MaxJobs : Beat(w, j)
    \/ \E j \in 1..MaxJobs : HeartbeatAges(j)
    \/ \E s \in Sessions : RequestRuns(s) \/ RequestEnds(s) \/ ReviewAdvances(s)

Spec == Init /\ [][Next]_vars

\* Workers go on with their loop and time passes.  Nothing obliges anybody to
\* enqueue, a heartbeat thread to beat in time or a request to end.
Fairness ==
    /\ \A w \in Workers : WF_vars(Iterate(w))
    /\ \A j \in 1..MaxJobs : WF_vars(HeartbeatAges(j))

FairSpec == Spec /\ Fairness

-----------------------------------------------------------------------------
(* Properties                                                              *)

\* A job is claimed by one worker, once: that worker alone may end it, and until it
\* does the job is PROCESSING, or FAILED by a scan that took it for dead.
ClaimedOnce ==
    /\ \A w \in Workers : pc[w] \in Holding =>
          Job(w).worker_id = w /\ Job(w).status \in {"PROCESSING", "FAILED"}
    /\ \A j \in DOMAIN jobs :
          /\ jobs[j].status = "PENDING" <=> jobs[j].worker_id = NoWorker
          /\ jobs[j].attempts = IF jobs[j].status = "PENDING" THEN 0 ELSE 1

\* A session is verified for one job at a time, although two requesters may enqueue
\* two jobs of it, and never while a /run request verifies it.
OneJobRuns ==
    \A w \in Workers : pc[w] = "running" =>
        /\ SessionOf(w) \notin requests
        /\ \A v \in Workers :
              pc[v] = "running" /\ SessionOf(v) = SessionOf(w) => v = w

\* A job is DONE only if its own worker published the verdict of its session, and it
\* stays so after the review and the closing: a session has one DONE job at most.
DoneMeansVerified ==
    \A j \in DOMAIN jobs : jobs[j].status = "DONE" =>
        /\ verdict[jobs[j].session_id] = j
        /\ status[jobs[j].session_id] \in Verdicted \cup {"FAILED_PURGED"}

ActiveJobsOf(s) ==
    {j \in DOMAIN jobs : jobs[j].session_id = s /\ jobs[j].status \in ACTIVE_JOB_STATUSES}

EnqueuersOf(s) == {q \in Requesters : s \in enqueuing[q]}

\* enqueue_job() may give a session several active jobs, but never more than there are
\* requesters, however often they ask: those that are about to insert one included.
ActiveJobsBounded ==
    \A s \in Sessions :
        Cardinality(ActiveJobsOf(s)) + Cardinality(EnqueuersOf(s)) <= Cardinality(Requesters)

\* A job that ended never becomes active again, keeps its worker, and changes its
\* outcome only when a worker that a scan took for dead reports after all.
JobsMoveForward ==
    [][\A j \in DOMAIN jobs : jobs[j].status \in TERMINAL_JOB_STATUSES =>
          /\ jobs'[j].status \in TERMINAL_JOB_STATUSES
          /\ jobs'[j].worker_id = jobs[j].worker_id
          /\ jobs'[j].status # jobs[j].status => jobs[j].status = "FAILED"]_vars

\* Jobs, /run requests, the stale scan and the review move one status column without a
\* common lock: still, each step of it is an edge of ALLOWED_TRANSITIONS.
StatusFollowsTable ==
    [][\A s \in Sessions : status'[s] # status[s] => ValidTransition(status[s], status'[s])]_vars

Has(j, statuses) == j \in DOMAIN jobs /\ jobs[j].status \in statuses

\* A pending job is taken, as long as one worker is left.
PendingJobTaken ==
    \A j \in 1..MaxJobs :
        Has(j, {"PENDING"}) ~> Has(j, {"PROCESSING"} \cup TERMINAL_JOB_STATUSES)

\* A job somebody took ends, although its worker may crash before its first heartbeat.
ClaimedJobEnds ==
    \A j \in 1..MaxJobs : Has(j, {"PROCESSING"}) ~> Has(j, TERMINAL_JOB_STATUSES)
=============================================================================
