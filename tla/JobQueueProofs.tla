---------------------------- MODULE JobQueueProofs ----------------------------
(***************************************************************************)
(* Proofs about JobQueue, for any number of workers, requesters, sessions   *)
(* and jobs: its type invariant, that a job is claimed once, that a session *)
(* is verified for one job at a time, what DONE means, and that jobs never  *)
(* return from a terminal status.                                          *)
(*                                                                          *)
(* The inductive invariant QueueInv says of every worker what it knows of    *)
(* the job it holds and of the session of that job, and of every row that    *)
(* worker_id is set exactly by the claim: a worker that marks a job by its   *)
(* id alone therefore marks its own.                                        *)
(***************************************************************************)
EXTENDS JobQueue, FiniteSetTheorems, SequenceTheorems, TLAPS

-----------------------------------------------------------------------------
(* The inductive invariant                                                 *)

\* The statuses a session may have after its verdict.
Published == Verdicted \cup {"FAILED_PURGED"}

WorkerOK(w) ==
    /\ pc[w] \in Holding =>
          Job(w).worker_id = w /\ Job(w).status \in {"PROCESSING", "FAILED"}
    /\ pc[w] = "running" =>
          /\ status[SessionOf(w)] \in {"VERIFYING", "ABANDONED_VERIFYING"}
          /\ SessionOf(w) \notin requests
          /\ \A v \in Workers :
                pc[v] = "running" /\ SessionOf(v) = SessionOf(w) => v = w
    /\ pc[w] = "finishing" =>
          /\ status[SessionOf(w)] \in Published
          /\ verdict[SessionOf(w)] = held[w]

JobOK(j) ==
    /\ jobs[j].status = "PENDING" <=> jobs[j].worker_id = NoWorker
    /\ jobs[j].attempts = IF jobs[j].status = "PENDING" THEN 0 ELSE 1
    /\ jobs[j].status = "DONE" =>
          /\ verdict[jobs[j].session_id] = j
          /\ status[jobs[j].session_id] \in Published

QueueInv ==
    /\ TypeOK
    /\ \A w \in Workers : WorkerOK(w)
    /\ \A j \in DOMAIN jobs : JobOK(j)
    /\ \A s \in requests : status[s] = "VERIFYING"

-----------------------------------------------------------------------------
(* Statuses                                                                *)

\* A session with a verdict is neither being verified nor may be again: the table
\* leads from its statuses to no other (workflow/state_machine.py:6).
LEMMA PublishedStays ==
  /\ \A s \in Published :
        s \notin LEASE_ACQUIRABLE_STATES \cup {"VERIFYING", "ABANDONED_VERIFYING"}
  /\ \A s \in Verdicted, new \in SessionState : ValidTransition(s, new) => new \in Published
<1>1. \A s \in Published :
         s \notin LEASE_ACQUIRABLE_STATES \cup {"VERIFYING", "ABANDONED_VERIFYING"}
  BY DEF Published, Verdicted, HUMAN_FINAL_STATES, LEASE_ACQUIRABLE_STATES
<1>2. ASSUME NEW s \in Verdicted, NEW new \in SessionState, ValidTransition(s, new)
      PROVE  new \in Published
  BY <1>2 DEF Published, Verdicted, HUMAN_FINAL_STATES, VERIFIED_STATES, LEASE_ACQUIRABLE_STATES,
              ValidTransition, ALLOWED_TRANSITIONS
<1> QED
  BY <1>1, <1>2

-----------------------------------------------------------------------------
(* Types                                                                   *)

\* The job a worker holds, or is about to claim, is a row.
LEMMA HeldJob ==
  ASSUME TypeOK, NEW w \in Workers, pc[w] \in Holding \cup {"claiming"}
  PROVE  /\ held[w] \in DOMAIN jobs
         /\ Job(w) \in VerificationJob
         /\ SessionOf(w) \in Sessions
<1>1. Len(jobs) \in Nat /\ DOMAIN jobs = 1..Len(jobs)
  BY LenProperties DEF TypeOK
<1>2. held[w] \in 1..Len(jobs)
  BY <1>1 DEF TypeOK
<1>3. jobs[held[w]] \in VerificationJob
  BY <1>2, ElementOfSeq DEF TypeOK
<1> QED
  BY <1>1, <1>2, <1>3 DEF Job, SessionOf, VerificationJob

\* An UPDATE of one row.
LEMMA RowUpdated ==
  ASSUME TypeOK, NEW j \in DOMAIN jobs, NEW row \in VerificationJob,
         jobs' = [jobs EXCEPT ![j] = row]
  PROVE  /\ jobs' \in Seq(VerificationJob)
         /\ Len(jobs') = Len(jobs)
         /\ DOMAIN jobs' = DOMAIN jobs
         /\ jobs'[j] = row
         /\ \A i \in DOMAIN jobs : i # j => jobs'[i] = jobs[i]
  BY DEF TypeOK

\* A worker goes on with the job it holds.
LEMMA LoopMoves ==
  ASSUME TypeOK, NEW w \in Workers, NEW place \in Places, Goes(w, place), held' = held,
         place \in Holding \cup {"claiming"} => held[w] # 0
  PROVE  /\ pc' \in [Workers -> Places]
         /\ pc'[w] = place
         /\ \A v \in Workers : v # w => pc'[v] = pc[v]
         /\ held' \in [Workers -> 0..Len(jobs)]
         /\ \A v \in Workers : pc'[v] \in Holding \cup {"claiming"} => held'[v] # 0
  BY DEF TypeOK, Goes

\* A worker ends an iteration.
LEMMA LoopEnds ==
  ASSUME TypeOK, NEW w \in Workers, NEW place \in {"scanning", "gone"}, Goes(w, place),
         held' = [held EXCEPT ![w] = 0]
  PROVE  /\ pc' \in [Workers -> Places]
         /\ pc'[w] = place
         /\ pc'[w] \notin Holding
         /\ \A v \in Workers : v # w => pc'[v] = pc[v] /\ held'[v] = held[v]
         /\ held' \in [Workers -> 0..Len(jobs)]
         /\ \A v \in Workers : pc'[v] \in Holding \cup {"claiming"} => held'[v] # 0
<1>1. pc' \in [Workers -> Places] /\ pc'[w] = place /\ \A v \in Workers : v # w => pc'[v] = pc[v]
  BY DEF TypeOK, Goes, Places
<1>2. Len(jobs) \in Nat
  BY LenProperties DEF TypeOK
<1>3. /\ held' \in [Workers -> 0..Len(jobs)]
      /\ \A v \in Workers : v # w => held'[v] = held[v]
  BY <1>2 DEF TypeOK
<1>4. pc'[w] \notin Holding \cup {"claiming"}
  BY <1>1 DEF Holding
<1> QED
  BY <1>1, <1>3, <1>4 DEF TypeOK

LEMMA IterationEnds ==
  ASSUME TypeOK, NEW w \in Workers, NextIteration(w)
  PROVE  /\ pc' \in [Workers -> Places]
         /\ pc'[w] = "scanning"
         /\ pc'[w] \notin Holding
         /\ \A v \in Workers : v # w => pc'[v] = pc[v] /\ held'[v] = held[v]
         /\ held' \in [Workers -> 0..Len(jobs)]
         /\ \A v \in Workers : pc'[v] \in Holding \cup {"claiming"} => held'[v] # 0
<1>1. Goes(w, "scanning") /\ held' = [held EXCEPT ![w] = 0]
  BY DEF NextIteration
<1> QED
  BY <1>1, LoopEnds

\* What has to be shown of a step to keep the types: the table only grows.
LEMMA TypeFrom ==
  ASSUME TypeOK,
         jobs' \in Seq(VerificationJob), Len(jobs') >= Len(jobs),
         status' \in [Sessions -> SessionState],
         verdict' \in [Sessions -> Nat],
         requests' \subseteq Sessions,
         enqueuing' \in [Requesters -> SUBSET Sessions],
         pc' \in [Workers -> Places],
         held' \in [Workers -> 0..Len(jobs)],
         \A v \in Workers : pc'[v] \in Holding \cup {"claiming"} => held'[v] # 0,
         beating' \in [Workers -> SUBSET (1..Len(jobs))],
         faults' \in Nat
  PROVE  TypeOK'
<1>1. Len(jobs) \in Nat /\ Len(jobs') \in Nat
  BY LenProperties DEF TypeOK
<1>2. 0..Len(jobs) \subseteq 0..Len(jobs') /\ 1..Len(jobs) \subseteq 1..Len(jobs')
  BY <1>1
<1>3. held' \in [Workers -> 0..Len(jobs')]
  BY <1>2
<1>4. beating' \in [Workers -> SUBSET (1..Len(jobs'))]
  BY <1>2
<1> QED
  BY <1>3, <1>4 DEF TypeOK

\* The UPDATE of dequeue_job().
LEMMA ClaimTyped ==
  ASSUME TypeOK, NEW w \in Workers, pc[w] = "claiming",
         jobs' = [jobs EXCEPT ![held[w]] = Claimed(@, w)]
  PROVE  /\ held[w] \in DOMAIN jobs
         /\ jobs' \in Seq(VerificationJob)
         /\ Len(jobs') = Len(jobs)
         /\ DOMAIN jobs' = DOMAIN jobs
         /\ jobs'[held[w]].status = "PROCESSING"
         /\ jobs'[held[w]].worker_id = w
         /\ jobs'[held[w]].attempts = jobs[held[w]].attempts + 1
         /\ jobs'[held[w]].session_id = jobs[held[w]].session_id
         /\ \A i \in DOMAIN jobs : i # held[w] => jobs'[i] = jobs[i]
<1> DEFINE row == Claimed(jobs[held[w]], w)
<1>1. held[w] \in DOMAIN jobs /\ jobs[held[w]] \in VerificationJob
  BY HeldJob DEF Job
<1>2. /\ row \in VerificationJob
      /\ row.status = "PROCESSING" /\ row.worker_id = w
      /\ row.attempts = jobs[held[w]].attempts + 1
      /\ row.session_id = jobs[held[w]].session_id
  <2>1. jobs[held[w]].attempts + 1 \in Nat
    BY <1>1 DEF VerificationJob
  <2>2. row \in VerificationJob
    BY <1>1, <2>1 DEF Claimed, VerificationJob, ACTIVE_JOB_STATUSES
  <2>3. row.status = "PROCESSING" /\ row.worker_id = w
    BY <1>1 DEF Claimed, VerificationJob
  <2>4. row.attempts = jobs[held[w]].attempts + 1 /\ row.session_id = jobs[held[w]].session_id
    BY <1>1 DEF Claimed, VerificationJob
  <2> QED
    BY <2>2, <2>3, <2>4
<1>3. jobs' = [jobs EXCEPT ![held[w]] = row]
  OBVIOUS
<1> HIDE DEF row
<1> QED
  BY <1>1, <1>2, <1>3, RowUpdated

\* _mark_terminal() on the job of the worker.
LEMMA MarkTyped ==
  ASSUME TypeOK, NEW w \in Workers, pc[w] \in Holding, NEW new \in TERMINAL_JOB_STATUSES,
         MarkTerminal(w, new)
  PROVE  /\ held[w] \in DOMAIN jobs
         /\ jobs' \in Seq(VerificationJob)
         /\ Len(jobs') = Len(jobs)
         /\ DOMAIN jobs' = DOMAIN jobs
         /\ jobs'[held[w]].status = new
         /\ jobs'[held[w]].worker_id = jobs[held[w]].worker_id
         /\ jobs'[held[w]].attempts = jobs[held[w]].attempts
         /\ jobs'[held[w]].session_id = jobs[held[w]].session_id
         /\ \A i \in DOMAIN jobs : i # held[w] => jobs'[i] = jobs[i]
<1> DEFINE row == [jobs[held[w]] EXCEPT !.status = new, !.heartbeat_at = "NULL"]
<1>1. held[w] \in DOMAIN jobs /\ jobs[held[w]] \in VerificationJob
  BY HeldJob DEF Job
<1>2. /\ row \in VerificationJob
      /\ row.status = new /\ row.worker_id = jobs[held[w]].worker_id
      /\ row.attempts = jobs[held[w]].attempts
      /\ row.session_id = jobs[held[w]].session_id
  BY <1>1 DEF VerificationJob
<1>3. jobs' = [jobs EXCEPT ![held[w]] = row]
  BY DEF MarkTerminal
<1> HIDE DEF row
<1> QED
  BY <1>1, <1>2, <1>3, RowUpdated

\* A heartbeat arrives, or its time runs out: the rest of the row stays.
LEMMA HeartbeatTyped ==
  ASSUME TypeOK, NEW j \in DOMAIN jobs, NEW h \in {"fresh", "old"},
         jobs' = [jobs EXCEPT ![j] = [@ EXCEPT !.heartbeat_at = h]]
  PROVE  /\ jobs' \in Seq(VerificationJob)
         /\ Len(jobs') = Len(jobs)
         /\ DOMAIN jobs' = DOMAIN jobs
         /\ \A i \in DOMAIN jobs :
               /\ jobs'[i].status = jobs[i].status
               /\ jobs'[i].worker_id = jobs[i].worker_id
               /\ jobs'[i].attempts = jobs[i].attempts
               /\ jobs'[i].session_id = jobs[i].session_id
<1> DEFINE row == [jobs[j] EXCEPT !.heartbeat_at = h]
<1>1. jobs[j] \in VerificationJob
  BY ElementOfSeq, LenProperties DEF TypeOK
<1>2. /\ row \in VerificationJob
      /\ row.status = jobs[j].status /\ row.worker_id = jobs[j].worker_id
      /\ row.attempts = jobs[j].attempts
      /\ row.session_id = jobs[j].session_id
  BY <1>1 DEF VerificationJob
<1>3. jobs' = [jobs EXCEPT ![j] = row]
  OBVIOUS
<1> HIDE DEF row
<1>4. /\ jobs' \in Seq(VerificationJob) /\ Len(jobs') = Len(jobs) /\ DOMAIN jobs' = DOMAIN jobs
      /\ jobs'[j] = row
      /\ \A i \in DOMAIN jobs : i # j => jobs'[i] = jobs[i]
  BY <1>2, <1>3, RowUpdated
<1> QED
  BY <1>2, <1>4

\* mark_stale_processing_jobs_failed(): a job it touches was PROCESSING.
LEMMA ExpireTyped ==
  ASSUME TypeOK, NEW w \in Workers, ExpireJobs(w)
  PROVE  /\ jobs' \in Seq(VerificationJob)
         /\ Len(jobs') = Len(jobs)
         /\ DOMAIN jobs' = DOMAIN jobs
         /\ \A i \in DOMAIN jobs :
               /\ \/ jobs'[i].status = jobs[i].status
                  \/ jobs[i].status = "PROCESSING" /\ jobs'[i].status = "FAILED"
               /\ jobs'[i].worker_id = jobs[i].worker_id
               /\ jobs'[i].attempts = jobs[i].attempts
               /\ jobs'[i].session_id = jobs[i].session_id
<1>1. Len(jobs) \in Nat /\ DOMAIN jobs = 1..Len(jobs)
  BY LenProperties DEF TypeOK
<1>2. \A i \in DOMAIN jobs : jobs[i] \in VerificationJob
  BY <1>1, ElementOfSeq DEF TypeOK
<1>3. ASSUME NEW i \in DOMAIN jobs
      PROVE  /\ jobs'[i] \in VerificationJob
             /\ \/ jobs'[i].status = jobs[i].status
                \/ jobs[i].status = "PROCESSING" /\ jobs'[i].status = "FAILED"
             /\ jobs'[i].worker_id = jobs[i].worker_id
             /\ jobs'[i].attempts = jobs[i].attempts
             /\ jobs'[i].session_id = jobs[i].session_id
  <2>1. jobs'[i] = IF jobs[i].status = "PROCESSING" /\ jobs[i].heartbeat_at = "old"
                   THEN [jobs[i] EXCEPT !.status = "FAILED"]
                   ELSE jobs[i]
    BY DEF ExpireJobs
  <2> QED
    BY <1>2, <2>1 DEF VerificationJob, TERMINAL_JOB_STATUSES
<1>4. DOMAIN jobs' = DOMAIN jobs
  BY DEF ExpireJobs
<1>5. jobs' \in [1..Len(jobs) -> VerificationJob]
  <2>1. jobs' = [i \in 1..Len(jobs) |->
                   IF jobs[i].status = "PROCESSING" /\ jobs[i].heartbeat_at = "old"
                   THEN [jobs[i] EXCEPT !.status = "FAILED"]
                   ELSE jobs[i]]
    BY <1>1 DEF ExpireJobs
  <2> QED
    BY <1>1, <1>3, <2>1
<1>6. jobs' \in Seq(VerificationJob) /\ Len(jobs') = Len(jobs)
  <2>1. jobs' \in Seq(VerificationJob)
    BY <1>1, <1>5, SeqDef
  <2>2. DOMAIN jobs' = 1..Len(jobs') /\ Len(jobs') \in Nat
    BY <2>1, LenProperties
  <2> QED
    BY <1>1, <1>4, <2>1, <2>2
<1> QED
  BY <1>3, <1>4, <1>6

LEMMA TypeInit == Init => TypeOK
  BY EmptySeq DEF Init, TypeOK, SessionState, Places, Holding

\* Whatever a worker does in its loop keeps the types.
LEMMA IterateTyped ==
  ASSUME TypeOK, NEW w \in Workers, Iterate(w)
  PROVE  TypeOK'
<1> USE DEF sessionVars, workerVars
<1>1. /\ jobs \in Seq(VerificationJob) /\ Len(jobs) \in Nat
      /\ status \in [Sessions -> SessionState]
      /\ verdict \in [Sessions -> Nat]
      /\ requests \subseteq Sessions
      /\ enqueuing \in [Requesters -> SUBSET Sessions]
      /\ beating \in [Workers -> SUBSET (1..Len(jobs))]
      /\ faults \in Nat
  BY LenProperties DEF TypeOK
<1>2. CASE ScanSessions(w)
  <2>1. status' \in [Sessions -> SessionState]
    BY <1>1, <1>2 DEF ScanSessions, SessionState
  <2>2. Goes(w, "expiring") /\ held' = held
    BY <1>2 DEF ScanSessions
  <2>3. "expiring" \in Places /\ "expiring" \notin Holding \cup {"claiming"}
    BY DEF Places, Holding
  <2>4. UNCHANGED <<jobs, verdict, requests, enqueuing, beating, faults>>
    BY <1>2 DEF ScanSessions
  <2> QED
    BY <1>1, <2>1, <2>2, <2>3, <2>4, LoopMoves, TypeFrom
<1>3. CASE ExpireJobs(w)
  <2>1. Goes(w, "dequeuing") /\ UNCHANGED <<held, status, verdict, requests, enqueuing, beating, faults>>
    BY <1>3 DEF ExpireJobs
  <2>2. "dequeuing" \in Places /\ "dequeuing" \notin Holding \cup {"claiming"}
    BY DEF Places, Holding
  <2> QED
    BY <1>1, <1>3, <2>1, <2>2, ExpireTyped, LoopMoves, TypeFrom
<1>4. CASE ReadOldestPending(w)
  <2>1. UNCHANGED <<jobs, status, verdict, requests, enqueuing, beating, faults>>
    BY <1>4 DEF ReadOldestPending
  <2>2. CASE NextIteration(w)
    BY <1>1, <2>1, <2>2, IterationEnds, TypeFrom
  <2>3. ASSUME NEW j \in DOMAIN jobs, held' = [held EXCEPT ![w] = j], Goes(w, "claiming")
        PROVE  TypeOK'
    <3>1. j \in 1..Len(jobs)
      BY LenProperties DEF TypeOK
    <3>2. /\ held' \in [Workers -> 0..Len(jobs)] /\ held'[w] # 0
          /\ \A v \in Workers : v # w => held'[v] = held[v]
      BY <1>1, <2>3, <3>1 DEF TypeOK
    <3>3. pc' \in [Workers -> Places] /\ \A v \in Workers : v # w => pc'[v] = pc[v]
      BY <2>3 DEF TypeOK, Goes, Places
    <3>4. \A v \in Workers : pc'[v] \in Holding \cup {"claiming"} => held'[v] # 0
      BY <3>2, <3>3 DEF TypeOK
    <3> QED
      BY <1>1, <2>1, <3>2, <3>3, <3>4, TypeFrom
  <2> QED
    BY <1>4, <2>2, <2>3 DEF ReadOldestPending
<1>5. CASE ClaimJob(w)
  <2>1. UNCHANGED <<status, verdict, requests, enqueuing, beating, faults>> /\ pc[w] = "claiming"
    BY <1>5 DEF ClaimJob
  <2>2. CASE NextIteration(w) /\ UNCHANGED jobs
    BY <1>1, <2>1, <2>2, IterationEnds, TypeFrom
  <2>3. CASE Job(w).status = "PENDING"
    <3>1. held' = held /\ Goes(w, "leasing")
      BY <1>5, <2>3 DEF ClaimJob
    <3>2. jobs' \in Seq(VerificationJob) /\ Len(jobs') = Len(jobs)
      BY <1>5, <2>1, <2>3, ClaimTyped DEF ClaimJob
    <3>3. held[w] # 0 /\ "leasing" \in Places
      BY <2>1 DEF TypeOK, Places, Holding
    <3> QED
      BY <1>1, <2>1, <3>1, <3>2, <3>3, LoopMoves, TypeFrom
  <2> QED
    BY <1>5, <2>2, <2>3 DEF ClaimJob
<1>6. CASE AcquireLease(w)
  <2>1. /\ UNCHANGED <<jobs, verdict, requests, enqueuing, held, faults>>
        /\ pc[w] = "leasing" /\ pc[w] \in Holding
    BY <1>6 DEF AcquireLease, Holding
  <2>2. held[w] # 0 /\ {"running", "skipping"} \subseteq Places
    BY <2>1 DEF TypeOK, Places, Holding
  <2>3. held[w] \in 1..Len(jobs) /\ SessionOf(w) \in Sessions
    BY <2>1, HeldJob, LenProperties DEF TypeOK
  <2>4. status' \in [Sessions -> SessionState]
    BY <1>1, <1>6, <2>3 DEF AcquireLease, SessionState
  <2>5. beating' \in [Workers -> SUBSET (1..Len(jobs))]
    <3>1. beating[w] \cup {held[w]} \in SUBSET (1..Len(jobs))
      BY <2>3 DEF TypeOK
    <3>2. beating' = [beating EXCEPT ![w] = @ \cup {held[w]}] \/ UNCHANGED beating
      BY <1>6 DEF AcquireLease
    <3> QED
      BY <3>1, <3>2 DEF TypeOK
  <2>6. Goes(w, "running") \/ Goes(w, "skipping")
    BY <1>6 DEF AcquireLease
  <2> QED
    BY <1>1, <2>1, <2>2, <2>4, <2>5, <2>6, LoopMoves, TypeFrom
<1>7. CASE PipelineReturns(w) \/ PipelineRaises(w)
  <2>1. /\ UNCHANGED <<jobs, requests, enqueuing, held, beating, faults>>
        /\ pc[w] \in Holding
    BY <1>7 DEF PipelineReturns, PipelineRaises, Holding
  <2>2. held[w] # 0 /\ {"finishing", "failing"} \subseteq Places
    BY <2>1 DEF TypeOK, Places, Holding
  <2>3. held[w] \in Nat /\ SessionOf(w) \in Sessions
    BY <2>1, HeldJob, LenProperties DEF TypeOK
  <2>4. status' \in [Sessions -> SessionState]
    BY <1>1, <1>7, <2>3 DEF PipelineReturns, PipelineRaises, SessionState
  <2>5. verdict' \in [Sessions -> Nat]
    BY <1>1, <1>7, <2>3 DEF PipelineReturns, PipelineRaises
  <2>6. Goes(w, "finishing") \/ Goes(w, "failing")
    BY <1>7 DEF PipelineReturns, PipelineRaises
  <2> QED
    BY <1>1, <2>1, <2>2, <2>4, <2>5, <2>6, LoopMoves, TypeFrom
<1>8. ASSUME NEW new \in TERMINAL_JOB_STATUSES, pc[w] \in Holding, MarkTerminal(w, new)
      PROVE  TypeOK'
  <2>1. jobs' \in Seq(VerificationJob) /\ Len(jobs') = Len(jobs)
    BY <1>8, MarkTyped
  <2>2. NextIteration(w) /\ UNCHANGED <<status, verdict, requests, enqueuing, beating, faults>>
    BY <1>8 DEF MarkTerminal
  <2> QED
    BY <1>1, <2>1, <2>2, IterationEnds, TypeFrom
<1>9. CASE MarkJobSkipped(w) \/ MarkJobDone(w) \/ MarkJobFailed(w)
  BY <1>8, <1>9
  DEF MarkJobSkipped, MarkJobDone, MarkJobFailed, Holding, TERMINAL_JOB_STATUSES
<1> QED
  BY <1>2, <1>3, <1>4, <1>5, <1>6, <1>7, <1>9 DEF Iterate

LEMMA TypeStep == TypeOK /\ [Next]_vars => TypeOK'
<1> SUFFICES ASSUME TypeOK, [Next]_vars PROVE TypeOK'
  OBVIOUS
<1> USE DEF sessionVars, workerVars
<1>1. /\ jobs \in Seq(VerificationJob) /\ Len(jobs) \in Nat
      /\ status \in [Sessions -> SessionState]
      /\ verdict \in [Sessions -> Nat]
      /\ requests \subseteq Sessions
      /\ enqueuing \in [Requesters -> SUBSET Sessions]
      /\ pc \in [Workers -> Places]
      /\ held \in [Workers -> 0..Len(jobs)]
      /\ \A v \in Workers : pc[v] \in Holding \cup {"claiming"} => held[v] # 0
      /\ beating \in [Workers -> SUBSET (1..Len(jobs))]
      /\ faults \in Nat
  BY LenProperties DEF TypeOK
<1>2. ASSUME NEW q \in Requesters, NEW s \in Sessions, FindNoActiveJob(q, s) PROVE TypeOK'
  <2>1. enqueuing' \in [Requesters -> SUBSET Sessions]
    BY <1>1, <1>2 DEF FindNoActiveJob
  <2> QED
    BY <1>1, <1>2, <2>1, TypeFrom DEF FindNoActiveJob
<1>3. ASSUME NEW q \in Requesters, InsertJob(q) PROVE TypeOK'
  <2>1. enqueuing' \in [Requesters -> SUBSET Sessions]
    BY <1>1, <1>3 DEF InsertJob
  <2>2. jobs' \in Seq(VerificationJob) /\ Len(jobs') >= Len(jobs)
    <3>1. ASSUME NEW s \in Sessions
          PROVE  [session_id |-> s, status |-> "PENDING", worker_id |-> NoWorker,
                  attempts |-> 0, heartbeat_at |-> "NULL"] \in VerificationJob
      BY DEF VerificationJob, ACTIVE_JOB_STATUSES
    <3>2. PICK s \in Sessions :
             \/ jobs' = Append(jobs, [session_id |-> s, status |-> "PENDING",
                                      worker_id |-> NoWorker, attempts |-> 0,
                                      heartbeat_at |-> "NULL"])
             \/ UNCHANGED jobs
      BY <1>1, <1>3 DEF InsertJob
    <3>3. CASE UNCHANGED jobs
      BY <1>1, <3>3
    <3>4. ASSUME NEW row \in VerificationJob, jobs' = Append(jobs, row)
          PROVE  jobs' \in Seq(VerificationJob) /\ Len(jobs') >= Len(jobs)
      BY <1>1, <3>4
    <3> QED
      BY <3>1, <3>2, <3>3, <3>4
  <2> QED
    BY <1>1, <1>3, <2>1, <2>2, TypeFrom DEF InsertJob
<1>4. ASSUME NEW w \in Workers, DatabaseFails(w) PROVE TypeOK'
  <2>1. faults' \in Nat /\ UNCHANGED <<status, verdict, requests, enqueuing, beating>>
    BY <1>1, <1>4 DEF DatabaseFails
  <2>2. CASE NextIteration(w) /\ UNCHANGED jobs
    BY <1>1, <2>1, <2>2, IterationEnds, TypeFrom
  <2>3. CASE /\ pc[w] = "claiming" /\ NextIteration(w)
             /\ jobs' = [jobs EXCEPT ![held[w]] = Claimed(@, w)]
    <3>1. jobs' \in Seq(VerificationJob) /\ Len(jobs') = Len(jobs)
      BY <2>3, ClaimTyped
    <3> QED
      BY <1>1, <2>1, <2>3, <3>1, IterationEnds, TypeFrom
  <2>4. CASE pc[w] \in Holding /\ Goes(w, "failing") /\ UNCHANGED <<jobs, held>>
    <3>1. held[w] # 0 /\ "failing" \in Places
      BY <2>4 DEF TypeOK, Places, Holding
    <3> QED
      BY <1>1, <2>1, <2>4, <3>1, LoopMoves, TypeFrom
  <2> QED
    BY <1>4, <2>2, <2>3, <2>4 DEF DatabaseFails, Holding
<1>5. ASSUME NEW w \in Workers, Crash(w) PROVE TypeOK'
  <2>1. faults' \in Nat /\ beating' \in [Workers -> SUBSET (1..Len(jobs))]
    BY <1>1, <1>5 DEF Crash
  <2>2. /\ Goes(w, "gone") /\ held' = [held EXCEPT ![w] = 0]
        /\ UNCHANGED <<jobs, status, verdict, requests, enqueuing>>
    BY <1>5 DEF Crash
  <2>3. /\ pc' \in [Workers -> Places] /\ held' \in [Workers -> 0..Len(jobs)]
        /\ \A v \in Workers : pc'[v] \in Holding \cup {"claiming"} => held'[v] # 0
    BY <2>2, LoopEnds
  <2> QED
    BY <1>1, <2>1, <2>2, <2>3, TypeFrom
<1>6. ASSUME NEW w \in Workers, NEW j \in 1..MaxJobs, Beat(w, j) PROVE TypeOK'
  <2>1. j \in DOMAIN jobs
    BY <1>1, <1>6, LenProperties DEF Beat
  <2>2. jobs' \in Seq(VerificationJob) /\ Len(jobs') >= Len(jobs)
    BY <1>1, <1>6, <2>1, HeartbeatTyped DEF Beat
  <2>3. beating' \in [Workers -> SUBSET (1..Len(jobs))]
    BY <1>1, <1>6 DEF Beat
  <2>4. UNCHANGED <<status, verdict, requests, enqueuing, pc, held, faults>>
    BY <1>6 DEF Beat
  <2> QED
    BY <1>1, <2>2, <2>3, <2>4, TypeFrom
<1>7. ASSUME NEW j \in 1..MaxJobs, HeartbeatAges(j) PROVE TypeOK'
  <2>1. jobs' \in Seq(VerificationJob) /\ Len(jobs') >= Len(jobs)
    <3>1. j \in DOMAIN jobs /\ jobs' = [jobs EXCEPT ![j] = [@ EXCEPT !.heartbeat_at = "old"]]
      BY <1>7 DEF HeartbeatAges
    <3>2. jobs' \in Seq(VerificationJob) /\ Len(jobs') = Len(jobs)
      BY <3>1, HeartbeatTyped
    <3> QED
      BY <1>1, <3>2
  <2> QED
    BY <1>1, <1>7, <2>1, TypeFrom DEF HeartbeatAges
<1>8. ASSUME NEW s \in Sessions, RequestRuns(s) \/ RequestEnds(s) PROVE TypeOK'
  <2>1. status' \in [Sessions -> SessionState]
    BY <1>1, <1>8 DEF RequestRuns, RequestEnds, SessionState
  <2>2. requests' \subseteq Sessions
    BY <1>1, <1>8 DEF RequestRuns, RequestEnds
  <2>3. UNCHANGED <<jobs, verdict, enqueuing, pc, held, beating, faults>>
    BY <1>8 DEF RequestRuns, RequestEnds
  <2> QED
    BY <1>1, <2>1, <2>2, <2>3, TypeFrom
<1>9. ASSUME NEW s \in Sessions, ReviewAdvances(s) PROVE TypeOK'
  <2>1. status' \in [Sessions -> SessionState]
    BY <1>1, <1>9 DEF ReviewAdvances
  <2>2. UNCHANGED <<jobs, verdict, requests, enqueuing, pc, held, beating, faults>>
    BY <1>9 DEF ReviewAdvances
  <2> QED
    BY <1>1, <2>1, <2>2, TypeFrom
<1>10. CASE UNCHANGED vars
  BY <1>10 DEF vars, TypeOK
<1> QED
  BY <1>2, <1>3, <1>4, <1>5, <1>6, <1>7, <1>8, <1>9, <1>10, IterateTyped DEF Next

\* The table, the sessions and the workers' locals hold only what the code puts there.
THEOREM TypeCorrect == Spec => []TypeOK
  BY TypeInit, TypeStep, PTL DEF Spec

-----------------------------------------------------------------------------
(* The invariant holds                                                     *)

LEMMA InvInit == Init => QueueInv
<1> SUFFICES ASSUME Init PROVE QueueInv
  OBVIOUS
<1>1. \A w \in Workers : WorkerOK(w)
  BY DEF Init, WorkerOK, Holding
<1>2. (\A j \in DOMAIN jobs : JobOK(j)) /\ \A s \in requests : status[s] = "VERIFYING"
  <2>1. DOMAIN jobs = {}
    BY DEF Init
  <2> QED
    BY <2>1 DEF Init
<1> QED
  BY <1>1, <1>2, TypeInit DEF QueueInv

\* Steps that leave the sessions alone, in which the jobs keep who claimed them and no
\* worker reaches another place of its loop in which it owns a job.
LEMMA InvHousekeeping ==
  ASSUME QueueInv, TypeOK', UNCHANGED <<status, verdict, requests>>,
         DOMAIN jobs \subseteq DOMAIN jobs',
         \A j \in DOMAIN jobs :
            /\ \/ jobs'[j].status = jobs[j].status
               \/ jobs[j].status = "PROCESSING" /\ jobs'[j].status = "FAILED"
            /\ jobs'[j].worker_id = jobs[j].worker_id
            /\ jobs'[j].attempts = jobs[j].attempts
            /\ jobs'[j].session_id = jobs[j].session_id,
         \A j \in DOMAIN jobs' : j \notin DOMAIN jobs =>
            jobs'[j].status = "PENDING" /\ jobs'[j].worker_id = NoWorker /\ jobs'[j].attempts = 0,
         \A w \in Workers : pc'[w] \in Holding => pc'[w] = pc[w] /\ held'[w] = held[w]
  PROVE  QueueInv'
<1>1. ASSUME NEW w \in Workers, pc'[w] \in Holding
      PROVE  /\ pc'[w] = pc[w] /\ held'[w] = held[w]
             /\ held[w] \in DOMAIN jobs
             /\ Job(w)'.worker_id = Job(w).worker_id
             /\ Job(w)'.status \in {Job(w).status, "FAILED"}
             /\ SessionOf(w)' = SessionOf(w)
  <2>1. held[w] \in DOMAIN jobs
    BY <1>1, HeldJob DEF QueueInv
  <2> QED
    BY <1>1, <2>1 DEF Job, SessionOf
<1>2. ASSUME NEW w \in Workers PROVE WorkerOK(w)'
  <2>1. WorkerOK(w)
    BY DEF QueueInv
  <2>2. pc'[w] \in Holding => Job(w)'.worker_id = w /\ Job(w)'.status \in {"PROCESSING", "FAILED"}
    BY <1>1, <2>1 DEF WorkerOK
  <2>3. ASSUME pc'[w] = "running"
        PROVE  /\ status'[SessionOf(w)'] \in {"VERIFYING", "ABANDONED_VERIFYING"}
               /\ SessionOf(w)' \notin requests'
               /\ \A v \in Workers :
                     pc'[v] = "running" /\ SessionOf(v)' = SessionOf(w)' => v = w
    <3>1. \A v \in Workers : pc'[v] = "running" =>
             pc[v] = "running" /\ SessionOf(v)' = SessionOf(v)
      BY <1>1 DEF Holding
    <3> QED
      BY <2>1, <2>3, <3>1 DEF WorkerOK
  <2>4. ASSUME pc'[w] = "finishing"
        PROVE  /\ status'[SessionOf(w)'] \in Published
               /\ verdict'[SessionOf(w)'] = held'[w]
    BY <1>1, <2>1, <2>4 DEF WorkerOK, Holding
  <2> QED
    BY <2>2, <2>3, <2>4 DEF WorkerOK
<1>3. ASSUME NEW j \in DOMAIN jobs' PROVE JobOK(j)'
  <2>1. CASE j \in DOMAIN jobs
    BY <2>1 DEF QueueInv, JobOK
  <2>2. CASE j \notin DOMAIN jobs
    BY <2>2 DEF JobOK
  <2> QED
    BY <2>1, <2>2
<1>4. \A s \in requests' : status'[s] = "VERIFYING"
  BY DEF QueueInv
<1> QED
  BY <1>2, <1>3, <1>4 DEF QueueInv

\* mark_stale_sessions() takes sessions from their workers, who go on.
LEMMA InvScan ==
  ASSUME QueueInv, TypeOK', NEW w \in Workers, ScanSessions(w)
  PROVE  QueueInv'
<1> USE DEF sessionVars, workerVars
<1>1. /\ UNCHANGED <<jobs, verdict, requests, held>>
      /\ \A v \in Workers : pc'[v] \in Holding => pc'[v] = pc[v]
  <2>1. Goes(w, "expiring") /\ UNCHANGED <<jobs, verdict, requests, held>>
    BY DEF ScanSessions
  <2>2. pc \in [Workers -> Places]
    BY DEF QueueInv, TypeOK
  <2> QED
    BY <2>1, <2>2 DEF Goes, Holding
<1>2. /\ \A s \in Sessions :
            \/ status'[s] = status[s]
            \/ status[s] = "VERIFYING" /\ status'[s] = "ABANDONED_VERIFYING"
      /\ \A s \in requests : status'[s] = status[s]
  <2>1. requests \subseteq Sessions
    BY DEF QueueInv, TypeOK
  <2>2. PICK stale \in SUBSET {s \in Sessions \ requests : status[s] = "VERIFYING"} :
           status' = [s \in Sessions |-> IF s \in stale THEN "ABANDONED_VERIFYING" ELSE status[s]]
    BY DEF ScanSessions
  <2>3. ASSUME NEW s \in Sessions
        PROVE  /\ \/ status'[s] = status[s]
                  \/ status[s] = "VERIFYING" /\ status'[s] = "ABANDONED_VERIFYING"
               /\ s \in requests => status'[s] = status[s]
    <3>1. status'[s] = IF s \in stale THEN "ABANDONED_VERIFYING" ELSE status[s]
      BY <2>2
    <3>2. s \in stale => status[s] = "VERIFYING" /\ s \notin requests
      OBVIOUS
    <3> QED
      BY <3>1, <3>2
  <2> QED
    BY <2>1, <2>3
<1>3. ASSUME NEW v \in Workers PROVE WorkerOK(v)'
  <2>1. WorkerOK(v) /\ (pc[v] \in Holding => SessionOf(v) \in Sessions)
    BY HeldJob DEF QueueInv
  <2>2. \A u \in Workers : Job(u)' = Job(u) /\ SessionOf(u)' = SessionOf(u)
    BY <1>1 DEF Job, SessionOf
  <2>3. \A u \in Workers : pc'[u] = "running" => pc[u] = "running"
    BY <1>1 DEF Holding
  <2>4. pc'[v] \in Holding => pc'[v] = pc[v] /\ held'[v] = held[v]
    BY <1>1
  <2>5. pc'[v] \in Holding => Job(v)'.worker_id = v /\ Job(v)'.status \in {"PROCESSING", "FAILED"}
    BY <2>1, <2>2, <2>4 DEF WorkerOK
  <2>6. pc'[v] = "running" =>
          /\ status'[SessionOf(v)'] \in {"VERIFYING", "ABANDONED_VERIFYING"}
          /\ SessionOf(v)' \notin requests'
          /\ \A u \in Workers : pc'[u] = "running" /\ SessionOf(u)' = SessionOf(v)' => u = v
    BY <1>1, <1>2, <2>1, <2>2, <2>3 DEF WorkerOK, Holding
  <2>7. pc'[v] = "finishing" =>
          /\ status'[SessionOf(v)'] \in Published
          /\ verdict'[SessionOf(v)'] = held'[v]
    BY <1>1, <1>2, <2>1, <2>2, <2>4, PublishedStays DEF WorkerOK, Holding
  <2> QED
    BY <2>5, <2>6, <2>7 DEF WorkerOK
<1>4. ASSUME NEW j \in DOMAIN jobs' PROVE JobOK(j)'
  <2>1. j \in DOMAIN jobs /\ jobs[j] \in VerificationJob
    BY <1>1, <1>4, ElementOfSeq, LenProperties DEF QueueInv, TypeOK
  <2>2. jobs[j].session_id \in Sessions
    BY <2>1 DEF VerificationJob
  <2> QED
    BY <1>1, <1>2, <2>1, <2>2, PublishedStays DEF QueueInv, JobOK
<1>5. \A s \in requests' : status'[s] = "VERIFYING"
  BY <1>1, <1>2 DEF QueueInv
<1> QED
  BY <1>3, <1>4, <1>5 DEF QueueInv

\* Steps of a worker on its session, which it alone verifies: what others know of
\* their sessions stays.
LEMMA InvPipeline ==
  ASSUME QueueInv, TypeOK', NEW w \in Workers, pc[w] \in Holding,
         UNCHANGED <<jobs, requests, held>>,
         NEW place \in Holding, Goes(w, place),
         \A s \in Sessions : s # SessionOf(w) => status'[s] = status[s] /\ verdict'[s] = verdict[s],
         \/ status' = status /\ verdict' = verdict
         \/ /\ pc[w] = "running"
            /\ status[SessionOf(w)] \in {"VERIFYING", "ABANDONED_VERIFYING"}
         \/ /\ status[SessionOf(w)] \in LEASE_ACQUIRABLE_STATES,
         WorkerOK(w)'
  PROVE  QueueInv'
<1>1. /\ \A v \in Workers : v # w => pc'[v] = pc[v]
      /\ \A v \in Workers : Job(v)' = Job(v) /\ SessionOf(v)' = SessionOf(v)
      /\ pc'[w] = place
      /\ SessionOf(w) \in Sessions
  <2>1. pc \in [Workers -> Places]
    BY DEF QueueInv, TypeOK
  <2> QED
    BY <2>1, HeldJob DEF Goes, Job, SessionOf, QueueInv
<1>2. ASSUME NEW v \in Workers, v # w, pc[v] = "running"
      PROVE  /\ status'[SessionOf(v)] \in {"VERIFYING", "ABANDONED_VERIFYING"}
             /\ pc'[w] = "running" => SessionOf(w) # SessionOf(v)
  <2>1. SessionOf(v) \in Sessions /\ WorkerOK(v) /\ WorkerOK(w)
    BY <1>2, HeldJob DEF QueueInv, Holding
  <2>2. pc'[w] = "running" => SessionOf(w) # SessionOf(v)
    BY <1>1, <1>2 DEF WorkerOK
  <2>3. status'[SessionOf(v)] \in {"VERIFYING", "ABANDONED_VERIFYING"}
    BY <1>2, <2>1 DEF WorkerOK, LEASE_ACQUIRABLE_STATES
  <2> QED
    BY <2>2, <2>3
<1>3. ASSUME NEW s \in Sessions, status[s] \in Published
      PROVE  status'[s] = status[s] /\ verdict'[s] = verdict[s]
  BY <1>3, PublishedStays
<1>4. ASSUME NEW v \in Workers, v # w PROVE WorkerOK(v)'
  <2>1. WorkerOK(v) /\ pc'[v] = pc[v]
    BY <1>1, <1>4 DEF QueueInv
  <2>2. pc[v] = "running" =>
          /\ SessionOf(v) \notin requests
          /\ \A u \in Workers : pc'[u] = "running" /\ SessionOf(u) = SessionOf(v) => u = v
    BY <1>1, <1>2, <1>4, <2>1 DEF WorkerOK
  <2>3. pc[v] = "finishing" =>
          /\ status'[SessionOf(v)] \in Published
          /\ verdict'[SessionOf(v)] = held[v]
    <3>1. pc[v] = "finishing" => SessionOf(v) \in Sessions
      BY HeldJob DEF QueueInv, Holding
    <3> QED
      BY <1>3, <2>1, <3>1 DEF WorkerOK
  <2> QED
    BY <1>1, <1>2, <1>4, <2>1, <2>2, <2>3 DEF WorkerOK
<1>5. ASSUME NEW j \in DOMAIN jobs' PROVE JobOK(j)'
  <2>1. j \in DOMAIN jobs /\ jobs[j] \in VerificationJob
    BY <1>5, ElementOfSeq, LenProperties DEF QueueInv, TypeOK
  <2>2. jobs[j].session_id \in Sessions
    BY <2>1 DEF VerificationJob
  <2> QED
    BY <1>3, <2>1, <2>2 DEF QueueInv, JobOK
<1>6. \A s \in requests' : status'[s] = "VERIFYING"
  <2> SUFFICES ASSUME NEW s \in requests PROVE status'[s] = "VERIFYING"
    OBVIOUS
  <2>1. s \in Sessions /\ status[s] = "VERIFYING"
    BY DEF QueueInv, TypeOK
  <2>2. pc[w] = "running" => s # SessionOf(w)
    BY DEF QueueInv, WorkerOK
  <2> QED
    BY <2>1, <2>2 DEF LEASE_ACQUIRABLE_STATES
<1> QED
  BY <1>4, <1>5, <1>6 DEF QueueInv

\* The claim of a pending job, of which nobody else can know.
LEMMA InvClaim ==
  ASSUME QueueInv, TypeOK', NEW w \in Workers, pc[w] = "claiming", Job(w).status = "PENDING",
         jobs' = [jobs EXCEPT ![held[w]] = Claimed(@, w)],
         UNCHANGED <<status, verdict, requests>>,
         \A v \in Workers : v # w => pc'[v] = pc[v] /\ held'[v] = held[v],
         \/ pc'[w] = "leasing" /\ held'[w] = held[w]
         \/ pc'[w] \notin Holding
  PROVE  QueueInv'
<1>1. /\ held[w] \in DOMAIN jobs
      /\ DOMAIN jobs' = DOMAIN jobs
      /\ jobs'[held[w]].status = "PROCESSING"
      /\ jobs'[held[w]].worker_id = w
      /\ jobs'[held[w]].attempts = jobs[held[w]].attempts + 1
      /\ \A i \in DOMAIN jobs : i # held[w] => jobs'[i] = jobs[i]
  BY ClaimTyped DEF QueueInv
<1>2. jobs[held[w]].worker_id = NoWorker /\ jobs[held[w]].attempts = 0
  BY <1>1 DEF QueueInv, JobOK, Job
<1>3. ASSUME NEW v \in Workers, v # w, pc[v] \in Holding
      PROVE  Job(v)' = Job(v) /\ SessionOf(v)' = SessionOf(v)
  <2>1. held[v] \in DOMAIN jobs /\ Job(v).worker_id = v
    BY <1>3, HeldJob DEF QueueInv, WorkerOK
  <2>2. held[v] # held[w]
    BY <1>2, <2>1, QueueAssumption DEF Job
  <2> QED
    BY <1>1, <1>3, <2>1, <2>2 DEF Job, SessionOf
<1>4. pc[w] \notin Holding /\ pc'[w] # "running" /\ pc'[w] # "finishing"
  BY DEF Holding
<1>5. ASSUME NEW v \in Workers, v # w PROVE WorkerOK(v)'
  <2>1. WorkerOK(v) /\ pc'[v] = pc[v] /\ held'[v] = held[v]
    BY <1>5 DEF QueueInv
  <2>2. \A u \in Workers : pc'[u] = "running" =>
            pc[u] = "running" /\ SessionOf(u)' = SessionOf(u)
    BY <1>3, <1>4 DEF Holding
  <2> QED
    BY <1>3, <1>5, <2>1, <2>2 DEF WorkerOK, Holding
<1>6. WorkerOK(w)'
  BY <1>1, <1>4 DEF WorkerOK, Job
<1>7. ASSUME NEW j \in DOMAIN jobs' PROVE JobOK(j)'
  <2>1. CASE j = held[w]
    BY <1>1, <1>2, <2>1, QueueAssumption DEF JobOK
  <2>2. CASE j # held[w]
    BY <1>1, <2>2 DEF QueueInv, JobOK
  <2> QED
    BY <2>1, <2>2
<1>8. \A s \in requests' : status'[s] = "VERIFYING"
  BY DEF QueueInv
<1> QED
  BY <1>5, <1>6, <1>7, <1>8 DEF QueueInv

\* A worker marks its own job, DONE only after it published the verdict.
LEMMA InvMark ==
  ASSUME QueueInv, TypeOK', NEW w \in Workers, pc[w] \in Holding,
         NEW new \in TERMINAL_JOB_STATUSES, MarkTerminal(w, new),
         new = "DONE" => pc[w] = "finishing"
  PROVE  QueueInv'
<1>1. /\ held[w] \in DOMAIN jobs
      /\ DOMAIN jobs' = DOMAIN jobs
      /\ jobs'[held[w]].status = new
      /\ jobs'[held[w]].worker_id = jobs[held[w]].worker_id
      /\ jobs'[held[w]].attempts = jobs[held[w]].attempts
      /\ jobs'[held[w]].session_id = jobs[held[w]].session_id
      /\ \A i \in DOMAIN jobs : i # held[w] => jobs'[i] = jobs[i]
  BY MarkTyped DEF QueueInv
<1>2. /\ UNCHANGED <<status, verdict, requests>>
      /\ pc'[w] \notin Holding
      /\ \A v \in Workers : v # w => pc'[v] = pc[v] /\ held'[v] = held[v]
  BY IterationEnds DEF MarkTerminal, sessionVars, QueueInv
<1>3. Job(w).worker_id = w /\ Job(w).status \in {"PROCESSING", "FAILED"} /\ WorkerOK(w)
  BY DEF QueueInv, WorkerOK
<1>4. ASSUME NEW v \in Workers, v # w, pc[v] \in Holding
      PROVE  Job(v)' = Job(v) /\ SessionOf(v)' = SessionOf(v)
  <2>1. held[v] \in DOMAIN jobs /\ Job(v).worker_id = v
    BY <1>4, HeldJob DEF QueueInv, WorkerOK
  <2>2. held[v] # held[w]
    BY <1>3, <1>4, <2>1 DEF Job
  <2> QED
    BY <1>1, <1>2, <1>4, <2>1, <2>2 DEF Job, SessionOf
<1>5. ASSUME NEW v \in Workers PROVE WorkerOK(v)'
  <2>1. CASE v = w
    BY <1>2, <2>1 DEF WorkerOK, Holding
  <2>2. CASE v # w
    <3>1. WorkerOK(v) /\ pc'[v] = pc[v] /\ held'[v] = held[v]
      BY <1>2, <2>2 DEF QueueInv
    <3>2. \A u \in Workers : pc'[u] = "running" =>
              pc[u] = "running" /\ SessionOf(u)' = SessionOf(u)
      BY <1>2, <1>4 DEF Holding
    <3> QED
      BY <1>2, <1>4, <2>2, <3>1, <3>2 DEF WorkerOK, Holding
  <2> QED
    BY <2>1, <2>2
<1>6. ASSUME NEW j \in DOMAIN jobs' PROVE JobOK(j)'
  <2>1. CASE j = held[w]
    <3>1. /\ jobs[j].status # "PENDING" /\ jobs[j].worker_id # NoWorker /\ jobs[j].attempts = 1
      BY <1>1, <1>3, <2>1 DEF QueueInv, JobOK, Job
    <3>2. new = "DONE" => verdict[jobs[j].session_id] = j
                          /\ status[jobs[j].session_id] \in Published
      BY <1>3, <2>1 DEF WorkerOK, SessionOf, Job
    <3> QED
      BY <1>1, <1>2, <2>1, <3>1, <3>2 DEF JobOK, TERMINAL_JOB_STATUSES
  <2>2. CASE j # held[w]
    BY <1>1, <1>2, <2>2 DEF QueueInv, JobOK
  <2> QED
    BY <2>1, <2>2
<1>7. \A s \in requests' : status'[s] = "VERIFYING"
  BY <1>2 DEF QueueInv
<1> QED
  BY <1>5, <1>6, <1>7 DEF QueueInv

\* A /run request verifies a session that no worker verifies.
LEMMA InvRequest ==
  ASSUME QueueInv, TypeOK', NEW s \in Sessions, RequestRuns(s) \/ RequestEnds(s)
  PROVE  QueueInv'
<1>1. /\ UNCHANGED <<jobs, verdict, pc, held>>
      /\ status[s] \in LEASE_ACQUIRABLE_STATES \cup {"VERIFYING"}
      /\ \A t \in Sessions : t # s => status'[t] = status[t]
      /\ requests' \subseteq requests \cup {s}
  <2>1. status \in [Sessions -> SessionState]
    BY DEF QueueInv, TypeOK
  <2> QED
    BY <2>1 DEF RequestRuns, RequestEnds, workerVars, QueueInv
<1>2. \A v \in Workers : pc[v] = "running" => SessionOf(v) # s
  <2> SUFFICES ASSUME NEW v \in Workers, pc[v] = "running", SessionOf(v) = s PROVE FALSE
    OBVIOUS
  <2>1. WorkerOK(v)
    BY DEF QueueInv
  <2> QED
    BY <2>1 DEF WorkerOK, RequestRuns, RequestEnds, LEASE_ACQUIRABLE_STATES
<1>3. \A v \in Workers : Job(v)' = Job(v) /\ SessionOf(v)' = SessionOf(v)
  BY <1>1 DEF Job, SessionOf
<1>4. ASSUME NEW v \in Workers PROVE WorkerOK(v)'
  <2>1. WorkerOK(v) /\ (pc[v] \in Holding => SessionOf(v) \in Sessions)
    BY HeldJob DEF QueueInv
  <2>2. pc[v] = "finishing" => SessionOf(v) # s
    BY <1>1, <2>1, PublishedStays DEF WorkerOK
  <2> QED
    BY <1>1, <1>2, <1>3, <2>1, <2>2 DEF WorkerOK, Holding
<1>5. ASSUME NEW j \in DOMAIN jobs' PROVE JobOK(j)'
  <2>1. j \in DOMAIN jobs /\ jobs[j] \in VerificationJob /\ JobOK(j)
    BY <1>1, <1>5, ElementOfSeq, LenProperties DEF QueueInv, TypeOK
  <2>2. jobs[j].session_id \in Sessions
    BY <2>1 DEF VerificationJob
  <2>3. jobs[j].status = "DONE" => jobs[j].session_id # s
    BY <1>1, <2>1, PublishedStays DEF JobOK
  <2> QED
    BY <1>1, <2>1, <2>2, <2>3 DEF JobOK
<1>6. ASSUME NEW t \in requests' PROVE status'[t] = "VERIFYING"
  <2>1. requests \subseteq Sessions /\ (t \in requests => status[t] = "VERIFYING")
    BY DEF QueueInv, TypeOK
  <2>2. CASE t = s
    <3>1. RequestRuns(s)
      BY <1>6, <2>2 DEF RequestEnds
    <3> QED
      BY <2>2, <3>1 DEF RequestRuns, QueueInv, TypeOK
  <2>3. CASE t # s
    BY <1>1, <1>6, <2>1, <2>3
  <2> QED
    BY <2>2, <2>3
<1> QED
  BY <1>4, <1>5, <1>6 DEF QueueInv

\* The review and the closing move a session on that nobody verifies any more.
LEMMA InvReview ==
  ASSUME QueueInv, TypeOK', NEW s \in Sessions, ReviewAdvances(s)
  PROVE  QueueInv'
<1>1. /\ UNCHANGED <<jobs, verdict, requests, pc, held>>
      /\ status[s] \in Verdicted /\ status'[s] \in Published
      /\ \A t \in Sessions : t # s => status'[t] = status[t]
  <2>1. status \in [Sessions -> SessionState]
    BY DEF QueueInv, TypeOK
  <2>2. PICK new \in SessionState :
           ValidTransition(status[s], new) /\ status' = [status EXCEPT ![s] = new]
    BY DEF ReviewAdvances
  <2> QED
    BY <2>1, <2>2, PublishedStays DEF ReviewAdvances, workerVars
<1>2. status[s] \notin {"VERIFYING", "ABANDONED_VERIFYING"}
  BY <1>1, PublishedStays DEF Published
<1>3. \A v \in Workers : Job(v)' = Job(v) /\ SessionOf(v)' = SessionOf(v)
  BY <1>1 DEF Job, SessionOf
<1>4. ASSUME NEW v \in Workers PROVE WorkerOK(v)'
  <2>1. WorkerOK(v) /\ (pc[v] \in Holding => SessionOf(v) \in Sessions)
    BY HeldJob DEF QueueInv
  <2> QED
    BY <1>1, <1>2, <1>3, <2>1 DEF WorkerOK, Holding
<1>5. ASSUME NEW j \in DOMAIN jobs' PROVE JobOK(j)'
  <2>1. j \in DOMAIN jobs /\ jobs[j] \in VerificationJob /\ JobOK(j)
    BY <1>1, <1>5, ElementOfSeq, LenProperties DEF QueueInv, TypeOK
  <2>2. jobs[j].session_id \in Sessions
    BY <2>1 DEF VerificationJob
  <2> QED
    BY <1>1, <2>1, <2>2 DEF JobOK
<1>6. \A t \in requests' : status'[t] = "VERIFYING"
  <2>1. requests \subseteq Sessions
    BY DEF QueueInv, TypeOK
  <2> QED
    BY <1>1, <1>2, <2>1 DEF QueueInv
<1> QED
  BY <1>4, <1>5, <1>6 DEF QueueInv

\* Every step of the worker loop keeps the invariant.
LEMMA InvIterate ==
  ASSUME QueueInv, NEW w \in Workers, Iterate(w)
  PROVE  QueueInv'
<1>1. TypeOK /\ TypeOK'
  BY IterateTyped DEF QueueInv
<1> USE DEF sessionVars, workerVars
<1>2. CASE ScanSessions(w)
  BY <1>1, <1>2, InvScan
<1>3. CASE ExpireJobs(w)
  <2>1. Goes(w, "dequeuing") /\ UNCHANGED <<held, status, verdict, requests>>
    BY <1>3 DEF ExpireJobs
  <2>2. \A v \in Workers : pc'[v] \in Holding => pc'[v] = pc[v] /\ held'[v] = held[v]
    BY <1>1, <2>1 DEF Goes, TypeOK, Holding
  <2> QED
    BY <1>1, <1>3, <2>1, <2>2, ExpireTyped, InvHousekeeping
<1>4. CASE ReadOldestPending(w)
  <2>1. UNCHANGED <<jobs, status, verdict, requests>>
    BY <1>4 DEF ReadOldestPending
  <2>2. \A v \in Workers : pc'[v] \in Holding => pc'[v] = pc[v] /\ held'[v] = held[v]
    BY <1>1, <1>4 DEF ReadOldestPending, NextIteration, Goes, TypeOK, Holding
  <2> QED
    BY <1>1, <2>1, <2>2, InvHousekeeping
<1>5. CASE ClaimJob(w)
  <2>1. CASE NextIteration(w) /\ UNCHANGED jobs
    <3>1. \A v \in Workers : pc'[v] \in Holding => pc'[v] = pc[v] /\ held'[v] = held[v]
      BY <1>1, <2>1, IterationEnds
    <3> QED
      BY <1>1, <1>5, <2>1, <3>1, InvHousekeeping DEF ClaimJob
  <2>2. CASE Job(w).status = "PENDING" /\ Goes(w, "leasing")
    <3>1. /\ pc'[w] = "leasing" /\ held' = held
          /\ \A v \in Workers : v # w => pc'[v] = pc[v]
      BY <1>1, <1>5, <2>2 DEF ClaimJob, Goes, TypeOK
    <3> QED
      BY <1>1, <1>5, <2>2, <3>1, InvClaim DEF ClaimJob
  <2> QED
    BY <1>5, <2>1, <2>2 DEF ClaimJob
<1>6. WorkerOK(w) /\ (pc[w] \in Holding => SessionOf(w) \in Sessions)
  BY <1>1, HeldJob DEF QueueInv
<1>7. CASE AcquireLease(w)
  <2>1. pc[w] = "leasing" /\ UNCHANGED <<jobs, verdict, requests, held>>
    BY <1>7 DEF AcquireLease
  <2>2. Job(w)' = Job(w) /\ SessionOf(w)' = SessionOf(w) /\ Job(w).worker_id = w
        /\ Job(w).status \in {"PROCESSING", "FAILED"}
    BY <1>6, <2>1 DEF Job, SessionOf, WorkerOK, Holding
  <2>3. CASE Goes(w, "skipping") /\ UNCHANGED status
    <3>1. pc'[w] = "skipping"
      BY <1>1, <2>3 DEF Goes, TypeOK
    <3>2. WorkerOK(w)'
      BY <2>2, <3>1 DEF WorkerOK
    <3> QED
      BY <1>1, <2>1, <2>3, <3>2, InvPipeline DEF Holding
  <2>4. CASE /\ status[SessionOf(w)] \in LEASE_ACQUIRABLE_STATES
             /\ status' = [status EXCEPT ![SessionOf(w)] = "VERIFYING"]
             /\ Goes(w, "running")
    <3>1. /\ pc'[w] = "running"
          /\ \A v \in Workers : v # w => pc'[v] = pc[v]
          /\ status'[SessionOf(w)] = "VERIFYING"
          /\ \A s \in Sessions : s # SessionOf(w) => status'[s] = status[s]
      BY <1>1, <1>6, <2>1, <2>4 DEF Goes, TypeOK, Holding
    <3>2. SessionOf(w) \notin requests
      BY <2>4 DEF QueueInv, LEASE_ACQUIRABLE_STATES
    <3>3. \A v \in Workers : pc[v] = "running" => SessionOf(v) # SessionOf(w)
      BY <2>4 DEF QueueInv, WorkerOK, LEASE_ACQUIRABLE_STATES
    <3>4. \A v \in Workers : SessionOf(v)' = SessionOf(v)
      BY <2>1 DEF SessionOf, Job
    <3>5. WorkerOK(w)'
      BY <2>1, <2>2, <3>1, <3>2, <3>3, <3>4 DEF WorkerOK
    <3> QED
      BY <1>1, <2>1, <2>4, <3>1, <3>5, InvPipeline DEF Holding
  <2> QED
    BY <1>7, <2>3, <2>4 DEF AcquireLease
<1>8. CASE PipelineReturns(w)
  <2>1. /\ pc[w] = "running" /\ UNCHANGED <<jobs, requests, held>> /\ Goes(w, "finishing")
        /\ status[SessionOf(w)] = "VERIFYING"
    BY <1>8 DEF PipelineReturns
  <2>2. /\ status'[SessionOf(w)] = "PENDING_HUMAN_REVIEW" /\ verdict'[SessionOf(w)] = held[w]
        /\ \A s \in Sessions : s # SessionOf(w) => status'[s] = status[s] /\ verdict'[s] = verdict[s]
    BY <1>1, <1>6, <1>8, <2>1 DEF PipelineReturns, TypeOK, Holding
  <2>3. pc'[w] = "finishing"
    BY <1>1, <2>1 DEF Goes, TypeOK
  <2>4. Job(w)' = Job(w) /\ SessionOf(w)' = SessionOf(w)
    BY <2>1 DEF Job, SessionOf
  <2>5. WorkerOK(w)'
    BY <1>6, <2>1, <2>2, <2>3, <2>4 DEF WorkerOK, Holding, Published, Verdicted
  <2> QED
    BY <1>1, <2>1, <2>2, <2>5, InvPipeline DEF Holding
<1>9. CASE PipelineRaises(w)
  <2>1. /\ pc[w] = "running" /\ UNCHANGED <<jobs, requests, held, verdict>> /\ Goes(w, "failing")
    BY <1>9 DEF PipelineRaises
  <2>2. \A s \in Sessions : s # SessionOf(w) => status'[s] = status[s] /\ verdict'[s] = verdict[s]
    BY <1>1, <1>9, <2>1 DEF PipelineRaises, TypeOK
  <2>3. pc'[w] = "failing"
    BY <1>1, <2>1 DEF Goes, TypeOK
  <2>4. Job(w)' = Job(w)
    BY <2>1 DEF Job
  <2>5. status[SessionOf(w)] \in {"VERIFYING", "ABANDONED_VERIFYING"}
    BY <1>6, <2>1 DEF WorkerOK
  <2>6. WorkerOK(w)'
    BY <1>6, <2>1, <2>3, <2>4 DEF WorkerOK, Holding
  <2> QED
    BY <1>1, <2>1, <2>2, <2>5, <2>6, InvPipeline DEF Holding
<1>10. CASE MarkJobSkipped(w) \/ MarkJobDone(w) \/ MarkJobFailed(w)
  BY <1>1, <1>10, InvMark
  DEF MarkJobSkipped, MarkJobDone, MarkJobFailed, Holding, TERMINAL_JOB_STATUSES
<1> QED
  BY <1>2, <1>3, <1>4, <1>5, <1>7, <1>8, <1>9, <1>10 DEF Iterate

LEMMA InvStep == QueueInv /\ [Next]_vars => QueueInv'
<1> SUFFICES ASSUME QueueInv, [Next]_vars PROVE QueueInv'
  OBVIOUS
<1>1. TypeOK /\ TypeOK'
  BY TypeStep DEF QueueInv
<1> USE DEF sessionVars, workerVars
<1>2. ASSUME NEW q \in Requesters, NEW s \in Sessions, FindNoActiveJob(q, s) PROVE QueueInv'
  BY <1>1, <1>2, InvHousekeeping DEF FindNoActiveJob
<1>3. ASSUME NEW q \in Requesters, InsertJob(q) PROVE QueueInv'
  <2>1. UNCHANGED <<status, verdict, requests, pc, held>>
    BY <1>3 DEF InsertJob
  <2>2. CASE UNCHANGED jobs
    BY <1>1, <2>1, <2>2, InvHousekeeping
  <2>3. ASSUME NEW row \in VerificationJob, jobs' = Append(jobs, row),
               row.status = "PENDING", row.worker_id = NoWorker, row.attempts = 0
        PROVE  QueueInv'
    <3>1. /\ Len(jobs) \in Nat /\ DOMAIN jobs = 1..Len(jobs)
          /\ DOMAIN jobs' = 1..(Len(jobs) + 1)
          /\ jobs'[Len(jobs) + 1] = row
          /\ \A i \in 1..Len(jobs) : jobs'[i] = jobs[i]
      BY <1>1, <2>3, LenProperties DEF TypeOK
    <3> QED
      BY <1>1, <2>1, <2>3, <3>1, InvHousekeeping
  <2>4. ASSUME NEW s \in Sessions
        PROVE  [session_id |-> s, status |-> "PENDING", worker_id |-> NoWorker,
                attempts |-> 0, heartbeat_at |-> "NULL"] \in VerificationJob
    BY DEF VerificationJob, ACTIVE_JOB_STATUSES
  <2> QED
    BY <1>1, <1>3, <2>2, <2>3, <2>4 DEF InsertJob, TypeOK
<1>4. ASSUME NEW w \in Workers, DatabaseFails(w) PROVE QueueInv'
  <2>1. UNCHANGED <<status, verdict, requests>>
    BY <1>4 DEF DatabaseFails
  <2>2. CASE NextIteration(w) /\ UNCHANGED jobs
    <3>1. \A v \in Workers : pc'[v] \in Holding => pc'[v] = pc[v] /\ held'[v] = held[v]
      BY <1>1, <2>2, IterationEnds
    <3> QED
      BY <1>1, <2>1, <2>2, <3>1, InvHousekeeping
  <2>3. CASE /\ pc[w] = "claiming" /\ Job(w).status = "PENDING" /\ NextIteration(w)
             /\ jobs' = [jobs EXCEPT ![held[w]] = Claimed(@, w)]
    BY <1>1, <2>1, <2>3, IterationEnds, InvClaim
  <2>4. CASE pc[w] \in Holding /\ Goes(w, "failing") /\ UNCHANGED <<jobs, held>>
    <3>1. pc'[w] = "failing" /\ WorkerOK(w) /\ Job(w)' = Job(w)
      BY <1>1, <2>4 DEF Goes, TypeOK, QueueInv, Job
    <3>2. WorkerOK(w)'
      BY <2>4, <3>1 DEF WorkerOK
    <3> QED
      BY <1>1, <2>1, <2>4, <3>2, InvPipeline DEF Holding
  <2> QED
    BY <1>4, <2>2, <2>3, <2>4 DEF DatabaseFails, Holding
<1>5. ASSUME NEW w \in Workers, Crash(w) PROVE QueueInv'
  <2>1. /\ Goes(w, "gone") /\ held' = [held EXCEPT ![w] = 0]
        /\ UNCHANGED <<jobs, status, verdict, requests>>
    BY <1>5 DEF Crash
  <2>2. \A v \in Workers : pc'[v] \in Holding => pc'[v] = pc[v] /\ held'[v] = held[v]
    BY <1>1, <2>1 DEF Goes, TypeOK, Holding
  <2> QED
    BY <1>1, <2>1, <2>2, InvHousekeeping
<1>6. ASSUME NEW w \in Workers, NEW j \in 1..MaxJobs, Beat(w, j) PROVE QueueInv'
  <2>1. j \in DOMAIN jobs
    BY <1>1, <1>6, LenProperties DEF Beat, TypeOK
  <2>2. UNCHANGED <<status, verdict, requests, pc, held>>
    BY <1>6 DEF Beat
  <2>3. CASE UNCHANGED jobs
    BY <1>1, <2>2, <2>3, InvHousekeeping
  <2>4. CASE jobs' = [jobs EXCEPT ![j] = [@ EXCEPT !.heartbeat_at = "fresh"]]
    BY <1>1, <2>1, <2>2, <2>4, HeartbeatTyped, InvHousekeeping
  <2> QED
    BY <1>6, <2>3, <2>4 DEF Beat
<1>7. ASSUME NEW j \in 1..MaxJobs, HeartbeatAges(j) PROVE QueueInv'
  <2>1. /\ j \in DOMAIN jobs /\ jobs' = [jobs EXCEPT ![j] = [@ EXCEPT !.heartbeat_at = "old"]]
        /\ UNCHANGED <<status, verdict, requests, pc, held>>
    BY <1>7 DEF HeartbeatAges
  <2> QED
    BY <1>1, <2>1, HeartbeatTyped, InvHousekeeping
<1>8. ASSUME NEW s \in Sessions, RequestRuns(s) \/ RequestEnds(s) PROVE QueueInv'
  BY <1>1, <1>8, InvRequest
<1>9. ASSUME NEW s \in Sessions, ReviewAdvances(s) PROVE QueueInv'
  BY <1>1, <1>9, InvReview
<1>10. CASE UNCHANGED vars
  BY <1>1, <1>10, InvHousekeeping DEF vars
<1> QED
  BY <1>2, <1>3, <1>4, <1>5, <1>6, <1>7, <1>8, <1>9, <1>10, InvIterate DEF Next

\* The invariant of the module.
THEOREM QueueInvariant == Spec => []QueueInv
  BY InvInit, InvStep, PTL DEF Spec

-----------------------------------------------------------------------------
(* What it guarantees                                                      *)

\* A job has one worker, which alone ends it (workflow/job_queue.py:68, :132).
THEOREM JobsClaimedOnce == Spec => []ClaimedOnce
<1>1. QueueInv => ClaimedOnce
  BY DEF QueueInv, WorkerOK, JobOK, ClaimedOnce
<1> QED
  BY <1>1, QueueInvariant, PTL

\* Duplicate jobs of a session, and /run requests, never verify it at the same time
\* (worker/worker.py:105).
THEOREM SessionsRunOneJob == Spec => []OneJobRuns
<1>1. QueueInv => OneJobRuns
  BY DEF QueueInv, WorkerOK, OneJobRuns
<1> QED
  BY <1>1, QueueInvariant, PTL

\* DONE means that the job's worker published the verdict (worker/worker.py:122).
THEOREM DoneJobsVerified == Spec => []DoneMeansVerified
<1>1. QueueInv => DoneMeansVerified
  BY DEF QueueInv, JobOK, DoneMeansVerified, Published
<1> QED
  BY <1>1, QueueInvariant, PTL

\* No job returns from a terminal status, and only a report that came too late for
\* the stale scan changes its outcome (workflow/job_queue.py:114, :132).
THEOREM JobsNeverReturn == Spec => JobsMoveForward
<1> DEFINE A == \A j \in DOMAIN jobs : jobs[j].status \in TERMINAL_JOB_STATUSES =>
                    /\ jobs'[j].status \in TERMINAL_JOB_STATUSES
                    /\ jobs'[j].worker_id = jobs[j].worker_id
                    /\ jobs'[j].status # jobs[j].status => jobs[j].status = "FAILED"
<1>1. QueueInv /\ [Next]_vars => [A]_vars
  <2> SUFFICES ASSUME QueueInv, Next PROVE A
    OBVIOUS
  <2> USE DEF sessionVars, workerVars, TERMINAL_JOB_STATUSES
  <2>1. TypeOK
    BY DEF QueueInv
  <2>2. CASE UNCHANGED jobs
    BY <2>2
  <2>3. ASSUME NEW w \in Workers, ExpireJobs(w) PROVE A
    BY <2>1, <2>3, ExpireTyped
  <2>4. ASSUME NEW w \in Workers, pc[w] = "claiming", Job(w).status = "PENDING",
               jobs' = [jobs EXCEPT ![held[w]] = Claimed(@, w)]
        PROVE  A
    BY <2>1, <2>4, ClaimTyped DEF Job
  <2>5. ASSUME NEW w \in Workers, pc[w] \in Holding, NEW new \in TERMINAL_JOB_STATUSES,
               MarkTerminal(w, new)
        PROVE  A
    <3>1. Job(w).status \in {"PROCESSING", "FAILED"}
      BY <2>5 DEF QueueInv, WorkerOK
    <3> QED
      BY <2>1, <2>5, <3>1, MarkTyped DEF Job
  <2>6. ASSUME NEW j \in DOMAIN jobs, NEW h \in {"fresh", "old"},
               jobs' = [jobs EXCEPT ![j] = [@ EXCEPT !.heartbeat_at = h]]
        PROVE  A
    BY <2>1, <2>6, HeartbeatTyped
  <2>7. ASSUME NEW row, jobs' = Append(jobs, row) PROVE A
    BY <2>1, <2>7 DEF TypeOK
  <2>8. ASSUME NEW w \in Workers, Iterate(w) PROVE A
    <3>1. CASE ClaimJob(w)
      BY <2>2, <2>4, <3>1 DEF ClaimJob
    <3>2. CASE MarkJobSkipped(w) \/ MarkJobDone(w) \/ MarkJobFailed(w)
      BY <2>5, <3>2 DEF MarkJobSkipped, MarkJobDone, MarkJobFailed, Holding
    <3> QED
      BY <2>2, <2>3, <2>8, <3>1, <3>2
      DEF Iterate, ScanSessions, ReadOldestPending, AcquireLease, PipelineReturns, PipelineRaises
  <2>9. ASSUME NEW w \in Workers, NEW j \in 1..MaxJobs, Beat(w, j) PROVE A
    <3>1. j \in DOMAIN jobs
      BY <2>1, <2>9, LenProperties DEF Beat, TypeOK
    <3> QED
      BY <2>2, <2>6, <2>9, <3>1 DEF Beat
  <2>10. ASSUME NEW j \in 1..MaxJobs, HeartbeatAges(j) PROVE A
    BY <2>6, <2>10 DEF HeartbeatAges
  <2> QED
    BY <2>2, <2>4, <2>7, <2>8, <2>9, <2>10
    DEF Next, FindNoActiveJob, InsertJob, DatabaseFails, Crash, RequestRuns, RequestEnds, ReviewAdvances
<1> QED
  BY <1>1, QueueInvariant, PTL DEF Spec, JobsMoveForward

\* A status changes along the table only, although a worker that finishes and a /run
\* request that ends do not look at it again (workflow/state_machine.py:46).
THEOREM QueueFollowsTable == Spec => StatusFollowsTable
<1> DEFINE A == \A s \in Sessions :
                   status'[s] # status[s] => ValidTransition(status[s], status'[s])
<1>1. \A s \in LEASE_ACQUIRABLE_STATES : ValidTransition(s, "VERIFYING")
  BY DEF ValidTransition, ALLOWED_TRANSITIONS
<1>2. \A new \in {"PENDING_HUMAN_REVIEW", "FAILED_RETRIABLE", "FAILED_PURGED",
                  "ABANDONED_VERIFYING"} : ValidTransition("VERIFYING", new)
  BY DEF ValidTransition, ALLOWED_TRANSITIONS
<1>3. QueueInv /\ [Next]_vars => [A]_vars
  <2> SUFFICES ASSUME QueueInv, Next PROVE A
    OBVIOUS
  <2> USE DEF sessionVars
  <2>1. status \in [Sessions -> SessionState]
    BY DEF QueueInv, TypeOK
  <2>2. CASE UNCHANGED status
    BY <2>2
  <2>3. ASSUME NEW s \in Sessions, NEW new \in SessionState, ValidTransition(status[s], new),
               status' = [status EXCEPT ![s] = new]
        PROVE  A
    BY <2>1, <2>3
  <2>4. ASSUME NEW w \in Workers, Iterate(w) PROVE A
    <3>1. pc[w] \in Holding => SessionOf(w) \in Sessions
      BY HeldJob DEF QueueInv
    <3>2. CASE ScanSessions(w)
      BY <1>2, <3>2 DEF ScanSessions
    <3>3. CASE AcquireLease(w)
      BY <1>1, <2>2, <2>3, <3>1, <3>3 DEF AcquireLease, Holding, SessionState
    <3>4. CASE PipelineReturns(w)
      BY <1>2, <2>3, <3>1, <3>4 DEF PipelineReturns, Holding, SessionState
    <3>5. CASE PipelineRaises(w)
      BY <2>2, <2>3, <3>1, <3>5 DEF PipelineRaises, Holding, SessionState
    <3> QED
      BY <2>2, <2>4, <3>2, <3>3, <3>4, <3>5
      DEF Iterate, ExpireJobs, ReadOldestPending, ClaimJob, MarkJobSkipped, MarkJobDone,
          MarkJobFailed, MarkTerminal
  <2>5. ASSUME NEW s \in Sessions, RequestRuns(s) \/ RequestEnds(s) PROVE A
    <3>1. CASE RequestRuns(s)
      BY <1>1, <2>3, <3>1 DEF RequestRuns, SessionState
    <3>2. CASE RequestEnds(s)
      <4>1. status[s] = "VERIFYING"
        BY <3>2 DEF RequestEnds, QueueInv
      <4> QED
        BY <1>2, <2>3, <3>2, <4>1 DEF RequestEnds, SessionState
    <3> QED
      BY <2>5, <3>1, <3>2
  <2>6. ASSUME NEW s \in Sessions, ReviewAdvances(s) PROVE A
    BY <2>3, <2>6 DEF ReviewAdvances
  <2> QED
    BY <2>2, <2>4, <2>5, <2>6
    DEF Next, FindNoActiveJob, InsertJob, DatabaseFails, Crash, Beat, HeartbeatAges
<1> QED
  BY <1>3, QueueInvariant, PTL DEF Spec, StatusFollowsTable

-----------------------------------------------------------------------------
(* Active jobs                                                             *)

\* Only enqueue_job() makes a job active; of those that are, none changes its session.
NoNewActive ==
    /\ DOMAIN jobs' = DOMAIN jobs
    /\ \A j \in DOMAIN jobs :
          /\ jobs'[j].session_id = jobs[j].session_id
          /\ jobs'[j].status \in ACTIVE_JOB_STATUSES => jobs[j].status \in ACTIVE_JOB_STATUSES

LEMMA ActiveStep ==
  ASSUME QueueInv, Next
  PROVE  \/ NoNewActive /\ UNCHANGED enqueuing
         \/ \E q \in Requesters, s \in Sessions : FindNoActiveJob(q, s)
         \/ \E q \in Requesters : InsertJob(q)
<1> USE DEF sessionVars, workerVars, ACTIVE_JOB_STATUSES
<1>1. TypeOK
  BY DEF QueueInv
<1>2. ASSUME UNCHANGED jobs PROVE NoNewActive
  BY <1>2 DEF NoNewActive
<1>3. ASSUME NEW w \in Workers, ExpireJobs(w) PROVE NoNewActive
  BY <1>1, <1>3, ExpireTyped DEF NoNewActive, ExpireJobs
<1>4. ASSUME NEW w \in Workers, pc[w] = "claiming", Job(w).status = "PENDING",
             jobs' = [jobs EXCEPT ![held[w]] = Claimed(@, w)]
      PROVE  NoNewActive
  BY <1>1, <1>4, ClaimTyped DEF NoNewActive, Job
<1>5. ASSUME NEW w \in Workers, pc[w] \in Holding, NEW new \in TERMINAL_JOB_STATUSES,
             MarkTerminal(w, new)
      PROVE  NoNewActive
  BY <1>1, <1>5, MarkTyped DEF NoNewActive, MarkTerminal, TERMINAL_JOB_STATUSES
<1>6. ASSUME NEW j \in DOMAIN jobs, NEW h \in {"fresh", "old"},
             jobs' = [jobs EXCEPT ![j] = [@ EXCEPT !.heartbeat_at = h]]
      PROVE  NoNewActive
  BY <1>1, <1>6, HeartbeatTyped DEF NoNewActive
<1>7. ASSUME NEW w \in Workers, Iterate(w) PROVE NoNewActive
  <2>1. CASE ClaimJob(w)
    BY <1>2, <1>4, <2>1 DEF ClaimJob
  <2>2. CASE MarkJobSkipped(w) \/ MarkJobDone(w) \/ MarkJobFailed(w)
    BY <1>5, <2>2
    DEF MarkJobSkipped, MarkJobDone, MarkJobFailed, Holding, TERMINAL_JOB_STATUSES
  <2> QED
    BY <1>2, <1>3, <1>7, <2>1, <2>2
    DEF Iterate, ScanSessions, ReadOldestPending, AcquireLease, PipelineReturns, PipelineRaises
<1>8. ASSUME NEW w \in Workers, NEW j \in 1..MaxJobs, Beat(w, j) PROVE NoNewActive
  <2>1. j \in DOMAIN jobs
    BY <1>1, <1>8, LenProperties DEF Beat, TypeOK
  <2> QED
    BY <1>2, <1>6, <1>8, <2>1 DEF Beat
<1>9. ASSUME NEW j \in 1..MaxJobs, HeartbeatAges(j) PROVE NoNewActive
  BY <1>6, <1>9 DEF HeartbeatAges
<1>10. ASSUME NEW w \in Workers, DatabaseFails(w) PROVE NoNewActive
  BY <1>2, <1>4, <1>10 DEF DatabaseFails
<1>11. \/ NoNewActive
       \/ \E q \in Requesters, s \in Sessions : FindNoActiveJob(q, s)
       \/ \E q \in Requesters : InsertJob(q)
  BY <1>2, <1>7, <1>8, <1>9, <1>10 DEF Next, Crash, RequestRuns, RequestEnds, ReviewAdvances
<1>12. \/ UNCHANGED enqueuing
       \/ \E q \in Requesters, s \in Sessions : FindNoActiveJob(q, s)
       \/ \E q \in Requesters : InsertJob(q)
  BY DEF Next, Iterate, ScanSessions, ExpireJobs, ReadOldestPending, ClaimJob, AcquireLease,
         PipelineReturns, PipelineRaises, MarkJobSkipped, MarkJobDone, MarkJobFailed,
         MarkTerminal, Beat, HeartbeatAges, RequestRuns, RequestEnds, ReviewAdvances,
         DatabaseFails, Crash
<1> QED
  BY <1>11, <1>12

\* The sets of the bound are finite.
LEMMA FiniteSides ==
  ASSUME TypeOK, NEW s
  PROVE  /\ IsFiniteSet(ActiveJobsOf(s)) /\ Cardinality(ActiveJobsOf(s)) \in Nat
         /\ IsFiniteSet(EnqueuersOf(s)) /\ Cardinality(EnqueuersOf(s)) \in Nat
         /\ Cardinality(Requesters) \in Nat
<1>1. IsFiniteSet(DOMAIN jobs)
  <2>1. Len(jobs) \in Nat /\ DOMAIN jobs = 1..Len(jobs)
    BY LenProperties DEF TypeOK
  <2> QED
    BY <2>1, FS_Interval
<1>2. ActiveJobsOf(s) \in SUBSET DOMAIN jobs /\ EnqueuersOf(s) \in SUBSET Requesters
  BY DEF ActiveJobsOf, EnqueuersOf
<1>3. IsFiniteSet(Requesters)
  BY QueueAssumption
<1> QED
  BY <1>1, <1>2, <1>3, FS_Subset, FS_CardinalityType

\* A sum of cardinalities does not grow when the sets do not.
LEMMA SumShrinks ==
  ASSUME NEW A, NEW E, IsFiniteSet(A), IsFiniteSet(E), NEW n \in Nat,
         Cardinality(A) + Cardinality(E) <= n,
         NEW B \in SUBSET A, NEW F \in SUBSET E
  PROVE  Cardinality(B) + Cardinality(F) <= n
<1>1. Cardinality(B) <= Cardinality(A) /\ Cardinality(F) <= Cardinality(E)
  BY FS_Subset
<1>2. IsFiniteSet(B) /\ IsFiniteSet(F)
  BY FS_Subset
<1> QED
  BY <1>1, <1>2, FS_CardinalityType

\* A session has at most one active job for every thread that may enqueue, in spite of
\* the check that is not atomic with the insert (workflow/job_queue.py:40).
THEOREM ActiveJobsAreBounded == Spec => []ActiveJobsBounded
<1> DEFINE n == Cardinality(Requesters)
           Bounded(A, E) == Cardinality(A) + Cardinality(E) <= n
<1>0. n \in Nat
  BY QueueAssumption, FS_CardinalityType
<1>1. Init => ActiveJobsBounded
  <2> SUFFICES ASSUME Init, NEW s \in Sessions
               PROVE  Bounded(ActiveJobsOf(s), EnqueuersOf(s))
    BY DEF ActiveJobsBounded
  <2>1. ActiveJobsOf(s) = {} /\ EnqueuersOf(s) = {}
    BY DEF Init, ActiveJobsOf, EnqueuersOf
  <2> QED
    BY <1>0, <2>1, FS_EmptySet
<1>2. QueueInv /\ ActiveJobsBounded /\ [Next]_vars => ActiveJobsBounded'
  <2> SUFFICES ASSUME QueueInv, ActiveJobsBounded, [Next]_vars, NEW s \in Sessions
               PROVE  Bounded(ActiveJobsOf(s)', EnqueuersOf(s)')
    BY DEF ActiveJobsBounded
  <2>1. TypeOK
    BY DEF QueueInv
  <2>2. /\ IsFiniteSet(ActiveJobsOf(s)) /\ IsFiniteSet(EnqueuersOf(s))
        /\ Bounded(ActiveJobsOf(s), EnqueuersOf(s))
    BY <2>1, FiniteSides DEF ActiveJobsBounded
  <2>3. ASSUME ActiveJobsOf(s)' \subseteq ActiveJobsOf(s),
               EnqueuersOf(s)' \subseteq EnqueuersOf(s)
        PROVE  Bounded(ActiveJobsOf(s)', EnqueuersOf(s)')
    BY <1>0, <2>2, <2>3, SumShrinks
  <2>4. CASE NoNewActive /\ UNCHANGED enqueuing
    BY <2>3, <2>4 DEF NoNewActive, ActiveJobsOf, EnqueuersOf
  <2>5. CASE UNCHANGED vars
    BY <2>3, <2>5 DEF vars, ActiveJobsOf, EnqueuersOf
  <2>6. ASSUME NEW q \in Requesters, NEW t \in Sessions, FindNoActiveJob(q, t)
        PROVE  Bounded(ActiveJobsOf(s)', EnqueuersOf(s)')
    <3>1. CASE t = s
      <4>1. ActiveJobsOf(s)' = {}
        BY <2>6, <3>1 DEF FindNoActiveJob, ActiveJobsOf
      <4>2. Cardinality(EnqueuersOf(s)') <= n /\ Cardinality(EnqueuersOf(s)') \in Nat
        <5>1. EnqueuersOf(s)' \in SUBSET Requesters
          BY DEF EnqueuersOf
        <5> QED
          BY <5>1, QueueAssumption, FS_Subset, FS_CardinalityType
      <4> QED
        BY <1>0, <4>1, <4>2, FS_EmptySet
    <3>2. CASE t # s
      BY <2>1, <2>3, <2>6, <3>2 DEF FindNoActiveJob, ActiveJobsOf, EnqueuersOf, TypeOK
    <3> QED
      BY <3>1, <3>2
  <2>7. ASSUME NEW q \in Requesters, InsertJob(q)
        PROVE  Bounded(ActiveJobsOf(s)', EnqueuersOf(s)')
    <3>1. EnqueuersOf(s)' = EnqueuersOf(s) \ {q}
      BY <2>1, <2>7 DEF InsertJob, EnqueuersOf, TypeOK
    <3>2. PICK t \in enqueuing[q] :
              \/ jobs' = Append(jobs, [session_id |-> t, status |-> "PENDING",
                                       worker_id |-> NoWorker, attempts |-> 0,
                                       heartbeat_at |-> "NULL"])
              \/ UNCHANGED jobs
      BY <2>7 DEF InsertJob
    <3>3. CASE UNCHANGED jobs
      BY <2>3, <3>1, <3>3 DEF ActiveJobsOf
    <3>4. CASE jobs' = Append(jobs, [session_id |-> t, status |-> "PENDING",
                                     worker_id |-> NoWorker, attempts |-> 0,
                                     heartbeat_at |-> "NULL"])
      <4>1. /\ DOMAIN jobs = 1..Len(jobs) /\ Len(jobs) \in Nat
            /\ DOMAIN jobs' = 1..(Len(jobs) + 1)
            /\ \A j \in DOMAIN jobs : jobs'[j] = jobs[j]
            /\ jobs'[Len(jobs) + 1].session_id = t
        BY <2>1, <3>4 DEF TypeOK
      <4>2. CASE t = s
        <5>1. ActiveJobsOf(s)' \subseteq ActiveJobsOf(s) \cup {Len(jobs) + 1}
          BY <4>1 DEF ActiveJobsOf
        <5>2. q \in EnqueuersOf(s)
          BY <3>2, <4>2 DEF EnqueuersOf
        <5>3. Bounded(ActiveJobsOf(s) \cup {Len(jobs) + 1}, EnqueuersOf(s) \ {q})
          <6>1. /\ Cardinality(EnqueuersOf(s) \ {q}) = Cardinality(EnqueuersOf(s)) - 1
                /\ Cardinality(EnqueuersOf(s)) \in Nat
            BY <2>2, <5>2, FS_RemoveElement, FS_CardinalityType
          <6>2. /\ \/ Cardinality(ActiveJobsOf(s) \cup {Len(jobs) + 1})
                         = Cardinality(ActiveJobsOf(s))
                   \/ Cardinality(ActiveJobsOf(s) \cup {Len(jobs) + 1})
                         = Cardinality(ActiveJobsOf(s)) + 1
                /\ Cardinality(ActiveJobsOf(s)) \in Nat
            BY <2>2, FS_AddElement, FS_CardinalityType
          <6> QED
            BY <1>0, <2>2, <6>1, <6>2
        <5>4. /\ IsFiniteSet(ActiveJobsOf(s) \cup {Len(jobs) + 1})
              /\ IsFiniteSet(EnqueuersOf(s) \ {q})
          BY <2>2, FS_AddElement, FS_RemoveElement
        <5> QED
          BY <1>0, <3>1, <5>1, <5>3, <5>4, SumShrinks
      <4>3. CASE t # s
        BY <2>3, <3>1, <4>1, <4>3 DEF ActiveJobsOf
      <4> QED
        BY <4>2, <4>3
    <3> QED
      BY <3>2, <3>3, <3>4
  <2> QED
    BY <2>4, <2>5, <2>6, <2>7, ActiveStep
<1> QED
  BY <1>1, <1>2, QueueInvariant, PTL DEF Spec
=============================================================================
