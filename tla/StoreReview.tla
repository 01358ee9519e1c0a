------------------------------ MODULE StoreReview ------------------------------
(***************************************************************************)
(* A submission from its finalization to its approval.  Finalizing leaves  *)
(* a scan-requested event in the outbox; scan workers turn events into     *)
(* jobs, lease the jobs and commit their reports; two reviewers decide one *)
(* after the other; the developer may withdraw at any moment before that.  *)
(*                                                                         *)
(* Every operation of the control server, and each of the statements a     *)
(* worker commits on its own, is one SERIALIZABLE transaction and here one *)
(* action.  A request whose expected version is not the present one has no *)
(* effect, so a request is modelled with the version it must have.         *)
(***************************************************************************)
EXTENDS Naturals, FiniteSets

CONSTANTS
    Submissions,
    Reviewers,
    Workers,            \* processes of cp0-store-scan-worker
    MaxAttempts         \* MAX_ATTEMPTS

ASSUME MaxAttemptsAssumption == MaxAttempts \in Nat

VARIABLES
    submissions,        \* the submissions: state and resource_version
    events,             \* scan-requested outbox events not published: submission, version
    jobs,               \* submission_scan_jobs, one for a submission
    results,            \* submission_scan_results: the outcome
    assignments,        \* review_assignments with their review_decisions
    worker              \* the workers

vars == <<submissions, events, jobs, results, assignments, worker>>

Promise == INSTANCE StoreControl

States == {"none", "uploading", "processing", "ready-for-review", "in-review",
           "pending-secondary-review", "needs-changes", "approved", "rejected", "withdrawn"}
Outcomes == {"ready-for-review", "needs-changes", "rejected"}
Decisions == {"approved", "needs-changes", "rejected"}

NoJob == [state |-> "none", attempts |-> 0, lapsed |-> FALSE, version |-> 0]
Resting == [pc |-> "enqueue", sub |-> {}, lease |-> 0, version |-> 0, outcome |-> "none"]

Init ==
    /\ submissions = [s \in Submissions |-> Promise!NoSubmission]
    /\ events = {}
    /\ jobs = [s \in Submissions |-> NoJob]
    /\ results = [s \in Submissions |-> "none"]
    /\ assignments = [s \in Submissions |-> {}]
    /\ worker = [w \in Workers |-> Resting]

\* state = target, resource_version + 1
Transition(s, target) ==
    submissions' = [submissions EXCEPT
        ![s] = [state |-> target, version |-> submissions[s].version + 1]]

----------------------------------------------------------------------------
(* The developer                                                           *)

\* A new submission has version 0.
Fault_CreateSubmission(s) ==
    /\ submissions[s].state = "none"
    /\ submissions' = [submissions EXCEPT ![s] = [state |-> "uploading", version |-> 0]]
    /\ UNCHANGED <<events, jobs, results, assignments, worker>>

CreateSubmission(s) ==
    /\ submissions[s].state = "none"
    /\ submissions' = [submissions EXCEPT ![s] = [state |-> "uploading", version |-> 1]]
    /\ UNCHANGED <<events, jobs, results, assignments, worker>>

\* With every part uploaded and verified.
FinalizeSubmission(s) ==
    /\ submissions[s].state = "uploading"
    /\ Transition(s, "processing")
    /\ events' = events \cup {<<s, submissions[s].version + 1>>}
    /\ UNCHANGED <<jobs, results, assignments, worker>>

Cancelled(a) == IF a.state = "active" THEN [a EXCEPT !.state = "cancelled"] ELSE a

WithdrawSubmission(s) ==
    /\ Promise!CanTransition(submissions[s].state, "withdrawn")
    /\ Transition(s, "withdrawn")
    /\ jobs' = [jobs EXCEPT ![s].state = IF @ \in {"queued", "running"} THEN "cancelled" ELSE @]
    /\ assignments' = [assignments EXCEPT ![s] = {Cancelled(a) : a \in @}]
    /\ events' = {e \in events : e[1] # s}
    /\ UNCHANGED <<results, worker>>

----------------------------------------------------------------------------
(* The scan workers: run_once                                              *)

\* The worker is at pc and goes on to next.
Goes(w, pc, next) ==
    /\ worker[w].pc = pc
    /\ worker' = [worker EXCEPT ![w].pc = next]

Enqueue(w) ==
    /\ Goes(w, "enqueue", "recover")
    /\ \/ /\ events = {}
          /\ UNCHANGED <<jobs, events>>
       \/ \E e \in events :
             /\ events' = events \ {e}
             /\ jobs' = [jobs EXCEPT ![e[1]] = [NoJob EXCEPT !.state = "queued", !.version = e[2]]]
    /\ UNCHANGED <<submissions, results, assignments>>

\* recover_expired_leases and defer_job: back into the queue, or given up.
Released(job) == IF job.attempts >= MaxAttempts THEN "failed" ELSE "queued"

\* Leases are never taken back.
Fault_RecoverExpiredLeases(w) ==
    /\ Goes(w, "recover", "claim")
    /\ UNCHANGED <<submissions, events, jobs, results, assignments>>

RecoverExpiredLeases(w) ==
    /\ Goes(w, "recover", "claim")
    /\ jobs' = [s \in Submissions |->
          IF jobs[s].state = "running" /\ jobs[s].lapsed
          THEN [jobs[s] EXCEPT !.state = Released(jobs[s]), !.lapsed = FALSE] ELSE jobs[s]]
    /\ UNCHANGED <<submissions, events, results, assignments>>

Claimable == {s \in Submissions : jobs[s].state = "queued" /\ jobs[s].attempts < MaxAttempts}

\* The lease token is fresh; so is the number of the attempt.
ClaimOne(w) ==
    /\ worker[w].pc = "claim"
    /\ \/ /\ Claimable = {}
          /\ worker' = [worker EXCEPT ![w] = Resting]
          /\ UNCHANGED jobs
       \/ \E s \in Claimable :
             /\ jobs' = [jobs EXCEPT ![s].state = "running", ![s].attempts = @ + 1,
                                     ![s].lapsed = FALSE]
             /\ worker' = [worker EXCEPT ![w] = [pc |-> "load", sub |-> {s},
                   lease |-> jobs[s].attempts + 1, version |-> jobs[s].version,
                   outcome |-> "none"]]
    /\ UNCHANGED <<submissions, events, results, assignments>>

\* What the job was made for is still there.
SourceCurrent(w, s) ==
    submissions[s].state = "processing" /\ submissions[s].version = worker[w].version

\* load_bundle and the scan; anything that goes wrong defers the job.
LoadBundle(w) ==
    /\ worker[w].pc = "load"
    /\ \/ \E s \in worker[w].sub, outcome \in Outcomes :
             /\ SourceCurrent(w, s)
             /\ worker' = [worker EXCEPT ![w].pc = "complete", ![w].outcome = outcome]
       \/ worker' = [worker EXCEPT ![w].pc = "defer"]
    /\ UNCHANGED <<submissions, events, jobs, results, assignments>>

HoldsLease(w, s) == jobs[s].state = "running" /\ jobs[s].attempts = worker[w].lease

\* The job is left running.
Fault_CompleteJob(w) ==
    /\ worker[w].pc = "complete"
    /\ \E s \in worker[w].sub :
          /\ HoldsLease(w, s) /\ SourceCurrent(w, s)
          /\ results' = [results EXCEPT ![s] = worker[w].outcome]
          /\ Transition(s, worker[w].outcome)
          /\ worker' = [worker EXCEPT ![w] = Resting]
    /\ UNCHANGED <<events, jobs, assignments>>

CompleteJob(w) ==
    /\ worker[w].pc = "complete"
    /\ \/ \E s \in worker[w].sub :
             /\ HoldsLease(w, s) /\ SourceCurrent(w, s)
             /\ results' = [results EXCEPT ![s] = worker[w].outcome]
             /\ Transition(s, worker[w].outcome)
             /\ jobs' = [jobs EXCEPT ![s].state = "completed", ![s].lapsed = FALSE]
             /\ worker' = [worker EXCEPT ![w] = Resting]
       \/ /\ worker' = [worker EXCEPT ![w].pc = "defer"]
          /\ UNCHANGED <<submissions, results, jobs>>
    /\ UNCHANGED <<events, assignments>>

DeferJob(w) ==
    /\ worker[w].pc = "defer"
    /\ jobs' = [s \in Submissions |->
          IF s \in worker[w].sub /\ HoldsLease(w, s)
          THEN [jobs[s] EXCEPT !.state = Released(jobs[s]), !.lapsed = FALSE] ELSE jobs[s]]
    /\ worker' = [worker EXCEPT ![w] = Resting]
    /\ UNCHANGED <<submissions, events, results, assignments>>

\* LEASE_SECONDS pass.
LeaseLapses(s) ==
    /\ jobs[s].state = "running" /\ ~jobs[s].lapsed
    /\ jobs' = [jobs EXCEPT ![s].lapsed = TRUE]
    /\ UNCHANGED <<submissions, events, results, assignments, worker>>

\* A worker stops in the middle, for a crash or a failed statement, and starts again.
WorkerStops(w) ==
    /\ worker[w] # Resting
    /\ worker' = [worker EXCEPT ![w] = Resting]
    /\ UNCHANGED <<submissions, events, jobs, results, assignments>>

WorkerStep(w) ==
    \/ Enqueue(w) \/ RecoverExpiredLeases(w) \/ ClaimOne(w)
    \/ LoadBundle(w) \/ CompleteJob(w) \/ DeferJob(w)

----------------------------------------------------------------------------
(* The reviewers                                                           *)

\* The first reviewer may review again.
Fault_BeginReview(r, s) ==
    /\ submissions[s].state \in {"ready-for-review", "pending-secondary-review"}
    /\ assignments' = [assignments EXCEPT ![s] = @ \cup {[reviewer |-> r, state |-> "active",
          kind |-> IF submissions[s].state = "ready-for-review" THEN "primary" ELSE "secondary",
          decision |-> "none"]}]
    /\ Transition(s, "in-review")
    /\ UNCHANGED <<events, jobs, results, worker>>

BeginReview(r, s) ==
    /\ submissions[s].state \in {"ready-for-review", "pending-secondary-review"}
    /\ submissions[s].state = "pending-secondary-review" =>
          /\ \E a \in assignments[s] : a.kind = "primary" /\ a.state = "completed"
          /\ ~\E a \in assignments[s] :
                a.kind = "primary" /\ a.state = "completed" /\ a.reviewer = r
    /\ assignments' = [assignments EXCEPT ![s] = @ \cup {[reviewer |-> r, state |-> "active",
          kind |-> IF submissions[s].state = "ready-for-review" THEN "primary" ELSE "secondary",
          decision |-> "none"]}]
    /\ Transition(s, "in-review")
    /\ UNCHANGED <<events, jobs, results, worker>>

DecideReview(r, s, decision) ==
    /\ submissions[s].state = "in-review"
    /\ \E a \in assignments[s] :
          /\ a.reviewer = r /\ a.state = "active"
          /\ assignments' = [assignments EXCEPT ![s] =
                (@ \ {a}) \cup {[a EXCEPT !.state = "completed", !.decision = decision]}]
          /\ Transition(s, IF decision # "approved" THEN decision
                           ELSE IF a.kind = "primary" THEN "pending-secondary-review"
                           ELSE "approved")
    /\ UNCHANGED <<events, jobs, results, worker>>

Review(s) ==
    \E r \in Reviewers : BeginReview(r, s) \/ \E d \in Decisions : DecideReview(r, s, d)

Work ==
    \/ \E s \in Submissions :
          \/ CreateSubmission(s) \/ FinalizeSubmission(s) \/ WithdrawSubmission(s)
          \/ LeaseLapses(s) \/ Review(s)
    \/ \E w \in Workers : WorkerStep(w)

Next == Work \/ \E w \in Workers : WorkerStops(w)

Spec == Init /\ [][Next]_vars

\* The workers poll for ever, and time passes.
Fairness ==
    /\ \A w \in Workers : WF_vars(WorkerStep(w))
    /\ \A s \in Submissions : WF_vars(LeaseLapses(s))

----------------------------------------------------------------------------
(* The triggers of the database                                            *)

\* A completed assignment of this kind whose decision is d.
Decided(as, kind, d) == {a \in as : a.kind = kind /\ a.state = "completed" /\ a.decision = d}

\* protect_submission_state_transition, for the rows at the end of the handler.
SubmissionTrigger(old, new, as) ==
    /\ new.version = old.version + 1
    /\ \/ old.state = "uploading" /\ new.state \in {"uploading", "processing", "withdrawn"}
       \/ old.state = "processing" /\ new.state \in Outcomes \cup {"withdrawn"}
       \/ /\ old.state = "ready-for-review" /\ new.state = "in-review"
          /\ \E a \in as : a.kind = "primary" /\ a.state = "active"
       \/ /\ old.state = "pending-secondary-review" /\ new.state = "in-review"
          /\ \E a \in as : a.kind = "secondary" /\ a.state = "active"
       \/ /\ old.state = "in-review" /\ new.state = "pending-secondary-review"
          /\ Decided(as, "primary", "approved") # {}
       \/ /\ old.state = "in-review" /\ new.state = "approved"
          /\ \E a \in Decided(as, "primary", "approved"), b \in Decided(as, "secondary", "approved") :
                a.reviewer # b.reviewer
       \/ /\ old.state = "in-review" /\ new.state \in {"needs-changes", "rejected"}
          /\ Decided(as, "primary", new.state) \cup Decided(as, "secondary", new.state) # {}
       \/ /\ old.state \in {"ready-for-review", "in-review", "pending-secondary-review"}
          /\ new.state = "withdrawn"

\* protect_submission_scan_job
JobTrigger(old, new) ==
    /\ new.version = old.version /\ new.attempts >= old.attempts
    /\ \/ old.state = "queued" /\ new.state \in {"running", "cancelled"}
       \/ old.state = "running" /\ new.state \in {"queued", "completed", "failed", "cancelled"}

\* enforce_review_assignment_stage, for a new assignment among the others.
AssignmentTrigger(new, others, state) ==
    /\ new.state = "active"
    /\ new.kind = "primary" => state = "ready-for-review" /\ others = {}
    /\ new.kind = "secondary" =>
          /\ state = "pending-secondary-review"
          /\ \A a \in others : a.reviewer # new.reviewer
          /\ Decided(others, "primary", "approved") # {}

----------------------------------------------------------------------------
(* Properties                                                              *)

Assignment == [reviewer : Reviewers, kind : {"primary", "secondary"},
               state : {"active", "completed", "cancelled"}, decision : Decisions \cup {"none"}]

Row == [state : States, version : Nat]

ScanJob == [state : {"none", "queued", "running", "completed", "failed", "cancelled"},
            attempts : 0 .. MaxAttempts, lapsed : BOOLEAN, version : Nat]

ScanWorker == [pc : {"enqueue", "recover", "claim", "load", "complete", "defer"},
               sub : SUBSET Submissions, lease : 0 .. MaxAttempts, version : Nat,
               outcome : Outcomes \cup {"none"}]

\* The types of the tables and of the workers.
TypeOK ==
    /\ submissions \in [Submissions -> Row]
    /\ events \subseteq Submissions \X Nat
    /\ jobs \in [Submissions -> ScanJob]
    /\ results \in [Submissions -> Outcomes \cup {"none"}]
    /\ assignments \in [Submissions -> SUBSET Assignment]
    /\ worker \in [Workers -> ScanWorker]

\* An approved submission passed its scan and was approved by two different
\* reviewers, whatever workers and reviewers did at the same time
\* (complete_job, begin_review_once, decide_review_once).
ApprovedByTwo ==
    \A s \in Submissions : submissions[s].state = "approved" =>
        /\ results[s] = "ready-for-review"
        /\ \E a \in Decided(assignments[s], "primary", "approved"),
             b \in Decided(assignments[s], "secondary", "approved") : a.reviewer # b.reviewer

\* A submission is in review exactly while one assignment is active, and never
\* has two: whoever begins a review can decide it, and nobody else can.
OneActiveReview ==
    \A s \in Submissions :
        LET Active == {a \in assignments[s] : a.state = "active"}
        IN  /\ submissions[s].state = "in-review" <=> Active # {}
            /\ \A a, b \in Active : a = b

\* A submission waits for its scan exactly while an event, a job under way or a
\* failed job stands for it; once it went on, or was withdrawn, nothing of the
\* scan is left to act on it (withdraw_submission_once, complete_job).
ScanAccounted ==
    \A s \in Submissions :
        LET Pending == \E e \in events : e[1] = s
        IN  /\ submissions[s].state = "processing" =>
                  (Pending <=> jobs[s].state = "none")
                  /\ jobs[s].state \in {"none", "queued", "running", "failed"}
            /\ submissions[s].state # "processing" =>
                  ~Pending /\ jobs[s].state \notin {"queued", "running"}

\* A report is committed once, by the holder of the lease, for the version that
\* was finalized; and then the job is done.
ReportCommittedOnce ==
    /\ \A s \in Submissions : results[s] # "none" <=> jobs[s].state = "completed"
    /\ \A w \in Workers : \A s \in worker[w].sub :
          worker[w].pc = "complete" /\ HoldsLease(w, s) => SourceCurrent(w, s)

\* Scans and reviews: one report by the holder of the lease and no work left
\* over; two different reviewers for an approval, one of them at a time.
ReviewSound ==
    TypeOK /\ ReportCommittedOnce /\ ScanAccounted /\ ApprovedByTwo /\ OneActiveReview

\* The triggers accept what a step does to submission s, its job and its assignments.
TriggersAccept(s) ==
    /\ submissions[s].state # "none" /\ submissions'[s] # submissions[s] =>
          SubmissionTrigger(submissions[s], submissions'[s], assignments'[s])
    /\ jobs[s].state # "none" /\ [jobs'[s] EXCEPT !.lapsed = FALSE] # [jobs[s] EXCEPT !.lapsed = FALSE] =>
          JobTrigger(jobs[s], jobs'[s])
    /\ \A a \in assignments'[s] : a.state = "active" /\ a \notin assignments[s] =>
          AssignmentTrigger(a, assignments[s], submissions[s].state)

\* No trigger ever refuses what a handler does, so no request that passed the
\* checks of its handler ends in a database error.
TriggersAgree == [][\A s \in Submissions : TriggersAccept(s)]_vars

\* The server, its workers and its database together do what the reference
\* control plane does.
Implements == Promise!Spec

\* A finalized submission leaves its scan, unless its job failed for good: no
\* event or job is forgotten when a worker stops.
ScanSettles ==
    \A s \in Submissions : submissions[s].state = "processing" ~>
        submissions[s].state # "processing" \/ jobs[s].state = "failed"
===============================================================================
