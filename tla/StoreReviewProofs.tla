--------------------------- MODULE StoreReviewProofs ---------------------------
(* Proofs about StoreReview, for every set of submissions, reviewers and   *)
(* workers and every number of attempts: its invariant, the agreement of   *)
(* handlers and triggers, and that it implements StoreControl.             *)
EXTENDS StoreReview, TLAPS

----------------------------------------------------------------------------
(* The inductive invariant                                                 *)

\* What a scan was asked for is the submission as it stands: events, jobs
\* under way and workers carry its version.
VersionsAgree ==
    /\ \A e \in events : e[2] = submissions[e[1]].version
    /\ \A s \in Submissions :
          /\ jobs[s].state \in {"queued", "running"} => jobs[s].version = submissions[s].version
          /\ submissions[s].state \in {"none", "uploading"} => jobs[s].state = "none"
          /\ submissions[s].state = "none" => submissions[s].version = 0
    /\ \A w \in Workers :
          /\ \A s \in worker[w].sub : jobs[s].state # "none" /\ worker[w].version = jobs[s].version
          /\ worker[w].pc = "complete" => worker[w].outcome \in Outcomes

\* Only what passed its scan is reviewed.
ScannedFirst ==
    \A s \in Submissions :
        submissions[s].state \in {"ready-for-review", "in-review", "pending-secondary-review", "approved"} =>
            results[s] = "ready-for-review"

FirstApproval(a) == a.kind = "primary" /\ a.state = "completed" /\ a.decision = "approved"

\* The review under way: the first, or the second beside the first's approval
\* by another reviewer.
UnderWay(a, as) ==
    /\ a.state = "active"
    /\ a.kind = "primary" => as = {a}
    /\ a.kind = "secondary" =>
          /\ as # {a}
          /\ \A b \in as : b # a => FirstApproval(b) /\ b.reviewer # a.reviewer

\* The assignments a submission has in each state.
Stage(state, as) ==
    /\ state \in {"none", "uploading", "processing", "ready-for-review"} => as = {}
    /\ state = "pending-secondary-review" => as # {} /\ \A a \in as : FirstApproval(a)
    /\ state = "in-review" => \E a \in as : UnderWay(a, as)
    /\ state \in {"needs-changes", "rejected", "approved", "withdrawn"} =>
          \A a \in as : a.state # "active"
    /\ state = "approved" =>
          \E a \in Decided(as, "primary", "approved"), b \in Decided(as, "secondary", "approved") :
              a.reviewer # b.reviewer

StagesSound == \A s \in Submissions : Stage(submissions[s].state, assignments[s])

Reported == \A s \in Submissions : results[s] # "none" <=> jobs[s].state = "completed"

IInv == TypeOK /\ VersionsAgree /\ Reported /\ ScanAccounted /\ ScannedFirst /\ StagesSound

(* The invariant the runs check follows. *)
LEMMA InvariantIsSound == IInv => ReviewSound
<1> SUFFICES ASSUME IInv PROVE ReviewSound
  OBVIOUS
<1>1. TypeOK /\ Reported /\ ScanAccounted /\ VersionsAgree /\ StagesSound /\ ScannedFirst
  BY DEF IInv
<1>2. ReportCommittedOnce
  <2>1. ASSUME NEW w \in Workers, NEW s \in worker[w].sub, HoldsLease(w, s) PROVE SourceCurrent(w, s)
    <3>1. s \in Submissions /\ jobs[s].state = "running"
      BY <1>1, <2>1 DEF TypeOK, Row, ScanJob, ScanWorker, HoldsLease
    <3>2. submissions[s].state = "processing"
      BY <1>1, <3>1 DEF ScanAccounted
    <3>3. jobs[s].version = submissions[s].version /\ worker[w].version = jobs[s].version
      BY <1>1, <3>1 DEF VersionsAgree
    <3> QED BY <3>2, <3>3 DEF SourceCurrent
  <2> QED BY <1>1, <2>1 DEF ReportCommittedOnce, Reported
<1>3. ApprovedByTwo
  <2>1. ASSUME NEW s \in Submissions, submissions[s].state = "approved"
        PROVE  /\ results[s] = "ready-for-review"
               /\ \E a \in Decided(assignments[s], "primary", "approved"),
                    b \in Decided(assignments[s], "secondary", "approved") : a.reviewer # b.reviewer
    BY <1>1, <2>1 DEF ScannedFirst, StagesSound, Stage
  <2> QED BY <2>1 DEF ApprovedByTwo
<1>4. OneActiveReview
  <2>1. ASSUME NEW s \in Submissions
        PROVE  /\ submissions[s].state = "in-review" <=> \E a \in assignments[s] : a.state = "active"
               /\ \A a, b \in assignments[s] : a.state = "active" /\ b.state = "active" => a = b
    <3>1. Stage(submissions[s].state, assignments[s]) /\ submissions[s].state \in States
      BY <1>1 DEF StagesSound, TypeOK, Row, ScanJob, ScanWorker
    <3>2. CASE submissions[s].state = "in-review"
      <4>1. PICK a \in assignments[s] : UnderWay(a, assignments[s])
        BY <3>1, <3>2 DEF Stage
      <4>2. a.state = "active" /\ a.kind \in {"primary", "secondary"}
        BY <1>1, <4>1 DEF UnderWay, TypeOK, Row, ScanJob, ScanWorker, Assignment
      <4>3. \A b \in assignments[s] : b # a => b.state # "active"
        BY <4>1, <4>2 DEF UnderWay, FirstApproval
      <4> QED BY <3>2, <4>2, <4>3
    <3>3. CASE submissions[s].state # "in-review"
      <4>1. \A a \in assignments[s] : a.state # "active"
        BY <3>1, <3>3 DEF Stage, States, FirstApproval
      <4> QED BY <3>3, <4>1
    <3> QED BY <3>2, <3>3
  <2> QED BY <2>1 DEF OneActiveReview
<1> QED BY <1>1, <1>2, <1>3, <1>4 DEF ReviewSound

LEMMA InvariantInit == Init => IInv
<1> SUFFICES ASSUME Init PROVE IInv
  OBVIOUS
<1>1. \A s \in Submissions : /\ submissions[s].state = "none" /\ submissions[s].version = 0
                             /\ jobs[s].state = "none" /\ results[s] = "none" /\ assignments[s] = {}
  BY DEF Init, Promise!NoSubmission, NoJob
<1>2. \A w \in Workers : worker[w] = Resting /\ worker[w].sub = {} /\ worker[w].pc = "enqueue"
  BY DEF Init, Resting
<1>3. TypeOK
  BY MaxAttemptsAssumption DEF Init, Promise!NoSubmission, NoJob, Resting, TypeOK, Row, ScanJob, ScanWorker, States, Outcomes
<1>4. VersionsAgree /\ Reported /\ ScanAccounted
  BY <1>1, <1>2 DEF Init, VersionsAgree, Reported, ScanAccounted
<1>5. ScannedFirst /\ StagesSound
  BY SMTT(40), <1>1 DEF ScannedFirst, StagesSound, Stage
<1> QED BY <1>3, <1>4, <1>5 DEF IInv

----------------------------------------------------------------------------
(* One step keeps the invariant, action by action                          *)

(* The rows a worker's step can leave are well typed. *)
LEMMA WorkerRows ==
    ASSUME TypeOK, NEW w \in Workers
    PROVE  /\ Resting \in ScanWorker
           /\ \A pc \in {"recover", "claim", "defer"} : [worker[w] EXCEPT !.pc = pc] \in ScanWorker
           /\ \A outcome \in Outcomes : [worker[w] EXCEPT !.pc = "complete", !.outcome = outcome] \in ScanWorker
<1>1. Resting \in ScanWorker
  BY MaxAttemptsAssumption DEF Resting, ScanWorker
<1>2. worker[w] \in ScanWorker
  BY DEF TypeOK
<1> QED BY ZenonT(40), <1>1, <1>2 DEF ScanWorker

(* The job an event becomes. *)
LEMMA QueuedJob ==
    ASSUME NEW v \in Nat
    PROVE  [NoJob EXCEPT !.state = "queued", !.version = v] \in ScanJob
<1>1. NoJob \in ScanJob
  BY MaxAttemptsAssumption DEF NoJob, ScanJob
<1>2. ASSUME NEW job \in ScanJob PROVE [job EXCEPT !.state = "queued", !.version = v] \in ScanJob
  BY Zenon DEF ScanJob
<1> QED BY Zenon, <1>1, <1>2

(* The two updates of a scan's outcome, as one. *)
LEMMA ScannedWorker ==
    ASSUME TypeOK, NEW w \in Workers, NEW outcome \in Outcomes,
           worker' = [worker EXCEPT ![w].pc = "complete", ![w].outcome = outcome]
    PROVE  /\ worker' \in [Workers -> ScanWorker]
           /\ \A x \in Workers : /\ worker'[x].sub = worker[x].sub /\ worker'[x].version = worker[x].version
                                 /\ worker'[x].outcome \in Outcomes \/ worker'[x] = worker[x]
<1> DEFINE row == [worker[w] EXCEPT !.pc = "complete", !.outcome = outcome]
<1>1. worker[w] \in ScanWorker /\ worker \in [Workers -> ScanWorker]
  BY DEF TypeOK
<1>2. /\ row \in ScanWorker
      /\ row.sub = worker[w].sub /\ row.version = worker[w].version /\ row.outcome \in Outcomes
  BY Zenon, <1>1 DEF ScanWorker
<1>3. worker' = [worker EXCEPT ![w] = row]
  BY Zenon, <1>1
<1> HIDE DEF row
<1> QED BY Zenon, <1>1, <1>2, <1>3

LEMMA CreateKeeps ==
    ASSUME IInv, NEW s \in Submissions, CreateSubmission(s)
    PROVE  IInv'
<1>1. TypeOK'
  BY DEF IInv, TypeOK, Row, ScanJob, ScanWorker, CreateSubmission, States
<1>2. /\ \A t \in Submissions : t # s => submissions'[t] = submissions[t]
      /\ submissions[s].state = "none"
      /\ submissions'[s].state = "uploading"
      /\ UNCHANGED <<events, jobs, results, assignments, worker>>
  BY DEF IInv, TypeOK, Row, ScanJob, ScanWorker, CreateSubmission
<1>3. \A e \in events : e[1] # s /\ e[1] \in Submissions
  BY <1>2 DEF IInv, TypeOK, Row, ScanJob, ScanWorker, ScanAccounted
<1>4. VersionsAgree' /\ Reported' /\ ScanAccounted'
  BY <1>2, <1>3 DEF IInv, VersionsAgree, Reported, ScanAccounted
<1>5. ScannedFirst' /\ StagesSound'
  BY <1>2 DEF IInv, ScannedFirst, StagesSound, Stage
<1> QED BY <1>1, <1>4, <1>5 DEF IInv

LEMMA FinalizeKeeps ==
    ASSUME IInv, NEW s \in Submissions, FinalizeSubmission(s)
    PROVE  IInv'
<1> DEFINE v == submissions[s].version + 1
<1>1. /\ submissions' = [submissions EXCEPT ![s] = [state |-> "processing", version |-> v]]
      /\ submissions[s].state = "uploading" /\ submissions[s].version \in Nat
      /\ events' = events \cup {<<s, v>>}
      /\ UNCHANGED <<jobs, results, assignments, worker>>
  BY DEF IInv, TypeOK, Row, ScanJob, ScanWorker, FinalizeSubmission, Transition
<1>2. TypeOK'
  BY <1>1 DEF IInv, TypeOK, Row, ScanJob, ScanWorker, States
<1>3. /\ \A t \in Submissions : t # s => submissions'[t] = submissions[t]
      /\ submissions'[s].state = "processing" /\ submissions'[s].version = v
  BY <1>1 DEF IInv, TypeOK, Row, ScanJob, ScanWorker
<1>4. jobs[s].state = "none" /\ \A e \in events : e[1] # s /\ e[1] \in Submissions
  BY <1>1 DEF IInv, TypeOK, Row, ScanJob, ScanWorker, ScanAccounted, VersionsAgree
<1>5. /\ \A e \in events' : e \in events \/ (e[1] = s /\ e[2] = v)
      /\ \E e \in events' : e[1] = s
      /\ events \subseteq events'
  <2>1. <<s, v>> \in events' /\ <<s, v>>[1] = s /\ <<s, v>>[2] = v
    BY <1>1
  <2> QED BY Zenon, <1>1, <2>1
<1>6. VersionsAgree'
  BY <1>1, <1>3, <1>4, <1>5 DEF IInv, VersionsAgree
<1>7. Reported' /\ ScanAccounted'
  BY <1>1, <1>3, <1>4, <1>5 DEF IInv, Reported, ScanAccounted
<1>8. ScannedFirst' /\ StagesSound'
  BY <1>1, <1>3 DEF IInv, ScannedFirst, StagesSound, Stage
<1> QED BY <1>2, <1>6, <1>7, <1>8 DEF IInv

LEMMA WithdrawKeeps ==
    ASSUME IInv, NEW s \in Submissions, WithdrawSubmission(s)
    PROVE  IInv'
<1>1. /\ submissions' = [submissions EXCEPT ![s] = [state |-> "withdrawn", version |-> submissions[s].version + 1]]
      /\ submissions[s].version \in Nat
      /\ submissions[s].state \in {"uploading", "processing", "ready-for-review", "in-review", "pending-secondary-review"}
      /\ UNCHANGED <<results, worker>>
  BY DEF IInv, TypeOK, Row, ScanJob, ScanWorker, WithdrawSubmission, Transition, Promise!CanTransition, States
<1>2. /\ jobs' = [jobs EXCEPT ![s].state = IF @ \in {"queued", "running"} THEN "cancelled" ELSE @]
      /\ assignments' = [assignments EXCEPT ![s] = {Cancelled(a) : a \in @}]
      /\ events' = {e \in events : e[1] # s}
  BY DEF WithdrawSubmission
<1>3. \A a \in Assignment : Cancelled(a) \in Assignment /\ Cancelled(a).state # "active"
  BY DEF Assignment, Cancelled
<1>4. TypeOK'
  <2>1. assignments' \in [Submissions -> SUBSET Assignment]
    BY <1>2, <1>3 DEF IInv, TypeOK, Row, ScanJob, ScanWorker
  <2>2. submissions' \in [Submissions -> [state : States, version : Nat]]
    BY <1>1 DEF IInv, TypeOK, Row, ScanJob, ScanWorker, States
  <2> QED BY SMTT(40), <1>1, <1>2, <2>1, <2>2 DEF IInv, TypeOK, Row, ScanJob, ScanWorker
<1>5. /\ \A t \in Submissions : t # s => /\ submissions'[t] = submissions[t]
                                         /\ jobs'[t] = jobs[t] /\ assignments'[t] = assignments[t]
      /\ submissions'[s].state = "withdrawn"
      /\ jobs'[s].version = jobs[s].version
      /\ jobs'[s].state = IF jobs[s].state \in {"queued", "running"} THEN "cancelled" ELSE jobs[s].state
  BY <1>1, <1>2 DEF IInv, TypeOK, Row, ScanJob, ScanWorker
<1>6. \A a \in assignments'[s] : a.state # "active"
  BY <1>2, <1>3 DEF IInv, TypeOK, Row, ScanJob, ScanWorker
<1>7. \A w \in Workers : worker[w].sub \subseteq Submissions
  BY DEF IInv, TypeOK, Row, ScanJob, ScanWorker
<1>8. VersionsAgree'
  BY <1>1, <1>2, <1>5, <1>7 DEF IInv, TypeOK, Row, ScanJob, ScanWorker, VersionsAgree
<1>9. Reported' /\ ScanAccounted' /\ ScannedFirst'
  BY <1>1, <1>2, <1>5 DEF IInv, Reported, ScanAccounted, ScannedFirst
<1>10. StagesSound'
  BY SMTT(40), <1>5, <1>6 DEF IInv, StagesSound, Stage
<1> QED BY <1>4, <1>8, <1>9, <1>10 DEF IInv

LEMMA EnqueueKeeps ==
    ASSUME IInv, NEW w \in Workers, Enqueue(w)
    PROVE  IInv'
<1>1. UNCHANGED <<submissions, results, assignments>> /\ worker' = [worker EXCEPT ![w].pc = "recover"]
  BY Zenon DEF Enqueue, Goes
<1>2. \A x \in Workers : /\ worker'[x].sub = worker[x].sub /\ worker'[x].version = worker[x].version
                         /\ worker'[x].outcome = worker[x].outcome /\ worker'[x].pc \in {"recover", worker[x].pc}
                         /\ worker[x].sub \subseteq Submissions
  BY <1>1 DEF IInv, TypeOK, Row, ScanJob, ScanWorker
<1>3. ScannedFirst' /\ StagesSound'
  BY <1>1 DEF IInv, ScannedFirst, StagesSound
<1>4. CASE UNCHANGED <<jobs, events>>
  <2>1. TypeOK'
    BY ZenonT(40), <1>1, <1>4 DEF IInv, TypeOK, Row, ScanJob, ScanWorker
  <2>2. VersionsAgree' /\ Reported' /\ ScanAccounted'
    BY <1>1, <1>2, <1>4 DEF IInv, VersionsAgree, Reported, ScanAccounted
  <2> QED BY <1>3, <2>1, <2>2 DEF IInv
<1>5. ASSUME NEW e \in events, events' = events \ {e},
             jobs' = [jobs EXCEPT ![e[1]] = [NoJob EXCEPT !.state = "queued", !.version = e[2]]]
      PROVE  IInv'
  <2>1. /\ e = <<e[1], e[2]>> /\ e[1] \in Submissions /\ e[2] \in Nat
        /\ \A f \in events : f = <<f[1], f[2]>> /\ f[1] \in Submissions
    BY DEF IInv, TypeOK, Row, ScanJob, ScanWorker
  <2>2. submissions[e[1]].state = "processing" /\ jobs[e[1]].state = "none"
    BY <2>1 DEF IInv, ScanAccounted
  <2>3. \A f \in events : f[1] = e[1] => f = e
    BY <2>1 DEF IInv, VersionsAgree
  <2>4. TypeOK'
    <3>1. [NoJob EXCEPT !.state = "queued", !.version = e[2]] \in ScanJob
      BY Zenon, <2>1, QueuedJob
    <3>2. jobs' \in [Submissions -> ScanJob]
      BY <1>5, <2>1, <3>1 DEF IInv, TypeOK
    <3>3. worker' \in [Workers -> ScanWorker]
      BY Zenon, <1>1, WorkerRows DEF IInv, TypeOK
    <3> QED BY <1>1, <1>5, <3>2, <3>3 DEF IInv, TypeOK
  <2>5. /\ \A t \in Submissions : t # e[1] => jobs'[t] = jobs[t]
        /\ jobs'[e[1]].state = "queued" /\ jobs'[e[1]].version = e[2]
    BY <1>5, <2>1 DEF IInv, TypeOK, Row, ScanJob, ScanWorker, NoJob
  <2>6. VersionsAgree'
    BY <1>1, <1>2, <1>5, <2>1, <2>2, <2>5 DEF IInv, VersionsAgree
  <2>7. Reported'
    BY <1>1, <2>1, <2>2, <2>5 DEF IInv, Reported
  <2>8. ScanAccounted'
    BY <1>1, <1>5, <2>1, <2>2, <2>3, <2>5 DEF IInv, ScanAccounted
  <2> QED BY <1>3, <2>4, <2>6, <2>7, <2>8 DEF IInv
<1> QED BY ZenonT(40), <1>4, <1>5 DEF Enqueue

(* recover_expired_leases and defer_job release jobs that were running. *)
Releases ==
    \A s \in Submissions :
        \/ jobs'[s] = jobs[s]
        \/ /\ jobs[s].state = "running"
           /\ jobs'[s] = [jobs[s] EXCEPT !.state = Released(jobs[s]), !.lapsed = FALSE]

LEMMA ReleaseKeeps ==
    ASSUME IInv, Releases, UNCHANGED <<submissions, events, results, assignments>>,
           DOMAIN jobs' = Submissions, jobs' = [s \in Submissions |-> jobs'[s]],
           NEW w \in Workers,
           worker' = [worker EXCEPT ![w] = Resting] \/ worker' = [worker EXCEPT ![w].pc = "claim"]
    PROVE  IInv'
<1>1. \A s \in Submissions :
         /\ jobs'[s].version = jobs[s].version
         /\ \/ jobs'[s].state = jobs[s].state
            \/ jobs[s].state = "running" /\ jobs'[s].state \in {"queued", "failed"}
         /\ jobs'[s] \in ScanJob
  <2>1. SUFFICES ASSUME NEW s \in Submissions
                 PROVE  /\ jobs'[s].version = jobs[s].version
                        /\ \/ jobs'[s].state = jobs[s].state
                           \/ jobs[s].state = "running" /\ jobs'[s].state \in {"queued", "failed"}
                        /\ jobs'[s] \in ScanJob
    OBVIOUS
  <2>2. jobs[s] \in ScanJob /\ Released(jobs[s]) \in {"queued", "failed"}
    BY DEF IInv, TypeOK, Released
  <2>3. CASE jobs'[s] = jobs[s]
    BY <2>2, <2>3
  <2>4. CASE /\ jobs[s].state = "running"
             /\ jobs'[s] = [jobs[s] EXCEPT !.state = Released(jobs[s]), !.lapsed = FALSE]
    BY Zenon, <2>2, <2>4 DEF ScanJob
  <2> QED BY Zenon, <2>3, <2>4 DEF Releases
<1>2. \A x \in Workers : /\ \/ worker'[x].sub = {}
                            \/ worker'[x].sub = worker[x].sub /\ worker'[x].version = worker[x].version
                         /\ \/ worker'[x].pc # "complete"
                            \/ worker'[x].pc = worker[x].pc /\ worker'[x].outcome = worker[x].outcome
                         /\ worker[x].sub \subseteq Submissions
  <2>1. CASE worker' = [worker EXCEPT ![w] = Resting]
    BY <2>1 DEF IInv, TypeOK, ScanWorker, Resting
  <2>2. CASE worker' = [worker EXCEPT ![w].pc = "claim"]
    BY <2>2 DEF IInv, TypeOK, ScanWorker
  <2> QED BY <2>1, <2>2
<1>3. TypeOK'
  <2>1. worker' \in [Workers -> ScanWorker]
    BY Zenon, WorkerRows DEF IInv, TypeOK
  <2> QED BY <1>1, <2>1 DEF IInv, TypeOK
<1>4. VersionsAgree'
  BY <1>1, <1>2 DEF IInv, VersionsAgree
<1>5. Reported' /\ ScanAccounted'
  BY <1>1 DEF IInv, Reported, ScanAccounted
<1>6. ScannedFirst' /\ StagesSound'
  BY SMTT(40) DEF IInv, ScannedFirst, StagesSound
<1> QED BY SMTT(40), <1>3, <1>4, <1>5, <1>6 DEF IInv

LEMMA RecoverKeeps ==
    ASSUME IInv, NEW w \in Workers, RecoverExpiredLeases(w)
    PROVE  IInv'
<1>1. /\ jobs' = [s \in Submissions |->
            IF jobs[s].state = "running" /\ jobs[s].lapsed
            THEN [jobs[s] EXCEPT !.state = Released(jobs[s]), !.lapsed = FALSE] ELSE jobs[s]]
      /\ UNCHANGED <<submissions, events, results, assignments>>
      /\ worker' = [worker EXCEPT ![w].pc = "claim"]
  BY ZenonT(40) DEF RecoverExpiredLeases, Goes
<1>2. Releases /\ DOMAIN jobs' = Submissions /\ jobs' = [s \in Submissions |-> jobs'[s]]
  BY ZenonT(40), <1>1 DEF Releases
<1> QED BY ZenonT(40), <1>1, <1>2, ReleaseKeeps

LEMMA DeferKeeps ==
    ASSUME IInv, NEW w \in Workers, DeferJob(w)
    PROVE  IInv'
<1>1. /\ jobs' = [s \in Submissions |->
            IF s \in worker[w].sub /\ HoldsLease(w, s)
            THEN [jobs[s] EXCEPT !.state = Released(jobs[s]), !.lapsed = FALSE] ELSE jobs[s]]
      /\ UNCHANGED <<submissions, events, results, assignments>>
      /\ worker' = [worker EXCEPT ![w] = Resting]
  BY ZenonT(40) DEF DeferJob
<1>2. Releases /\ DOMAIN jobs' = Submissions /\ jobs' = [s \in Submissions |-> jobs'[s]]
  BY ZenonT(40), <1>1 DEF Releases, HoldsLease
<1> QED BY ZenonT(40), <1>1, <1>2, ReleaseKeeps

LEMMA ClaimKeeps ==
    ASSUME IInv, NEW w \in Workers, ClaimOne(w)
    PROVE  IInv'
<1>1. UNCHANGED <<submissions, events, results, assignments>>
  BY Zenon DEF ClaimOne
<1>2. ScannedFirst' /\ StagesSound'
  BY <1>1 DEF IInv, ScannedFirst, StagesSound
<1>3. CASE worker' = [worker EXCEPT ![w] = Resting] /\ UNCHANGED jobs
  <2>1. Releases /\ DOMAIN jobs' = Submissions /\ jobs' = [s \in Submissions |-> jobs'[s]]
    BY <1>3 DEF Releases, IInv, TypeOK, Row, ScanJob, ScanWorker
  <2> QED BY Zenon, <1>1, <1>3, <2>1, ReleaseKeeps
<1>4. ASSUME NEW s \in Claimable,
             jobs' = [jobs EXCEPT ![s].state = "running", ![s].attempts = @ + 1, ![s].lapsed = FALSE],
             worker' = [worker EXCEPT ![w] = [pc |-> "load", sub |-> {s},
                   lease |-> jobs[s].attempts + 1, version |-> jobs[s].version, outcome |-> "none"]]
      PROVE  IInv'
  <2>1. s \in Submissions /\ jobs[s].state = "queued" /\ jobs[s].attempts + 1 \in 0 .. MaxAttempts
    BY MaxAttemptsAssumption DEF Claimable, IInv, TypeOK, Row, ScanJob, ScanWorker
  <2>2. TypeOK'
    BY SMTT(40), <1>1, <1>4, <2>1 DEF IInv, TypeOK, Row, ScanJob, ScanWorker
  <2>3. /\ \A t \in Submissions : t # s => jobs'[t] = jobs[t]
        /\ jobs'[s].state = "running" /\ jobs'[s].version = jobs[s].version
    BY <1>4, <2>1 DEF IInv, TypeOK, Row, ScanJob, ScanWorker
  <2>4. \A x \in Workers : /\ worker[x].sub \subseteq Submissions
                           /\ \/ worker'[x] = worker[x]
                              \/ /\ worker'[x].sub = {s} /\ worker'[x].version = jobs[s].version
                                 /\ worker'[x].pc = "load"
    BY <1>4 DEF IInv, TypeOK, Row, ScanJob, ScanWorker
  <2>5. VersionsAgree'
    BY <1>1, <2>1, <2>3, <2>4 DEF IInv, VersionsAgree
  <2>6. Reported' /\ ScanAccounted'
    BY <1>1, <2>1, <2>3 DEF IInv, Reported, ScanAccounted
  <2> QED BY <1>2, <2>2, <2>5, <2>6 DEF IInv
<1> QED BY ZenonT(40), <1>3, <1>4 DEF ClaimOne

(* Steps of a worker that touch nothing else. *)
LEMMA WorkerMoveKeeps ==
    ASSUME IInv, UNCHANGED <<submissions, events, jobs, results, assignments>>, NEW w \in Workers,
           \/ worker' = [worker EXCEPT ![w] = Resting]
           \/ worker' = [worker EXCEPT ![w].pc = "defer"]
           \/ \E outcome \in Outcomes : worker' = [worker EXCEPT ![w].pc = "complete", ![w].outcome = outcome]
    PROVE  IInv'
<1>1. TypeOK'
  <2>1. TypeOK
    BY SMTT(40) DEF IInv
  <2>2. worker' \in [Workers -> ScanWorker]
    BY ZenonT(40), <2>1, WorkerRows, ScannedWorker DEF TypeOK
  <2> QED BY <2>1, <2>2 DEF TypeOK
<1>2. \A x \in Workers : /\ \/ worker'[x].sub = {}
                            \/ worker'[x].sub = worker[x].sub /\ worker'[x].version = worker[x].version
                         /\ \/ worker'[x].pc # "complete"
                            \/ worker'[x].outcome \in Outcomes
                            \/ worker'[x] = worker[x]
  <2>1. CASE worker' = [worker EXCEPT ![w] = Resting]
    BY <2>1 DEF IInv, TypeOK, ScanWorker, Resting
  <2>2. CASE worker' = [worker EXCEPT ![w].pc = "defer"]
    BY <2>2 DEF IInv, TypeOK, ScanWorker
  <2>3. ASSUME NEW outcome \in Outcomes, worker' = [worker EXCEPT ![w].pc = "complete", ![w].outcome = outcome]
        PROVE  \A x \in Workers : worker'[x].sub = worker[x].sub /\ worker'[x].version = worker[x].version
                                  /\ (worker'[x].outcome \in Outcomes \/ worker'[x] = worker[x])
    BY Zenon, <2>3, ScannedWorker DEF IInv
  <2> QED BY <2>1, <2>2, <2>3
<1>3. VersionsAgree'
  BY <1>2 DEF IInv, VersionsAgree
<1>4. Reported' /\ ScanAccounted' /\ ScannedFirst' /\ StagesSound'
  BY DEF IInv, Reported, ScanAccounted, ScannedFirst, StagesSound
<1> QED BY <1>1, <1>3, <1>4 DEF IInv

LEMMA CompleteKeeps ==
    ASSUME IInv, NEW w \in Workers, CompleteJob(w)
    PROVE  IInv'
<1>1. UNCHANGED <<events, assignments>> /\ worker[w].pc = "complete"
  BY DEF CompleteJob
<1>2. CASE worker' = [worker EXCEPT ![w].pc = "defer"] /\ UNCHANGED <<submissions, results, jobs>>
  BY Zenon, <1>1, <1>2, WorkerMoveKeeps
<1>3. ASSUME NEW s \in worker[w].sub, HoldsLease(w, s), SourceCurrent(w, s),
             results' = [results EXCEPT ![s] = worker[w].outcome],
             Transition(s, worker[w].outcome),
             jobs' = [jobs EXCEPT ![s].state = "completed", ![s].lapsed = FALSE],
             worker' = [worker EXCEPT ![w] = Resting]
      PROVE  IInv'
  <2>1. /\ s \in Submissions /\ worker[w].outcome \in Outcomes
        /\ submissions[s].state = "processing" /\ jobs[s].state = "running"
        /\ submissions[s].version \in Nat
    BY <1>1, <1>3 DEF IInv, TypeOK, Row, ScanJob, ScanWorker, VersionsAgree, HoldsLease, SourceCurrent
  <2>2. TypeOK'
    <3>1. jobs' \in [Submissions -> ScanJob]
      BY ZenonT(40), <1>3, <2>1 DEF IInv, TypeOK, ScanJob
    <3>2. submissions' \in [Submissions -> Row]
      BY <1>3, <2>1 DEF IInv, TypeOK, Row, Transition, Outcomes, States
    <3>3. worker' \in [Workers -> ScanWorker] /\ results' \in [Submissions -> Outcomes \cup {"none"}]
      BY Zenon, <1>3, <2>1, WorkerRows DEF IInv, TypeOK
    <3> QED BY <1>1, <3>1, <3>2, <3>3 DEF IInv, TypeOK
  <2>3. /\ \A t \in Submissions : t # s => /\ submissions'[t] = submissions[t] /\ jobs'[t] = jobs[t]
                                           /\ results'[t] = results[t]
        /\ submissions'[s].state = worker[w].outcome /\ results'[s] = worker[w].outcome
        /\ jobs'[s].state = "completed" /\ jobs'[s].version = jobs[s].version
    BY <1>3, <2>1 DEF IInv, TypeOK, Row, ScanJob, ScanWorker, Transition
  <2>4. \A x \in Workers : worker[x].sub \subseteq Submissions
                           /\ (worker'[x] = worker[x] \/ (worker'[x].sub = {} /\ worker'[x].pc = "enqueue"))
    BY <1>3 DEF IInv, TypeOK, Row, ScanJob, ScanWorker, Resting
  <2>5. \A e \in events : e[1] \in Submissions /\ e[1] # s
    BY <2>1 DEF IInv, TypeOK, Row, ScanJob, ScanWorker, ScanAccounted
  <2>6. VersionsAgree'
    BY <1>1, <2>1, <2>3, <2>4, <2>5 DEF IInv, VersionsAgree, Outcomes
  <2>7. Reported' /\ ScanAccounted' /\ ScannedFirst'
    BY <1>1, <2>1, <2>3, <2>5 DEF IInv, Reported, ScanAccounted, ScannedFirst, Outcomes
  <2>8. StagesSound'
    BY <1>1, <2>1, <2>3 DEF IInv, StagesSound, Stage, Outcomes
  <2> QED BY <2>2, <2>6, <2>7, <2>8 DEF IInv
<1> QED BY Zenon, <1>1, <1>2, <1>3 DEF CompleteJob

LEMMA LapseKeeps ==
    ASSUME IInv, NEW s \in Submissions, LeaseLapses(s)
    PROVE  IInv'
<1>1. /\ jobs' = [jobs EXCEPT ![s].lapsed = TRUE]
      /\ UNCHANGED <<submissions, events, results, assignments, worker>>
  BY DEF LeaseLapses
<1>2. jobs' \in [Submissions -> ScanJob]
      /\ \A t \in Submissions : jobs'[t].state = jobs[t].state /\ jobs'[t].version = jobs[t].version
  BY ZenonT(40), <1>1 DEF IInv, TypeOK, ScanJob
<1>3. TypeOK'
  BY <1>1, <1>2 DEF IInv, TypeOK
<1>4. \A w \in Workers : worker[w].sub \subseteq Submissions
  BY DEF IInv, TypeOK, ScanWorker
<1>5. VersionsAgree' /\ Reported' /\ ScanAccounted'
  BY <1>1, <1>2, <1>4 DEF IInv, VersionsAgree, Reported, ScanAccounted
<1>6. ScannedFirst' /\ StagesSound'
  BY <1>1 DEF IInv, ScannedFirst, StagesSound
<1> QED BY <1>3, <1>5, <1>6 DEF IInv

LEMMA LoadKeeps ==
    ASSUME IInv, NEW w \in Workers, LoadBundle(w)
    PROVE  IInv'
BY WorkerMoveKeeps DEF LoadBundle

LEMMA StopKeeps ==
    ASSUME IInv, NEW w \in Workers, WorkerStops(w)
    PROVE  IInv'
BY Zenon, WorkerMoveKeeps DEF WorkerStops

(* What a reviewer's step leaves alone: it moves one submission, with its  *)
(* assignments, from one of the states of a review to another.             *)
LEMMA ReviewKeeps ==
    ASSUME IInv, NEW s \in Submissions, NEW target, NEW as,
           UNCHANGED <<events, jobs, results, worker>>,
           Transition(s, target), assignments' = [assignments EXCEPT ![s] = as],
           as \in SUBSET Assignment, Stage(target, as),
           submissions[s].state \in {"ready-for-review", "in-review", "pending-secondary-review"},
           target \in {"in-review", "pending-secondary-review", "needs-changes", "rejected", "approved"}
    PROVE  IInv'
<1>1. /\ submissions' = [submissions EXCEPT ![s] = [state |-> target, version |-> submissions[s].version + 1]]
      /\ submissions[s].version \in Nat
  BY DEF IInv, TypeOK, Row, Transition
<1>2. TypeOK'
  <2>1. submissions' \in [Submissions -> Row]
    BY <1>1 DEF IInv, TypeOK, Row, States
  <2> QED BY Zenon, <2>1 DEF IInv, TypeOK
<1>3. /\ \A t \in Submissions : t # s => submissions'[t] = submissions[t] /\ assignments'[t] = assignments[t]
      /\ submissions'[s].state = target /\ assignments'[s] = as
  BY <1>1 DEF IInv, TypeOK, Row
<1>4. \A e \in events : e[1] \in Submissions /\ e[1] # s
  BY DEF IInv, TypeOK, ScanAccounted
<1>5. VersionsAgree'
  BY <1>3, <1>4 DEF IInv, VersionsAgree, ScanAccounted
<1>6. Reported' /\ ScanAccounted' /\ ScannedFirst'
  BY <1>3 DEF IInv, Reported, ScanAccounted, ScannedFirst
<1>7. StagesSound'
  BY Zenon, <1>3 DEF IInv, StagesSound
<1> QED BY <1>2, <1>5, <1>6, <1>7 DEF IInv

(* The assignment a review begins with. *)
NewAssignment(r, state) ==
    [reviewer |-> r, state |-> "active",
     kind |-> IF state = "ready-for-review" THEN "primary" ELSE "secondary", decision |-> "none"]

LEMMA BeginShape ==
    ASSUME IInv, NEW r \in Reviewers, NEW s \in Submissions, BeginReview(r, s)
    PROVE  LET a  == NewAssignment(r, submissions[s].state)
               as == assignments[s] \cup {a}
           IN  /\ submissions[s].state \in {"ready-for-review", "pending-secondary-review"}
               /\ assignments' = [assignments EXCEPT ![s] = as]
               /\ Transition(s, "in-review")
               /\ as \in SUBSET Assignment
               /\ UnderWay(a, as)
               /\ a.state = "active" /\ a \notin assignments[s]
               /\ a.kind = "primary" <=> submissions[s].state = "ready-for-review"
<1> DEFINE a  == NewAssignment(r, submissions[s].state)
           as == assignments[s] \cup {a}
<1>1. /\ submissions[s].state \in {"ready-for-review", "pending-secondary-review"}
      /\ assignments' = [assignments EXCEPT ![s] = as]
      /\ Transition(s, "in-review")
  BY DEF BeginReview, NewAssignment
<1>2. /\ a.reviewer = r /\ a.state = "active" /\ a \in Assignment
      /\ a.kind = IF submissions[s].state = "ready-for-review" THEN "primary" ELSE "secondary"
  BY DEF NewAssignment, Assignment, Decisions
<1> HIDE DEF a
<1>3. as \in SUBSET Assignment
  BY <1>2 DEF IInv, TypeOK
<1>4. CASE submissions[s].state = "ready-for-review"
  <2>1. assignments[s] = {}
    BY <1>4 DEF IInv, StagesSound, Stage
  <2> QED BY <1>1, <1>2, <1>3, <1>4, <2>1 DEF UnderWay, a
<1>5. CASE submissions[s].state = "pending-secondary-review"
  <2>1. assignments[s] # {} /\ \A b \in assignments[s] : FirstApproval(b)
    BY <1>5 DEF IInv, StagesSound, Stage
  <2>2. \A b \in assignments[s] : b.reviewer # r
    BY <1>5, <2>1 DEF BeginReview, FirstApproval
  <2>3. \A b \in assignments[s] : b # a
    BY <1>2, <2>1 DEF FirstApproval
  <2>4. UnderWay(a, as)
    BY <1>2, <1>5, <2>1, <2>2, <2>3 DEF UnderWay
  <2> QED BY <1>1, <1>2, <1>3, <1>5, <2>3, <2>4 DEF a
<1> QED BY <1>1, <1>4, <1>5

LEMMA BeginKeeps ==
    ASSUME IInv, NEW r \in Reviewers, NEW s \in Submissions, BeginReview(r, s)
    PROVE  IInv'
<1> DEFINE a  == NewAssignment(r, submissions[s].state)
           as == assignments[s] \cup {a}
<1>1. /\ submissions[s].state \in {"ready-for-review", "pending-secondary-review"}
      /\ assignments' = [assignments EXCEPT ![s] = as]
      /\ Transition(s, "in-review")
      /\ as \in SUBSET Assignment
      /\ UnderWay(a, as)
  BY Zenon, BeginShape
<1>2. UNCHANGED <<events, jobs, results, worker>>
  BY DEF BeginReview
<1> HIDE DEF a
<1>3. Stage("in-review", as)
  BY <1>1 DEF Stage
<1> HIDE DEF as
<1> QED BY Zenon, <1>1, <1>2, <1>3, ReviewKeeps

(* A decision: the active assignment is completed beside the others, which *)
(* leaves the assignments of the state the submission goes to.             *)
LEMMA DecideShape ==
    ASSUME IInv, NEW s \in Submissions, submissions[s].state = "in-review", NEW d \in Decisions,
           NEW a \in assignments[s], a.state = "active"
    PROVE  LET b  == [a EXCEPT !.state = "completed", !.decision = d]
               as == (assignments[s] \ {a}) \cup {b}
               target == IF d # "approved" THEN d
                         ELSE IF a.kind = "primary" THEN "pending-secondary-review" ELSE "approved"
           IN  /\ as \in SUBSET Assignment
               /\ Stage(target, as)
               /\ target \in {"pending-secondary-review", "needs-changes", "rejected", "approved"}
               /\ b \in Decided(as, a.kind, d) /\ a.kind \in {"primary", "secondary"}
               /\ \A c \in as : c.state # "active"
<1> DEFINE b  == [a EXCEPT !.state = "completed", !.decision = d]
           as == (assignments[s] \ {a}) \cup {b}
<1>1. a \in Assignment /\ assignments[s] \in SUBSET Assignment
  BY DEF IInv, TypeOK
<1>2. /\ b \in Assignment /\ b.state = "completed" /\ b.decision = d
      /\ b.kind = a.kind /\ b.reviewer = a.reviewer /\ a.kind \in {"primary", "secondary"}
  BY Zenon, <1>1 DEF Assignment
<1>3. UnderWay(a, assignments[s])
  <2>1. PICK c \in assignments[s] : UnderWay(c, assignments[s])
    BY DEF IInv, StagesSound, Stage
  <2>2. c.kind \in {"primary", "secondary"}
    BY DEF IInv, TypeOK, Assignment
  <2>3. a = c
    BY <2>1, <2>2 DEF UnderWay, FirstApproval
  <2> QED BY <2>1, <2>3
<1> HIDE DEF b
<1>4. as \in SUBSET Assignment
  BY <1>1, <1>2
<1>5. \A c \in as : c = b \/ (c \in assignments[s] /\ c # a /\ FirstApproval(c) /\ c.reviewer # a.reviewer)
  BY <1>2, <1>3 DEF UnderWay
<1>6. \A c \in as : c.state # "active"
  BY <1>2, <1>5 DEF FirstApproval
<1>7. b \in Decided(as, a.kind, d)
  BY <1>2 DEF Decided
<1>8. CASE d # "approved"
  <2>1. d \in {"needs-changes", "rejected"}
    BY <1>8 DEF Decisions
  <2>2. Stage(d, as)
    BY <1>6, <2>1 DEF Stage
  <2> QED BY <1>2, <1>4, <1>6, <1>7, <1>8, <2>1, <2>2 DEF b
<1>9. CASE d = "approved" /\ a.kind = "primary"
  <2>1. \A c \in as : FirstApproval(c)
    BY <1>2, <1>5, <1>9 DEF FirstApproval
  <2>2. Stage("pending-secondary-review", as)
    BY <2>1 DEF Stage
  <2> QED BY <1>2, <1>4, <1>6, <1>7, <1>9, <2>2 DEF b
<1>10. CASE d = "approved" /\ a.kind = "secondary"
  <2>1. PICK c \in assignments[s] : c # a /\ FirstApproval(c) /\ c.reviewer # a.reviewer
    BY <1>3, <1>10 DEF UnderWay
  <2>2. c \in Decided(as, "primary", "approved") /\ b \in Decided(as, "secondary", "approved") /\ c.reviewer # b.reviewer
    BY <1>2, <1>7, <1>10, <2>1 DEF Decided, FirstApproval
  <2>3. Stage("approved", as)
    BY <1>6, <2>2 DEF Stage
  <2> QED BY <1>2, <1>4, <1>6, <1>7, <1>10, <2>3 DEF b
<1> QED BY <1>2, <1>8, <1>9, <1>10

LEMMA DecideKeeps ==
    ASSUME IInv, NEW r \in Reviewers, NEW s \in Submissions, NEW d \in Decisions, DecideReview(r, s, d)
    PROVE  IInv'
<1>1. submissions[s].state = "in-review" /\ UNCHANGED <<events, jobs, results, worker>>
  BY DEF DecideReview
<1>2. PICK a \in assignments[s] :
          /\ a.reviewer = r /\ a.state = "active"
          /\ assignments' = [assignments EXCEPT ![s] =
                (assignments[s] \ {a}) \cup {[a EXCEPT !.state = "completed", !.decision = d]}]
          /\ Transition(s, IF d # "approved" THEN d
                           ELSE IF a.kind = "primary" THEN "pending-secondary-review"
                           ELSE "approved")
  BY Zenon DEF DecideReview
<1> DEFINE as == (assignments[s] \ {a}) \cup {[a EXCEPT !.state = "completed", !.decision = d]}
           target == IF d # "approved" THEN d
                     ELSE IF a.kind = "primary" THEN "pending-secondary-review" ELSE "approved"
<1>3. /\ as \in SUBSET Assignment /\ Stage(target, as)
      /\ target \in {"pending-secondary-review", "needs-changes", "rejected", "approved"}
  BY Zenon, <1>1, <1>2, DecideShape
<1>4. assignments' = [assignments EXCEPT ![s] = as] /\ Transition(s, target)
  BY <1>2
<1> HIDE DEF as, target
<1> QED BY Zenon, <1>1, <1>3, <1>4, ReviewKeeps

LEMMA InvariantStep == IInv /\ [Next]_vars => IInv'
<1> SUFFICES ASSUME IInv, [Next]_vars PROVE IInv'
  OBVIOUS
<1>1. ASSUME NEW s \in Submissions, CreateSubmission(s) \/ FinalizeSubmission(s) \/ WithdrawSubmission(s)
      PROVE  IInv'
  BY <1>1, CreateKeeps, FinalizeKeeps, WithdrawKeeps
<1>2. ASSUME NEW s \in Submissions, LeaseLapses(s) PROVE IInv'
  BY <1>2, LapseKeeps
<1>3. ASSUME NEW s \in Submissions, Review(s) PROVE IInv'
  BY <1>3, BeginKeeps, DecideKeeps DEF Review
<1>4. ASSUME NEW w \in Workers, WorkerStep(w) PROVE IInv'
  BY <1>4, EnqueueKeeps, RecoverKeeps, ClaimKeeps, LoadKeeps, CompleteKeeps, DeferKeeps DEF WorkerStep
<1>5. ASSUME NEW w \in Workers, WorkerStops(w) PROVE IInv'
  BY <1>5, StopKeeps
<1>6. CASE UNCHANGED vars
  BY <1>6 DEF vars, IInv, TypeOK, VersionsAgree, Reported, ScanAccounted, ScannedFirst, StagesSound
<1> QED BY <1>1, <1>2, <1>3, <1>4, <1>5, <1>6 DEF Next, Work

(* The invariant holds of every state. *)
LEMMA InvariantHolds == Spec => []IInv
BY InvariantInit, InvariantStep, PTL DEF Spec

(* Whatever scan workers, reviewers and developers do at the same time: a  *)
(* report is committed once, for the version it was made of; nothing of a  *)
(* scan outlives it; one review is under way at a time; and an approved    *)
(* submission passed its scan and two different reviewers (complete_job,   *)
(* withdraw_submission_once, begin_review_once, decide_review_once).       *)
THEOREM ReviewIsSound == Spec => []ReviewSound
BY InvariantHolds, InvariantIsSound, PTL

----------------------------------------------------------------------------
(* The reference control plane                                             *)

(* Every step is a step of the reference control plane or leaves its       *)
(* submissions alone.                                                      *)
LEMMA StepImplements ==
    ASSUME IInv, [Next]_vars
    PROVE  [Promise!Next]_submissions
<1>1. ASSUME NEW s \in Submissions, CreateSubmission(s) PROVE Promise!Next
  <2>1. submissions[s] = Promise!NoSubmission
    <3>1. submissions[s] \in Row /\ submissions[s].state = "none" /\ submissions[s].version = 0
      BY <1>1 DEF CreateSubmission, IInv, TypeOK, VersionsAgree
    <3> QED BY <3>1 DEF Row, Promise!NoSubmission
  <2> QED BY Zenon, <1>1, <2>1 DEF CreateSubmission, Promise!Next, Promise!CreateSubmission
<1>2. ASSUME NEW s \in Submissions, FinalizeSubmission(s) PROVE Promise!Next
  BY Zenon, <1>2 DEF FinalizeSubmission, Transition, Promise!Next, Promise!FinalizeSubmission,
       Promise!TransitionSubmission, Promise!CanTransition
<1>3. ASSUME NEW s \in Submissions, WithdrawSubmission(s) PROVE Promise!Next
  BY Zenon, <1>3 DEF WithdrawSubmission, Transition, Promise!Next, Promise!WithdrawSubmission,
       Promise!TransitionSubmission
<1>4. ASSUME NEW w \in Workers, CompleteJob(w) PROVE Promise!Next \/ UNCHANGED submissions
  <2>1. ASSUME NEW s \in worker[w].sub, SourceCurrent(w, s), Transition(s, worker[w].outcome)
        PROVE  Promise!Next
    <3>1. /\ s \in Submissions /\ submissions[s].state = "processing"
          /\ worker[w].outcome \in {"ready-for-review", "needs-changes", "rejected"}
      BY <1>4, <2>1 DEF CompleteJob, SourceCurrent, IInv, TypeOK, ScanWorker, VersionsAgree, Outcomes
    <3>2. Promise!ScanSubmission(s)
      BY Zenon, <2>1, <3>1 DEF Transition, Promise!ScanSubmission, Promise!TransitionSubmission, Promise!CanTransition
    <3> QED BY <3>1, <3>2 DEF Promise!Next
  <2> QED BY Zenon, <1>4, <2>1 DEF CompleteJob
<1>5. ASSUME NEW r \in Reviewers, NEW s \in Submissions, BeginReview(r, s) PROVE Promise!Next
  BY Zenon, <1>5 DEF BeginReview, Transition, Promise!Next, Promise!BeginReview,
       Promise!TransitionSubmission, Promise!CanTransition
<1>6. ASSUME NEW r \in Reviewers, NEW s \in Submissions, NEW d \in Decisions, DecideReview(r, s, d)
      PROVE  Promise!Next
  <2>1. PICK target \in {"pending-secondary-review", "approved", "needs-changes", "rejected"} :
           Transition(s, target)
    BY <1>6 DEF DecideReview, Decisions
  <2>2. Promise!DecideReview(s)
    BY Zenon, <1>6, <2>1 DEF DecideReview, Transition, Promise!DecideReview, Promise!TransitionSubmission,
         Promise!CanTransition
  <2> QED BY <2>2 DEF Promise!Next
<1>7. ASSUME NEW w \in Workers,
             \/ Enqueue(w) \/ RecoverExpiredLeases(w) \/ ClaimOne(w) \/ LoadBundle(w) \/ DeferJob(w)
             \/ WorkerStops(w)
      PROVE  UNCHANGED submissions
  BY Zenon, <1>7 DEF Enqueue, RecoverExpiredLeases, ClaimOne, LoadBundle, DeferJob, WorkerStops
<1>8. ASSUME NEW s \in Submissions, LeaseLapses(s) PROVE UNCHANGED submissions
  BY <1>8 DEF LeaseLapses
<1>9. CASE UNCHANGED vars
  BY <1>9 DEF vars
<1> QED BY <1>1, <1>2, <1>3, <1>4, <1>5, <1>6, <1>7, <1>8, <1>9 DEF Next, Work, WorkerStep, Review

(* The server with its workers, leases and reviewers implements the        *)
(* reference control plane: it never takes a submission through a          *)
(* transition or a version that the in-memory implementation would refuse  *)
(* (SubmissionState::can_transition_to).                                   *)
THEOREM ImplementsControl == Spec => Implements
<1>1. Init => Promise!Init
  BY DEF Init, Promise!Init
<1>2. IInv /\ [Next]_vars => [Promise!Next]_submissions
  BY StepImplements
<1> QED BY <1>1, <1>2, InvariantHolds, PTL DEF Spec, Implements, Promise!Spec

----------------------------------------------------------------------------
(* The triggers of the database                                            *)

(* A step that leaves a table's rows alone passes its trigger. *)
LEMMA Untouched ==
    ASSUME NEW s \in Submissions
    PROVE  /\ submissions'[s] = submissions[s] /\ jobs'[s] = jobs[s] /\ assignments'[s] = assignments[s]
                => TriggersAccept(s)
           /\ submissions'[s] = submissions[s] /\ assignments'[s] = assignments[s] /\ JobTrigger(jobs[s], jobs'[s])
                => TriggersAccept(s)
           /\ SubmissionTrigger(submissions[s], submissions'[s], assignments'[s]) /\ jobs'[s] = jobs[s]
                /\ (\A a \in assignments'[s] : a.state = "active" /\ a \notin assignments[s] =>
                       AssignmentTrigger(a, assignments[s], submissions[s].state))
                => TriggersAccept(s)
BY Zenon DEF TriggersAccept

(* A transition changes one submission, to the next version. *)
LEMMA TransitionShape ==
    ASSUME IInv, NEW s \in Submissions, NEW target, Transition(s, target)
    PROVE  /\ submissions'[s].state = target /\ submissions'[s].version = submissions[s].version + 1
           /\ \A t \in Submissions : t # s => submissions'[t] = submissions[t]
BY DEF IInv, TypeOK, Row, Transition

LEMMA DeveloperAccepted ==
    ASSUME IInv, NEW s \in Submissions,
           CreateSubmission(s) \/ FinalizeSubmission(s) \/ WithdrawSubmission(s)
    PROVE  \A t \in Submissions : TriggersAccept(t)
<1>1. CASE CreateSubmission(s)
  <2>1. /\ \A t \in Submissions : t # s => submissions'[t] = submissions[t]
        /\ submissions[s].state = "none" /\ UNCHANGED <<jobs, assignments>>
    BY <1>1 DEF IInv, TypeOK, CreateSubmission
  <2> QED BY <2>1 DEF TriggersAccept
<1>2. CASE FinalizeSubmission(s)
  <2>1. /\ submissions[s].state = "uploading" /\ Transition(s, "processing") /\ UNCHANGED <<jobs, assignments>>
    BY <1>2 DEF FinalizeSubmission
  <2>2. SubmissionTrigger(submissions[s], submissions'[s], assignments'[s])
    BY <2>1, TransitionShape DEF SubmissionTrigger
  <2> QED BY <2>1, <2>2, TransitionShape, Untouched
<1>3. CASE WithdrawSubmission(s)
  <2>1. /\ submissions[s].state \in {"uploading", "processing", "ready-for-review", "in-review",
                                     "pending-secondary-review"}
        /\ Transition(s, "withdrawn")
        /\ jobs' = [jobs EXCEPT ![s].state = IF @ \in {"queued", "running"} THEN "cancelled" ELSE @]
        /\ assignments' = [assignments EXCEPT ![s] = {Cancelled(a) : a \in @}]
    BY <1>3 DEF WithdrawSubmission, Promise!CanTransition, IInv, TypeOK, Row, States
  <2>2. SubmissionTrigger(submissions[s], submissions'[s], assignments'[s])
    BY <2>1, TransitionShape DEF SubmissionTrigger
  <2>3. jobs'[s] = jobs[s] \/ JobTrigger(jobs[s], jobs'[s])
    <3>1. jobs[s] \in ScanJob
      BY DEF IInv, TypeOK
    <3>2. CASE jobs[s].state \in {"queued", "running"}
      <4>1. jobs'[s] = [jobs[s] EXCEPT !.state = "cancelled"]
        BY <2>1, <3>2 DEF IInv, TypeOK
      <4> QED BY <3>1, <3>2, <4>1 DEF JobTrigger, ScanJob
    <3>3. CASE jobs[s].state \notin {"queued", "running"}
      <4>1. jobs'[s] = [jobs[s] EXCEPT !.state = jobs[s].state]
        BY <2>1, <3>3 DEF IInv, TypeOK
      <4> QED BY <3>1, <4>1 DEF ScanJob
    <3> QED BY <3>2, <3>3
  <2>4. \A a \in assignments'[s] : a.state # "active"
    BY <2>1 DEF IInv, TypeOK, Assignment, Cancelled
  <2>5. \A t \in Submissions : t # s => /\ submissions'[t] = submissions[t] /\ jobs'[t] = jobs[t]
                                        /\ assignments'[t] = assignments[t]
    BY <2>1, TransitionShape DEF IInv, TypeOK
  <2> QED BY Zenon, <2>2, <2>3, <2>4, <2>5 DEF TriggersAccept
<1> QED BY <1>1, <1>2, <1>3

LEMMA ReleaseAccepted ==
    ASSUME IInv, Releases, UNCHANGED <<submissions, assignments>>
    PROVE  \A t \in Submissions : TriggersAccept(t)
<1> SUFFICES ASSUME NEW t \in Submissions PROVE TriggersAccept(t)
  OBVIOUS
<1>1. jobs[t] \in ScanJob /\ Released(jobs[t]) \in {"queued", "failed"}
  BY DEF IInv, TypeOK, Released
<1>2. jobs'[t] = jobs[t] \/ JobTrigger(jobs[t], jobs'[t])
  <2>1. SUFFICES ASSUME jobs[t].state = "running",
                        jobs'[t] = [jobs[t] EXCEPT !.state = Released(jobs[t]), !.lapsed = FALSE]
                 PROVE  JobTrigger(jobs[t], jobs'[t])
    BY Zenon DEF Releases
  <2>2. /\ jobs'[t].version = jobs[t].version /\ jobs'[t].attempts = jobs[t].attempts
        /\ jobs'[t].state = Released(jobs[t]) /\ jobs[t].attempts \in Nat
    BY <1>1, <2>1 DEF ScanJob
  <2> QED BY SMTT(40), <1>1, <2>1, <2>2 DEF JobTrigger
<1> QED BY <1>2, Untouched

LEMMA WorkerAccepted ==
    ASSUME IInv, NEW w \in Workers, WorkerStep(w)
    PROVE  \A t \in Submissions : TriggersAccept(t)
<1>1. CASE Enqueue(w)
  <2>1. UNCHANGED <<submissions, assignments>>
    BY Zenon, <1>1 DEF Enqueue
  <2>2. CASE UNCHANGED jobs
    BY <2>1, <2>2, Untouched
  <2>3. ASSUME NEW e \in events,
               jobs' = [jobs EXCEPT ![e[1]] = [NoJob EXCEPT !.state = "queued", !.version = e[2]]]
        PROVE  \A t \in Submissions : TriggersAccept(t)
    <3>1. e[1] \in Submissions /\ jobs[e[1]].state = "none"
      BY DEF IInv, TypeOK, ScanAccounted
    <3>2. \A t \in Submissions : t # e[1] => jobs'[t] = jobs[t]
      BY <2>3 DEF IInv, TypeOK
    <3> QED BY ZenonT(40), <2>1, <3>1, <3>2 DEF TriggersAccept
  <2> QED BY ZenonT(40), <1>1, <2>2, <2>3 DEF Enqueue
<1>2. CASE RecoverExpiredLeases(w)
  BY Zenon, <1>2, ReleaseAccepted DEF RecoverExpiredLeases, Releases
<1>3. CASE ClaimOne(w)
  <2>1. UNCHANGED <<submissions, assignments>>
    BY Zenon, <1>3 DEF ClaimOne
  <2>2. CASE UNCHANGED jobs
    BY <2>1, <2>2, Untouched
  <2>3. ASSUME NEW s \in Claimable,
               jobs' = [jobs EXCEPT ![s].state = "running", ![s].attempts = @ + 1, ![s].lapsed = FALSE]
        PROVE  \A t \in Submissions : TriggersAccept(t)
    <3>1. s \in Submissions /\ jobs[s].state = "queued" /\ jobs[s] \in ScanJob
      BY DEF Claimable, IInv, TypeOK
    <3>2. /\ jobs'[s].version = jobs[s].version /\ jobs'[s].attempts = jobs[s].attempts + 1
          /\ jobs'[s].state = "running" /\ \A t \in Submissions : t # s => jobs'[t] = jobs[t]
      BY <2>3, <3>1 DEF IInv, TypeOK, ScanJob
    <3>3. jobs[s].attempts \in Nat
      BY <3>1 DEF ScanJob
    <3>4. JobTrigger(jobs[s], jobs'[s])
      BY <3>1, <3>2, <3>3 DEF JobTrigger
    <3> QED BY <2>1, <3>2, <3>4, Untouched
  <2> QED BY ZenonT(40), <1>3, <2>2, <2>3 DEF ClaimOne
<1>4. CASE LoadBundle(w)
  BY <1>4, Untouched DEF LoadBundle
<1>5. CASE CompleteJob(w)
  <2>1. UNCHANGED assignments
    BY <1>5 DEF CompleteJob
  <2>2. CASE UNCHANGED <<submissions, jobs>>
    BY <2>1, <2>2, Untouched
  <2>3. ASSUME NEW s \in worker[w].sub, HoldsLease(w, s), SourceCurrent(w, s),
               Transition(s, worker[w].outcome),
               jobs' = [jobs EXCEPT ![s].state = "completed", ![s].lapsed = FALSE]
        PROVE  \A t \in Submissions : TriggersAccept(t)
    <3>1. /\ s \in Submissions /\ worker[w].outcome \in Outcomes /\ jobs[s] \in ScanJob
          /\ submissions[s].state = "processing" /\ jobs[s].state = "running"
      BY <1>5, <2>3 DEF CompleteJob, IInv, TypeOK, ScanWorker, VersionsAgree, HoldsLease, SourceCurrent
    <3>2. /\ jobs'[s].version = jobs[s].version /\ jobs'[s].attempts = jobs[s].attempts
          /\ jobs'[s].state = "completed" /\ \A t \in Submissions : t # s => jobs'[t] = jobs[t]
      BY <2>3, <3>1 DEF IInv, TypeOK, ScanJob
    <3>3. jobs[s].attempts \in Nat
      BY <3>1 DEF ScanJob
    <3>4. JobTrigger(jobs[s], jobs'[s])
      BY <3>1, <3>2, <3>3 DEF JobTrigger
    <3>5. /\ submissions'[s].state = worker[w].outcome
          /\ submissions'[s].version = submissions[s].version + 1
          /\ \A t \in Submissions : t # s => submissions'[t] = submissions[t]
      BY <2>3, <3>1, TransitionShape
    <3>6. SubmissionTrigger(submissions[s], submissions'[s], assignments'[s])
      BY SMTT(40), <3>1, <3>5 DEF SubmissionTrigger
    <3> QED BY Zenon, <2>1, <3>2, <3>4, <3>5, <3>6 DEF TriggersAccept
  <2> QED BY Zenon, <1>5, <2>2, <2>3 DEF CompleteJob
<1>6. CASE DeferJob(w)
  BY Zenon, <1>6, ReleaseAccepted DEF DeferJob, Releases, HoldsLease
<1> QED BY SMTT(40), <1>1, <1>2, <1>3, <1>4, <1>5, <1>6 DEF WorkerStep

LEMMA ReviewerAccepted ==
    ASSUME IInv, NEW s \in Submissions, Review(s)
    PROVE  \A t \in Submissions : TriggersAccept(t)
<1>1. ASSUME NEW r \in Reviewers, BeginReview(r, s) PROVE \A t \in Submissions : TriggersAccept(t)
  <2> DEFINE a  == NewAssignment(r, submissions[s].state)
             as == assignments[s] \cup {a}
  <2>1. /\ submissions[s].state \in {"ready-for-review", "pending-secondary-review"}
        /\ assignments' = [assignments EXCEPT ![s] = as]
        /\ Transition(s, "in-review")
        /\ UnderWay(a, as)
        /\ a \notin assignments[s]
        /\ a.kind = "primary" <=> submissions[s].state = "ready-for-review"
        /\ a.state = "active" /\ as \in SUBSET Assignment
    BY Zenon, <1>1, BeginShape
  <2>2. UNCHANGED jobs
    BY <1>1 DEF BeginReview
  <2> HIDE DEF a
  <2>3. /\ assignments'[s] = as /\ a \in as /\ a.kind \in {"primary", "secondary"}
        /\ \A t \in Submissions : t # s => assignments'[t] = assignments[t]
    BY <2>1 DEF IInv, TypeOK, Assignment
  <2>4. SubmissionTrigger(submissions[s], submissions'[s], assignments'[s])
    BY <2>1, <2>3, TransitionShape DEF SubmissionTrigger
  <2>5. AssignmentTrigger(a, assignments[s], submissions[s].state)
    <3>1. CASE a.kind = "primary"
      BY <2>1, <3>1 DEF AssignmentTrigger, UnderWay
    <3>2. CASE a.kind = "secondary"
      <4>1. submissions[s].state = "pending-secondary-review"
        BY <2>1, <3>2
      <4>2. assignments[s] # {} /\ \A b \in assignments[s] : FirstApproval(b) /\ b.reviewer # a.reviewer
        BY <2>1, <3>2 DEF UnderWay
      <4>3. Decided(assignments[s], "primary", "approved") # {}
        BY <4>2 DEF Decided, FirstApproval
      <4> QED BY <2>1, <3>2, <4>1, <4>2, <4>3 DEF AssignmentTrigger
    <3> QED BY <2>3, <3>1, <3>2
  <2>6. \A b \in as : b \in assignments[s] \/ b = a
    OBVIOUS
  <2> QED BY <2>1, <2>2, <2>3, <2>4, <2>5, <2>6, TransitionShape, Untouched
<1>2. ASSUME NEW r \in Reviewers, NEW d \in Decisions, DecideReview(r, s, d)
      PROVE  \A t \in Submissions : TriggersAccept(t)
  <2>1. submissions[s].state = "in-review" /\ UNCHANGED jobs
    BY <1>2 DEF DecideReview
  <2>2. PICK a \in assignments[s] :
            /\ a.reviewer = r /\ a.state = "active"
            /\ assignments' = [assignments EXCEPT ![s] =
                  (assignments[s] \ {a}) \cup {[a EXCEPT !.state = "completed", !.decision = d]}]
            /\ Transition(s, IF d # "approved" THEN d
                             ELSE IF a.kind = "primary" THEN "pending-secondary-review"
                             ELSE "approved")
    BY Zenon, <1>2 DEF DecideReview
  <2> DEFINE b == [a EXCEPT !.state = "completed", !.decision = d]
             as == (assignments[s] \ {a}) \cup {b}
             target == IF d # "approved" THEN d
                       ELSE IF a.kind = "primary" THEN "pending-secondary-review" ELSE "approved"
  <2>3. /\ Stage(target, as) /\ b \in Decided(as, a.kind, d) /\ a.kind \in {"primary", "secondary"}
        /\ \A c \in as : c.state # "active"
    BY ZenonT(40), <2>1, <2>2, DecideShape
  <2>4. assignments' = [assignments EXCEPT ![s] = as] /\ Transition(s, target)
    BY <2>2
  <2>5. assignments'[s] = as /\ \A t \in Submissions : t # s => assignments'[t] = assignments[t]
    BY <2>4 DEF IInv, TypeOK
  <2> HIDE DEF b, as
  <2>6. SubmissionTrigger(submissions[s], submissions'[s], as)
    <3>1. submissions'[s].state = target /\ submissions'[s].version = submissions[s].version + 1
      BY <2>4, TransitionShape
    <3>2. CASE d # "approved"
      <4>1. target \in {"needs-changes", "rejected"}
        BY <3>2 DEF Decisions
      <4>2. Decided(as, "primary", target) \cup Decided(as, "secondary", target) # {}
        BY Zenon, <2>3, <3>2
      <4> QED BY Zenon, <2>1, <3>1, <4>1, <4>2 DEF SubmissionTrigger
    <3>3. CASE d = "approved" /\ a.kind = "primary"
      BY Zenon, <2>1, <2>3, <3>1, <3>3 DEF SubmissionTrigger
    <3>4. CASE d = "approved" /\ a.kind = "secondary"
      <4>1. target = "approved"
        BY <3>4
      <4>2. \E x \in Decided(as, "primary", "approved"), y \in Decided(as, "secondary", "approved") :
               x.reviewer # y.reviewer
        BY Zenon, <2>3, <4>1 DEF Stage
      <4> QED BY Zenon, <2>1, <3>1, <4>1, <4>2 DEF SubmissionTrigger
    <3> QED BY Zenon, <2>3, <3>2, <3>3, <3>4
  <2> QED BY Zenon, <2>1, <2>3, <2>4, <2>5, <2>6, TransitionShape, Untouched
<1> QED BY <1>1, <1>2 DEF Review

(* No trigger refuses what a handler does: the guards of the handlers and  *)
(* of the workers, on the states that are reached, imply what the          *)
(* constraint triggers of the database require of the rows they write      *)
(* (protect_submission_state_transition, protect_submission_scan_job,      *)
(* enforce_review_assignment_stage).                                       *)
THEOREM HandlersPassTriggers == Spec => TriggersAgree
<1>1. IInv /\ [Next]_vars => [\A s \in Submissions : TriggersAccept(s)]_vars
  <2> SUFFICES ASSUME IInv, Next PROVE \A s \in Submissions : TriggersAccept(s)
    OBVIOUS
  <2>1. ASSUME NEW s \in Submissions, LeaseLapses(s) PROVE \A t \in Submissions : TriggersAccept(t)
    <3>1. UNCHANGED <<submissions, assignments>> /\ jobs' = [jobs EXCEPT ![s].lapsed = TRUE]
      BY <2>1 DEF LeaseLapses
    <3>2. \A t \in Submissions : [jobs'[t] EXCEPT !.lapsed = FALSE] = [jobs[t] EXCEPT !.lapsed = FALSE]
      <4>1. jobs[s] \in ScanJob /\ jobs'[s] = [jobs[s] EXCEPT !.lapsed = TRUE]
        BY <3>1 DEF IInv, TypeOK
      <4>2. [[jobs[s] EXCEPT !.lapsed = TRUE] EXCEPT !.lapsed = FALSE] = [jobs[s] EXCEPT !.lapsed = FALSE]
        BY Zenon, <4>1 DEF ScanJob
      <4>3. \A t \in Submissions : t # s => jobs'[t] = jobs[t]
        BY <3>1 DEF IInv, TypeOK
      <4> QED BY Zenon, <4>1, <4>2, <4>3
    <3> QED BY <3>1, <3>2 DEF TriggersAccept
  <2>2. ASSUME NEW w \in Workers, WorkerStops(w) PROVE \A t \in Submissions : TriggersAccept(t)
    BY <2>2, Untouched DEF WorkerStops
  <2> QED BY <2>1, <2>2, DeveloperAccepted, WorkerAccepted, ReviewerAccepted DEF Next, Work
<1> QED BY <1>1, InvariantHolds, PTL DEF Spec, TriggersAgree
================================================================================
