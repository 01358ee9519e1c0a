---------------------------- MODULE StorePublisher ----------------------------
(***************************************************************************)
(* Releases and their publication.  The control server moves a release     *)
(* through its life in SERIALIZABLE transactions, each of them one action  *)
(* here, and leaves an event in the outbox.  A publisher worker turns an   *)
(* event into a leased job, prepares a signed Catalog from several         *)
(* separate reads of the database, writes it as an immutable generation of *)
(* the static origin, commits it, and switches the `current' link.  The    *)
(* database and the file system are not committed together, several        *)
(* workers may run, and any of them may stop between any two steps.        *)
(*                                                                         *)
(* An outbox event and the job made of it share the event's identity and   *)
(* are one record.  The lease token of a claim is the number of the        *)
(* attempt, which is as unique as the random token in the code.            *)
(***************************************************************************)
EXTENDS Integers, Sequences

CONSTANTS
    Releases,       \* release identities, one per approved submission
    AppOf,          \* the application of each release
    NoRelease,      \* None
    EventIds,       \* outbox event identities
    Workers,        \* publisher processes
    MaxAttempts     \* MAX_ATTEMPTS

ASSUME PublisherAssumption ==
    /\ NoRelease \notin Releases
    /\ EventIds \subseteq Nat \ {0}
    /\ MaxAttempts \in Nat \ {0}

VARIABLES
    outbox,         \* undispatched events, by (created_unix_seconds, event_id)
    queue,          \* unfinished jobs, by (created_unix_seconds, event_id)
    second,         \* the records stamped with the database's present second
    release,        \* releases: state, resource_version, catalog_sequence
    layouts,        \* store_editorial_revisions: the featured release of each
    job,            \* outbox_events and store_publication_jobs
    last_sequence,  \* catalog_sequence
    snapshots,      \* store_catalog_snapshots
    log,            \* store_transparency_leaves: Catalog sequences by tree_index
    generations,    \* the directories of the static origin
    current,        \* what the `current' link names, 0 for no link
    worker          \* the publishers

orders == <<outbox, queue, second>>
database == <<release, layouts, job, last_sequence, snapshots, log, orders>>
origin == <<generations, current>>
vars == <<database, origin, worker>>

ReleaseStates == {"none", "ready", "scheduled", "publishing", "publish-failed",
                  "published", "paused", "removed"}
JobStates == {"unused", "outbox", "queued", "running", "completed", "failed",
              "superseded"}
Steps == {"down", "start", "reconcile", "enqueue", "recover", "exhausted", "claim",
          "source", "project", "editorial", "bindings", "transparency", "write",
          "commit", "switch", "defer", "fail", "supersede"}

\* What the bytes of one generation depend on.
Contents == [seq : Nat, package : Releases \cup {NoRelease}, apps : SUBSET Releases,
             editorial : Nat, tree : Nat]

Unused == [state |-> "unused", release |-> NoRelease, kind |-> "rebuild-catalog",
           version |-> 0, source |-> "none", editorial |-> 0,
           attempts |-> 0, seq |-> 0, expired |-> FALSE]

\* A worker that holds nothing.
At(pc) == [pc |-> pc, event |-> 0, attempt |-> 0, seq |-> 0, apps |-> {},
           editorial |-> 0, tree |-> 0]

Init ==
    /\ outbox = << >> /\ queue = << >> /\ second = {}
    /\ release = [r \in Releases |-> [state |-> "none", version |-> 0, seq |-> 0]]
    /\ layouts = << >>
    /\ job = [e \in EventIds |-> Unused]
    /\ last_sequence = 0
    /\ snapshots = {} /\ log = << >>
    /\ generations = {} /\ current = 0
    /\ worker = [w \in Workers |-> At("down")]

----------------------------------------------------------------------------
(* The control server                                                      *)

\* A record is stamped with a new second and comes last, or with the present one:
\* its random event_id then puts it anywhere among the others of that second.
Stamped(q, e, new) ==
    \/ second' = {e} /\ new = Append(q, e)
    \/ /\ second' = second \cup {e}
       /\ \E k \in 1 .. Len(q) + 1 :
             /\ \A i \in k .. Len(q) : q[i] \in second
             /\ new = SubSeq(q, 1, k - 1) \o <<e>> \o SubSeq(q, k, Len(q))

\* The random identity of a new event.
NextId == CHOOSE e \in EventIds : job[e].state = "unused"

Published(r) == release[r].state = "published"

\* append_mutation: the outbox event committed with the mutation.
Emit(r, kind, version, source, editorial) ==
    /\ \E e \in EventIds : job[e].state = "unused"
    /\ job' = [job EXCEPT ![NextId] =
          [state |-> "outbox", release |-> r, kind |-> kind, version |-> version,
           source |-> source, editorial |-> editorial,
           attempts |-> 0, seq |-> 0, expired |-> FALSE]]
    /\ Stamped(outbox, NextId, outbox')
    /\ UNCHANGED queue

CreateRelease(r) ==
    /\ release[r].state = "none"
    /\ release' = [release EXCEPT ![r].state = "ready", ![r].version = 1]
    /\ UNCHANGED <<layouts, job, last_sequence, snapshots, log, orders, origin, worker>>

\* ReleaseState::can_transition_to, less the transitions that the triggers keep
\* for the publisher.
Transitions(action) ==
    CASE action = "schedule" -> [from |-> {"ready"}, to |-> "scheduled"]
      [] action = "publish" -> [from |-> {"ready", "scheduled", "publish-failed"},
                                to |-> "publishing"]
      [] action = "pause" -> [from |-> {"published"}, to |-> "paused"]
      [] action = "resume" -> [from |-> {"paused"}, to |-> "published"]
      [] action = "remove" -> [from |-> {"ready", "scheduled", "publish-failed",
                                         "published", "paused"}, to |-> "removed"]

Topic(action) == IF action = "publish" THEN "publish-release" ELSE "rebuild-catalog"

\* Fault: only a publication is announced in the outbox.
Fault_MutateRelease(r, action) ==
    LET version == release[r].version + 1
        target == Transitions(action).to
    IN  /\ release[r].state \in Transitions(action).from
        /\ release' = [release EXCEPT ![r].state = target, ![r].version = version]
        /\ \/ action # "publish" /\ UNCHANGED <<job, orders>>
           \/ action = "publish" /\ Emit(r, Topic(action), version, target, 0)
        /\ UNCHANGED <<layouts, last_sequence, snapshots, log, origin, worker>>

MutateRelease(r, action) ==
    LET version == release[r].version + 1
        target == Transitions(action).to
    IN  /\ release[r].state \in Transitions(action).from
        /\ release' = [release EXCEPT ![r].state = target, ![r].version = version]
        /\ \/ action = "schedule" /\ UNCHANGED <<job, orders>>
           \/ action # "schedule" /\ Emit(r, Topic(action), version, target, 0)
        /\ UNCHANGED <<layouts, last_sequence, snapshots, log, origin, worker>>

\* replace_today_editorial: a layout names published releases only.
ReplaceEditorial(r) ==
    /\ Published(r)
    /\ layouts' = Append(layouts, r)
    /\ Emit(r, "rebuild-catalog", release[r].version, "published", Len(layouts) + 1)
    /\ UNCHANGED <<release, last_sequence, snapshots, log, origin, worker>>

Control ==
    \/ \E r \in Releases : CreateRelease(r)
    \/ \E r \in Releases, action \in {"schedule", "publish", "pause", "resume", "remove"} :
          MutateRelease(r, action)
    \/ \E r \in Releases : ReplaceEditorial(r)

----------------------------------------------------------------------------
(* The publisher                                                           *)

Job(w) == job[worker[w].event]
Committed == {s.seq : s \in snapshots}
Highest(S) == CHOOSE n \in S : \A m \in S : m <= n

Goto(w, pc) == worker' = [worker EXCEPT ![w] = At(pc)]
Step(w, pc) == worker' = [worker EXCEPT ![w].pc = pc]

\* lock_active_job: the claim this worker made is still the job's lease.
LeaseHeld(w) == Job(w).state = "running" /\ Job(w).attempts = worker[w].attempt

\* The release is still as the event says.
Current(e) == /\ release[job[e].release].state = job[e].source
              /\ release[job[e].release].version = job[e].version

\* verify_transparency_log: one leaf per snapshot, with contiguous indices.  No two
\* leaves have a sequence in common (UNIQUE), so the counts are equal if and only if
\* every snapshot has a leaf.
LogVerifies ==
    /\ \A s \in snapshots : \E i \in DOMAIN log : log[i] = s.seq
    /\ \A i \in DOMAIN log : \E s \in snapshots : s.seq = log[i] /\ s.tree = i - 1

\* verify_committed_generation: the origin holds exactly what was committed.
GenerationVerifies(seq) ==
    \A s \in snapshots : s.seq = seq => s \in generations

Open(w) ==
    /\ worker[w].pc = "down"
    /\ LogVerifies
    /\ Goto(w, "start")
    /\ UNCHANGED <<database, origin>>

\* reconcile_current: the newest snapshot is read here and linked below.  With
\* no snapshot there must be no link.
ReconcileRead(w) ==
    /\ worker[w].pc = "start"
    /\ \/ /\ snapshots = {}
          /\ Goto(w, IF current = 0 THEN "enqueue" ELSE "down")
       \/ /\ snapshots # {}
          /\ worker' = [worker EXCEPT ![w] =
                [At("reconcile") EXCEPT !.seq = Highest(Committed)]]
    /\ UNCHANGED <<database, origin>>

SwitchCurrent(seq) == current' = seq

ReconcileSwitch(w) ==
    /\ worker[w].pc = "reconcile"
    /\ \/ /\ GenerationVerifies(worker[w].seq)
          /\ SwitchCurrent(worker[w].seq)
          /\ Goto(w, "enqueue")
       \/ /\ ~GenerationVerifies(worker[w].seq)
          /\ UNCHANGED current
          /\ Goto(w, "down")
    /\ UNCHANGED <<database, generations>>

EnqueueOne(w) ==
    /\ worker[w].pc = "enqueue"
    /\ \/ outbox = << >> /\ UNCHANGED <<job, orders>>
       \/ /\ outbox # << >>
          /\ job' = [job EXCEPT ![Head(outbox)].state = "queued"]
          /\ outbox' = Tail(outbox)
          /\ Stamped(queue, Head(outbox), queue')
    /\ Goto(w, "recover")
    /\ UNCHANGED <<release, layouts, last_sequence, snapshots, log, origin>>

\* Fault: a lease that expired in the last attempt is left alone.
Fault_RecoverSome(w) ==
    /\ worker[w].pc = "recover"
    /\ job' = [e \in EventIds |->
          IF job[e].state = "running" /\ job[e].expired /\ job[e].attempts < MaxAttempts
          THEN [job[e] EXCEPT !.state = "queued", !.expired = FALSE]
          ELSE job[e]]
    /\ Goto(w, "claim")
    /\ UNCHANGED <<release, layouts, last_sequence, snapshots, log, orders, origin>>

\* recover_expired_leases: requeue, or hand the last attempt to finish_failed.
RecoverExpiredLeases(w) ==
    LET Expired == {e \in EventIds : job[e].state = "running" /\ job[e].expired}
    IN  /\ worker[w].pc = "recover"
        /\ job' = [e \in EventIds |->
              IF e \in Expired /\ job[e].attempts < MaxAttempts
              THEN [job[e] EXCEPT !.state = "queued", !.expired = FALSE]
              ELSE job[e]]
        /\ \/ /\ \A e \in Expired : job[e].attempts < MaxAttempts
              /\ Goto(w, "claim")
           \/ \E e \in Expired :
                 /\ job[e].attempts >= MaxAttempts
                 /\ worker' = [worker EXCEPT ![w] = [At("exhausted") EXCEPT
                        !.event = e, !.attempt = job[e].attempts, !.seq = job[e].seq]]
        /\ UNCHANGED <<release, layouts, last_sequence, snapshots, log, orders, origin>>

\* claim_one: one job runs at a time; the first claim reserves a sequence.
ClaimOne(w) ==
    LET e == Head(queue)
        first == job[e].attempts = 0
        seq == IF first THEN last_sequence + 1 ELSE job[e].seq
    IN  /\ worker[w].pc = "claim"
        /\ \/ /\ queue = << >> \/ \E f \in EventIds : job[f].state = "running"
              /\ Goto(w, "start")
              /\ UNCHANGED <<job, last_sequence>>
           \/ /\ queue # << >> /\ \A f \in EventIds : job[f].state # "running"
              /\ last_sequence' = IF first THEN seq ELSE last_sequence
              /\ job' = [job EXCEPT ![e].state = "running", ![e].seq = seq,
                                    ![e].attempts = @ + 1]
              /\ worker' = [worker EXCEPT ![w] = [At("source") EXCEPT
                    !.event = e, !.attempt = job[e].attempts + 1, !.seq = seq]]
        /\ UNCHANGED <<release, layouts, snapshots, log, orders, origin>>

\* The part of a failed preparation that classify_preparation_error decides.
Refuse(w, permanent) ==
    Step(w, IF permanent \/ worker[w].attempt >= MaxAttempts THEN "fail" ELSE "defer")

\* load_release_source and, for a publication, prepare_package, which finds the
\* approved content intact and the developer's key active or does not.
LoadReleaseSource(w) ==
    /\ worker[w].pc = "source"
    /\ \/ ~Current(worker[w].event) /\ Step(w, "supersede")
       \/ Current(worker[w].event) /\ Step(w, "project")
       \/ /\ Current(worker[w].event)
          /\ \E permanent \in BOOLEAN :
                /\ permanent => Job(w).kind = "publish-release"
                /\ Refuse(w, permanent)
    /\ UNCHANGED <<database, origin>>

\* Every application's latest artifact, the target's taking its application's
\* place; only published ones are listed.
Projection(target) ==
    LET Artifacts == {r \in Releases : release[r].seq # 0}
        Latest == {r \in Artifacts : \A q \in Artifacts :
                      AppOf[q] = AppOf[r] => release[q].seq <= release[r].seq}
    IN  {r \in Latest : Published(r) /\ (target # NoRelease => AppOf[r] # AppOf[target])}
        \cup ({target} \ {NoRelease})

Target(e) == IF job[e].kind = "publish-release" THEN job[e].release ELSE NoRelease

PreparePublication(w) ==
    /\ worker[w].pc = "project"
    /\ worker' = [worker EXCEPT ![w].pc = "editorial",
          ![w].apps = Projection(Target(worker[w].event))]
    /\ UNCHANGED <<database, origin>>

\* load_editorial_projection reads the revision the job is bound to, or the
\* layout in force, ...
LoadEditorial(w) ==
    /\ worker[w].pc = "editorial"
    /\ worker' = [worker EXCEPT ![w].pc = "bindings",
          ![w].editorial = IF Job(w).editorial # 0 THEN Job(w).editorial ELSE Len(layouts)]
    /\ UNCHANGED <<database, origin>>

\* ... and then asks whether what the layout features can still be shown.
CheckBindings(w) ==
    LET Shown(v) == /\ Published(layouts[v])
                    /\ \E r \in worker[w].apps : AppOf[r] = AppOf[layouts[v]]
    IN  /\ worker[w].pc = "bindings"
        /\ worker' = [worker EXCEPT ![w].pc = "transparency",
              ![w].editorial = IF @ # 0 /\ Shown(@) THEN @ ELSE 0]
        /\ UNCHANGED <<database, origin>>

PrepareTransparency(w) ==
    /\ worker[w].pc = "transparency"
    /\ worker' = [worker EXCEPT ![w].pc = "write", ![w].tree = Len(log)]
    /\ UNCHANGED <<database, origin>>

Prepared(w) == [seq |-> worker[w].seq, package |-> Target(worker[w].event),
                apps |-> worker[w].apps, editorial |-> worker[w].editorial,
                tree |-> worker[w].tree]

\* Fault: a generation that exists is replaced.
Fault_WriteGeneration(w) ==
    /\ worker[w].pc = "write"
    /\ \/ /\ generations' = {g \in generations : g.seq # worker[w].seq} \cup {Prepared(w)}
          /\ Step(w, "commit")
       \/ Refuse(w, FALSE) /\ UNCHANGED generations
    /\ UNCHANGED <<database, current>>

\* write_generation: a generation is renamed into place whole and never
\* rewritten; one that exists already must hold the same bytes.
WriteGeneration(w) ==
    /\ worker[w].pc = "write"
    /\ \/ /\ \A g \in generations : g.seq = worker[w].seq => g = Prepared(w)
          /\ generations' = generations \cup {Prepared(w)}
          /\ Step(w, "commit")
       \/ Refuse(w, FALSE) /\ UNCHANGED generations
    /\ UNCHANGED <<database, current>>

\* A job that is over leaves the queue.
Without(q, e) ==
    LET k == CHOOSE i \in DOMAIN q : q[i] = e
    IN  SubSeq(q, 1, k - 1) \o SubSeq(q, k + 1, Len(q))

Finish(e, state) ==
    /\ job' = [job EXCEPT ![e].state = state, ![e].expired = FALSE]
    /\ queue' = Without(queue, e)
    /\ second' = second \ {e}
    /\ UNCHANGED outbox

\* commit_publication, with the trigger that keeps tree indices contiguous.
CommitPublication(w) ==
    LET e == worker[w].event
        r == job[e].release
    IN  /\ worker[w].pc = "commit"
        /\ \/ /\ LeaseHeld(w) /\ Current(e) /\ worker[w].tree = Len(log)
              /\ snapshots' = snapshots \cup {Prepared(w)}
              /\ log' = Append(log, worker[w].seq)
              /\ Finish(e, "completed")
              /\ release' = IF job[e].kind = "publish-release"
                            THEN [release EXCEPT ![r].state = "published",
                                    ![r].version = @ + 1, ![r].seq = worker[w].seq]
                            ELSE release
              /\ Step(w, "switch")
           \/ /\ LeaseHeld(w) /\ ~Current(e)
              /\ Finish(e, "superseded")
              /\ Goto(w, "start")
              /\ UNCHANGED <<release, snapshots, log>>
           \/ /\ ~LeaseHeld(w) \/ worker[w].tree # Len(log)
              /\ Goto(w, "down")
              /\ UNCHANGED <<release, job, snapshots, log, orders>>
        /\ UNCHANGED <<layouts, last_sequence, origin>>

SwitchCommitted(w) ==
    /\ worker[w].pc = "switch"
    /\ \/ /\ GenerationVerifies(worker[w].seq)
          /\ SwitchCurrent(worker[w].seq)
          /\ Goto(w, "start")
       \/ /\ ~GenerationVerifies(worker[w].seq)
          /\ UNCHANGED current
          /\ Goto(w, "down")
    /\ UNCHANGED <<database, generations>>

\* What ends an attempt changes the job only under the lease it was claimed with.
EndAttempt(w, steps, Change(_)) ==
    /\ worker[w].pc \in steps
    /\ \/ LeaseHeld(w) /\ Change(worker[w].event) /\ Goto(w, "start")
       \/ ~LeaseHeld(w) /\ UNCHANGED <<release, job, orders>> /\ Goto(w, "down")
    /\ UNCHANGED <<layouts, last_sequence, snapshots, log, origin>>

DeferJob(w) ==
    LET Requeue(e) == /\ job' = [job EXCEPT ![e].state = "queued", ![e].expired = FALSE]
                      /\ UNCHANGED <<release, orders>>
    IN  EndAttempt(w, {"defer"}, Requeue)

FinishSuperseded(w) ==
    LET Supersede(e) == Finish(e, "superseded") /\ UNCHANGED release
    IN  EndAttempt(w, {"supersede"}, Supersede)

FinishFailed(w) ==
    LET Fail(e) ==
          /\ Finish(e, IF Current(e) THEN "failed" ELSE "superseded")
          /\ release' = IF Current(e) /\ job[e].kind = "publish-release"
                        THEN [release EXCEPT ![job[e].release].state = "publish-failed",
                                             ![job[e].release].version = @ + 1]
                        ELSE release
    IN  EndAttempt(w, {"fail", "exhausted"}, Fail)

Work(w) ==
    \/ Open(w) \/ ReconcileRead(w) \/ ReconcileSwitch(w) \/ EnqueueOne(w)
    \/ RecoverExpiredLeases(w) \/ ClaimOne(w) \/ LoadReleaseSource(w)
    \/ PreparePublication(w) \/ LoadEditorial(w) \/ CheckBindings(w)
    \/ PrepareTransparency(w) \/ WriteGeneration(w) \/ CommitPublication(w)
    \/ SwitchCommitted(w) \/ DeferJob(w) \/ FinishSuperseded(w) \/ FinishFailed(w)

----------------------------------------------------------------------------
(* The surroundings                                                        *)

\* A worker dies, or an error or a serialization failure sends it back.
Crash(w) ==
    /\ worker[w].pc # "down"
    /\ Goto(w, "down")
    /\ UNCHANGED <<database, origin>>

\* LEASE_SECONDS have passed since the job was claimed.
LeaseExpires(e) ==
    /\ job[e].state = "running" /\ ~job[e].expired
    /\ job' = [job EXCEPT ![e].expired = TRUE]
    /\ second' = {}
    /\ UNCHANGED <<release, layouts, last_sequence, snapshots, log, outbox, queue, origin,
                   worker>>

Next ==
    \/ Control
    \/ \E w \in Workers : Work(w)
    \/ \E w \in Workers : Crash(w)
    \/ \E e \in EventIds : LeaseExpires(e)

Fairness ==
    /\ \A w \in Workers : WF_vars(Work(w))
    /\ \A e \in EventIds : WF_vars(LeaseExpires(e))

Spec == Init /\ [][Next]_vars /\ Fairness

----------------------------------------------------------------------------
(* Properties                                                              *)

TypeOK ==
    /\ outbox \in Seq(EventIds) /\ queue \in Seq(EventIds) /\ second \subseteq EventIds
    /\ last_sequence \in Nat /\ current \in Nat
    /\ release \in [Releases -> [state : ReleaseStates, version : Nat, seq : Nat]]
    /\ layouts \in Seq(Releases)
    /\ job \in [EventIds -> [state : JobStates, release : Releases \cup {NoRelease},
                  kind : {"publish-release", "rebuild-catalog"}, version : Nat,
                  source : ReleaseStates, editorial : Nat,
                  attempts : 0 .. MaxAttempts, seq : Nat, expired : BOOLEAN]]
    /\ snapshots \subseteq Contents /\ generations \subseteq Contents
    /\ log \in Seq(Nat)
    /\ worker \in [Workers -> [pc : Steps, event : EventIds \cup {0}, attempt : Nat,
                  seq : Nat, apps : SUBSET Releases, editorial : Nat, tree : Nat]]

\* No start of the publisher is ever refused: the transparency log is one-to-one
\* with the Catalog snapshots (verify_transparency_log), and every committed
\* snapshot is in the origin exactly as it was committed, whatever crashed,
\* lost its lease or was retried while its generation was being written.
StartNeverRefused ==
    /\ LogVerifies
    /\ \A s \in snapshots : GenerationVerifies(s.seq)

\* The `current' link only ever names a committed Catalog: a generation written
\* by an attempt that did not commit is never served.
ServesCommitted == current # 0 => current \in Committed

\* Database and origin agree: every start is accepted, and only a committed
\* Catalog is served.
OriginSound == TypeOK /\ StartNeverRefused /\ ServesCommitted

\* A release that is published or paused was made available by exactly one
\* committed Catalog, the one of its catalog_sequence, which carried its package
\* and listed it; no other release has a sequence except a removed one.
PublishedWasCommitted ==
    \A r \in Releases :
        /\ release[r].state \in {"published", "paused"} => release[r].seq # 0
        /\ release[r].seq # 0 =>
              /\ release[r].state \in {"published", "paused", "removed"}
              /\ {s \in snapshots : s.package = r} =
                    {s \in snapshots : s.seq = release[r].seq /\ r \in s.apps}
              /\ release[r].seq \in Committed

\* A catalog sequence is reserved by one job and never by another, and at most
\* one job is running.
SequencesNotReused ==
    \A e, f \in EventIds : e # f =>
        /\ job[e].seq # 0 => job[e].seq # job[f].seq
        /\ ~(job[e].state = "running" /\ job[f].state = "running")

\* A release waiting to be published has an event or an unfinished job for the
\* version it is at: it can not be forgotten in `publishing'.
PublishingIsPending ==
    \A r \in Releases : release[r].state = "publishing" =>
        \E e \in EventIds : /\ job[e].state \in {"outbox", "queued", "running"}
                             /\ job[e].release = r /\ Current(e)

\* What is published was committed under a sequence of its own, and what is to
\* be published is not forgotten.
PublicationRecorded == PublishedWasCommitted /\ SequencesNotReused /\ PublishingIsPending

\* Database, origin and jobs agree whatever crashes, stalls or is retried:
\* every start is accepted, only a committed Catalog is served, and a release
\* is neither published twice nor forgotten.
PublisherSound == OriginSound /\ PublicationRecorded

Quiescent == \A e \in EventIds : job[e].state \notin {"outbox", "queued", "running"}
InOrder == \A i, k \in DOMAIN log : i < k => log[i] < log[k]

\* Once all requests have been handled, and no rebuild was given up, the newest
\* Catalog lists exactly the published releases (the latest of each
\* application), although every attempt reads the releases, the layout and the
\* log at different moments -- provided the Catalogs were committed in the
\* order of their sequences, which jobs created in the same second need not be.
CatalogCatchesUp ==
    (/\ Quiescent /\ InOrder /\ snapshots # {}
     /\ \A e \in EventIds : job[e].state # "failed") =>
        \A s \in snapshots : s.seq = Highest(Committed) => s.apps = Projection(NoRelease)

\* Every release that is being published is published or refused in the end,
\* through lost leases, crashes and refused attempts (MAX_ATTEMPTS).
PublicationSettles ==
    \A r \in Releases : release[r].state = "publishing" ~> release[r].state # "publishing"
===============================================================================
