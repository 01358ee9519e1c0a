---------------------------- MODULE StoreAgent ----------------------------
(***************************************************************************)
(* cp0-stored, the device side of the application store.  Three kinds of   *)
(* thread share one mutex-protected MutableState: the connection thread,   *)
(* which serves one request at a time; the scheduler, which starts the     *)
(* automatic update check; and the workers those two spawn (a Catalog      *)
(* refresh, an install queue, an automatic check).  active_job is the      *)
(* reservation that is meant to keep the workers apart.  Every step below  *)
(* is one critical section, or one piece of file, network or appd work     *)
(* done between two of them.                                               *)
(*                                                                         *)
(* A Catalog is identified by its sequence number; Listings gives what the *)
(* store signed under each.  A release stands for a version with its       *)
(* package digest: releases of one application are ordered, 0 is none.     *)
(***************************************************************************)
EXTENDS Integers, Sequences, FiniteSets

CONSTANTS
    NApps,              \* applications are 1..NApps, in canonical order
    Listings,           \* Catalog sequence -> application -> release, 0 if not listed
    Widening,           \* the <<application, release>> that ask for new permissions
    Clients,            \* who confirms installations: System Shell, cp0ctl
    Slots,              \* worker threads that may exist at once
    MaxBatch,           \* MAX_INSTALL_BATCH_APPS
    MaxAuthorizations   \* bound on the preflights of one run of the service

Apps == 1 .. NApps
CatalogSequences == DOMAIN Listings
Releases == {Listings[s][a] : s \in CatalogSequences, a \in Apps} \ {0}

ASSUME StoreAssumption ==
    /\ NApps \in Nat
    /\ Listings \in Seq([Apps -> Nat])
    /\ Widening \subseteq Apps \X Nat
    /\ MaxBatch \in Nat \ {0}
    /\ MaxAuthorizations \in Nat

VARIABLES
    catalog,                \* sequence of the Catalog in memory, 0 for None
    disk,                   \* sequence of the Catalog in the cache file
    operations,             \* OperationState per application
    install_authorization,
    next_authorization,     \* AUTHORIZATION_SEQUENCE
    active_job,
    auto_update,            \* enabled, and whether the next check is due
    auto_update_running,
    part,                   \* the .part file of each release
    installed,              \* appd's registry
    shown,                  \* the preflight each client is asking its user about
    client,                 \* the connection thread
    threads                 \* the workers

vars == <<catalog, disk, operations, install_authorization, next_authorization,
          active_job, auto_update, auto_update_running, part, installed, shown,
          client, threads>>

NoOperation == [state |-> "none", release |-> 0, control |-> "continue", automatic |-> FALSE]

Operation(state, release, control, automatic) ==
    [state |-> state, release |-> release, control |-> control, automatic |-> automatic]

NoPreflight == [id |-> 0, sequence |-> 0, apps |-> <<>>, old |-> FALSE]
IdleClient == [step |-> "idle", apps |-> <<>>, sequence |-> 0, automatic |-> FALSE, by |-> {}]
IdleThread == [kind |-> "none", step |-> "idle", queue |-> <<>>, sequence |-> 0, outcome |-> "none"]

Init ==
    /\ catalog = 0 /\ disk = 0
    /\ operations = [a \in Apps |-> NoOperation]
    /\ install_authorization = NoPreflight
    /\ next_authorization = 1
    /\ active_job = FALSE
    /\ auto_update = [enabled |-> FALSE, due |-> TRUE]
    /\ auto_update_running = FALSE
    /\ part = [a \in Apps |-> [r \in Releases |-> "none"]]
    /\ installed = [a \in Apps |-> 0]
    /\ shown = [c \in Clients |-> NoPreflight]
    /\ client = IdleClient
    /\ threads = [i \in Slots |-> IdleThread]

-----------------------------------------------------------------------------
(* Helpers of the install path.                                            *)

catalog_contains_exact_apps(apps) ==
    catalog # 0 /\ \A a \in DOMAIN apps : Listings[catalog][a] = apps[a]

Unfinished(a) == operations[a].state \in {"queued", "downloading", "paused", "installing"}

\* Every application of the request is listed and has no unfinished operation.
collect_install_apps(S) == \A a \in S : Listings[catalog][a] # 0 /\ ~Unfinished(a)

\* The queue of a batch (the only one there is): each of its applications
\* once, in the canonical order of their identifiers.
Queues(apps, automatic) ==
    LET jobs == {[app |-> a, release |-> apps[a], automatic |-> automatic] : a \in DOMAIN apps}
    IN {queue \in [1 .. Cardinality(DOMAIN apps) -> jobs] :
            /\ \A a \in DOMAIN apps : \E k \in DOMAIN queue : queue[k].app = a
            /\ \A j, k \in DOMAIN queue : j < k => queue[j].app < queue[k].app}

\* The insertion of one Queued operation for each application of a batch.
InsertQueued(apps, automatic) ==
    [a \in Apps |-> IF a \in DOMAIN apps
                    THEN Operation("queued", apps[a], "continue", automatic)
                    ELSE operations[a]]

Free == {i \in Slots : threads[i] = IdleThread}

Spawn(thread) ==
    /\ Free # {}
    /\ threads' = [threads EXCEPT ![CHOOSE i \in Free : TRUE] = thread]

-----------------------------------------------------------------------------
(* Requests, handled by the connection thread.                             *)

StateOnly == UNCHANGED <<disk, part, installed, shown>>

\* preflight_install up to the release of the lock: what is to be installed
\* is copied out of the Catalog.
Preflight(c, S) ==
    /\ client = IdleClient /\ next_authorization <= MaxAuthorizations
    /\ ~active_job
    /\ catalog # 0
    /\ S # {} /\ Cardinality(S) <= MaxBatch
    /\ collect_install_apps(S)
    /\ client' = [IdleClient EXCEPT !.step = "preflight", !.by = {c}, !.sequence = catalog,
                                    !.apps = [a \in S |-> Listings[catalog][a]]]
    /\ UNCHANGED <<catalog, operations, install_authorization, next_authorization,
                   active_job, auto_update, auto_update_running, threads>>
    /\ StateOnly

\* Its second half: ok says that policy and free space allow it.
PreflightFinish(ok) ==
    LET grant == /\ ok /\ ~active_job
                 /\ catalog = client.sequence
                 /\ catalog_contains_exact_apps(client.apps)
        issued == [id |-> next_authorization, sequence |-> client.sequence,
                   apps |-> client.apps, old |-> FALSE]
    IN /\ client.step = "preflight"
       /\ client' = IdleClient
       /\ next_authorization' = IF ok THEN next_authorization + 1 ELSE next_authorization
       /\ install_authorization' = IF grant THEN issued ELSE install_authorization
       /\ shown' = [c \in Clients |-> IF grant /\ c \in client.by THEN issued ELSE shown[c]]
       /\ UNCHANGED <<catalog, disk, operations, active_job, auto_update,
                      auto_update_running, part, installed, threads>>

\* mutant: the identifier of the authorization is not compared
Fault_Authorized(c) == DOMAIN install_authorization.apps = DOMAIN shown[c].apps

\* The check of start_authorized_install_batch that the presented
\* authorization is the one held.
Authorized(c) ==
    /\ install_authorization.id = shown[c].id
    /\ DOMAIN install_authorization.apps = DOMAIN shown[c].apps

\* start_authorized_install(_batch) up to the reservation of the job.  The
\* authorization is taken whatever comes of the request; fresh says that
\* neither it nor the Catalog has expired.
Install(c, fresh) ==
    LET accepted == /\ Authorized(c) /\ fresh
                    /\ catalog = install_authorization.sequence
                    /\ catalog_contains_exact_apps(install_authorization.apps)
    IN /\ client = IdleClient /\ shown[c] # NoPreflight
       /\ ~active_job
       /\ install_authorization # NoPreflight
       /\ install_authorization' = NoPreflight
       /\ active_job' = accepted
       /\ client' = IF accepted
                    THEN [IdleClient EXCEPT !.step = "validate", !.by = {c},
                                            !.apps = install_authorization.apps]
                    ELSE IdleClient
       /\ shown' = [shown EXCEPT ![c] = NoPreflight]
       /\ UNCHANGED <<catalog, disk, operations, next_authorization, auto_update,
                      auto_update_running, part, installed, threads>>

\* resume_install up to the reservation of the job.
Resume(a) ==
    /\ client = IdleClient
    /\ ~active_job
    /\ catalog # 0
    /\ operations[a].state = "paused"
    /\ Listings[catalog][a] = operations[a].release
    /\ active_job' = TRUE
    /\ client' = [IdleClient EXCEPT !.step = "validate", !.automatic = operations[a].automatic,
                                    !.apps = [b \in {a} |-> operations[a].release]]
    /\ UNCHANGED <<catalog, operations, install_authorization, next_authorization,
                   auto_update, auto_update_running, threads>>
    /\ StateOnly

\* The error path of spawn_install_worker.
SpawnFailed(apps, automatic) ==
    [a \in Apps |-> IF a \in DOMAIN apps
                    THEN Operation("failed", apps[a], "continue", automatic)
                    ELSE operations[a]]

\* The rest of both: preconditions (ok), the Queued operations, the worker.
\* The preconditions of an automatic operation include the user's preference.
Validate(ok, spawned) ==
    LET valid == ok /\ (client.automatic => auto_update.enabled)
    IN /\ client.step = "validate"
       /\ client' = IdleClient
       /\ \/ /\ ~valid
             /\ active_job' = FALSE
             /\ UNCHANGED <<operations, threads>>
          \/ /\ valid /\ spawned
             /\ operations' = InsertQueued(client.apps, client.automatic)
             /\ \E queue \in Queues(client.apps, client.automatic) :
                   Spawn([IdleThread EXCEPT !.kind = "install", !.step = "open",
                                            !.queue = queue])
             /\ UNCHANGED active_job
          \/ /\ valid /\ ~spawned
             /\ operations' = SpawnFailed(client.apps, client.automatic)
             /\ active_job' = FALSE
             /\ UNCHANGED threads
       /\ UNCHANGED <<catalog, install_authorization, next_authorization, auto_update,
                      auto_update_running>>
       /\ StateOnly

Transferring(a) == operations[a].state \in {"queued", "downloading"}

\* control_operation, Pause: only a request that changes something.
Pause(a) ==
    /\ client = IdleClient
    /\ Transferring(a) /\ operations[a].control = "continue"
    /\ operations' = [operations EXCEPT ![a].control = "pause"]
    /\ UNCHANGED <<catalog, install_authorization, next_authorization, active_job,
                   auto_update, auto_update_running, client, threads>>
    /\ StateOnly

\* control_operation, Cancel.  A paused or failed operation has no worker:
\* the connection thread reserves the job and removes the file itself.
Cancel(a) ==
    /\ client = IdleClient
    /\ \/ /\ Transferring(a)
          /\ UNCHANGED <<active_job, client>>
       \/ /\ operations[a].state \in {"paused", "failed"} /\ ~active_job
          /\ active_job' = TRUE
          /\ client' = [IdleClient EXCEPT !.step = "cleanup",
                                          !.apps = [b \in {a} |-> operations[a].release]]
    /\ operations' = [operations EXCEPT ![a].control = "cancel"]
    /\ UNCHANGED <<catalog, install_authorization, next_authorization, auto_update,
                   auto_update_running, threads>>
    /\ StateOnly

\* Its deferred cleanup; ok says that the file could be removed.
CancelCleanup(ok) ==
    /\ client.step = "cleanup"
    /\ client' = IdleClient
    /\ active_job' = FALSE
    /\ \E a \in DOMAIN client.apps :
          /\ part' = [part EXCEPT ![a][client.apps[a]] = IF ok THEN "none" ELSE @]
          /\ operations' = [operations EXCEPT ![a] =
                 IF @.release = client.apps[a]
                 THEN Operation(IF ok THEN "canceled" ELSE "failed", @.release, "continue", @.automatic)
                 ELSE @]
    /\ UNCHANGED <<catalog, disk, install_authorization, next_authorization, auto_update,
                   auto_update_running, installed, shown, threads>>

\* start_refresh.  A worker that cannot be spawned gives the job back.
Refresh ==
    /\ client = IdleClient
    /\ ~active_job
    /\ active_job' = TRUE
    /\ Spawn([IdleThread EXCEPT !.kind = "refresh", !.step = "fetch"])
    /\ UNCHANGED <<catalog, operations, install_authorization, next_authorization,
                   auto_update, auto_update_running, client>>
    /\ StateOnly

\* details_response and media_response hold the job while they fill the
\* media cache, on the connection thread itself.
CacheMedia ==
    /\ client = IdleClient
    /\ ~active_job
    /\ active_job' = TRUE
    /\ client' = [IdleClient EXCEPT !.step = "media"]
    /\ UNCHANGED <<catalog, operations, install_authorization, next_authorization,
                   auto_update, auto_update_running, threads>>
    /\ StateOnly

CacheMediaDone ==
    /\ client.step = "media"
    /\ active_job' = FALSE
    /\ client' = IdleClient
    /\ UNCHANGED <<catalog, operations, install_authorization, next_authorization,
                   auto_update, auto_update_running, threads>>
    /\ StateOnly

-----------------------------------------------------------------------------
(* The automatic update check.                                             *)

\* mutant: the check starts beside a job that is running
Fault_AutoCheck(enabled, spawned) ==
    /\ enabled /\ auto_update.due
    /\ ~auto_update_running
    /\ auto_update' = [enabled |-> enabled, due |-> FALSE]
    /\ \/ /\ spawned
          /\ active_job' = TRUE /\ auto_update_running' = TRUE
          /\ Spawn([IdleThread EXCEPT !.kind = "auto", !.step = "fetch"])
       \/ ~spawned /\ UNCHANGED <<active_job, auto_update_running, threads>>

\* start_auto_update_check, from the scheduler or a request.  The check time
\* is saved before the work begins: the next check is not due any more, even
\* when the worker cannot be spawned.
AutoCheck(enabled, spawned) ==
    /\ enabled /\ auto_update.due
    /\ ~active_job /\ ~auto_update_running
    /\ auto_update' = [enabled |-> enabled, due |-> FALSE]
    /\ \/ /\ spawned
          /\ active_job' = TRUE /\ auto_update_running' = TRUE
          /\ Spawn([IdleThread EXCEPT !.kind = "auto", !.step = "fetch"])
       \/ ~spawned /\ UNCHANGED <<active_job, auto_update_running, threads>>

StartAutoUpdateCheck(spawned) ==
    /\ AutoCheck(auto_update.enabled, spawned)
    /\ UNCHANGED <<catalog, operations, install_authorization, next_authorization, client>>
    /\ StateOnly

\* set_auto_update.  Switching it on starts a check when one is due and power
\* and network allow it.
SetAutoUpdate(enabled) ==
    /\ client = IdleClient
    /\ enabled # auto_update.enabled
    /\ \/ /\ auto_update' = [auto_update EXCEPT !.enabled = enabled]
          /\ UNCHANGED <<active_job, auto_update_running, threads>>
       \/ \E spawned \in BOOLEAN : AutoCheck(enabled, spawned)
    /\ UNCHANGED <<catalog, operations, install_authorization, next_authorization, client>>
    /\ StateOnly

\* AUTO_UPDATE_INTERVAL_SECONDS have passed, or the clock was set back.
CheckDue ==
    /\ ~auto_update.due
    /\ auto_update' = [auto_update EXCEPT !.due = TRUE]
    /\ UNCHANGED <<catalog, operations, install_authorization, next_authorization,
                   active_job, auto_update_running, client, threads>>
    /\ StateOnly

-----------------------------------------------------------------------------
(* Catalog refresh: the first part of a refresh and of an automatic check. *)

At(i, step) == threads[i].step = step

Goto(i, step) == threads' = [threads EXCEPT ![i].step = step]

\* Work of a worker that touches no MutableState.
WorkOnly == UNCHANGED <<catalog, operations, install_authorization, next_authorization,
                        active_job, auto_update, auto_update_running, installed, shown, client>>

\* mutant: a Catalog with a lower sequence is taken
Fault_AcceptsSequence(s) == TRUE

\* A Catalog of sequence s is not a rollback.
AcceptsSequence(s) == s >= catalog

\* refresh_now: download, verification and the sequence check.  Any Catalog
\* the store ever signed may be served.
Fetch(i, s) ==
    /\ At(i, "fetch")
    /\ threads' = [threads EXCEPT ![i].step = IF AcceptsSequence(s) THEN "commit" ELSE "release",
                                  ![i].sequence = s]
    /\ WorkOnly /\ UNCHANGED <<disk, part>>

\* commit_catalog_cache.  When only the last directory sync fails the file is
\* in place and an error is reported all the same.
CommitCatalogCache(i, outcome) ==
    /\ At(i, "commit")
    /\ disk' = IF outcome = "failed" THEN disk ELSE threads[i].sequence
    /\ Goto(i, IF outcome = "ok" THEN "publish" ELSE "release")
    /\ WorkOnly /\ UNCHANGED part

\* The reconciliation of the operations with the new Catalog.
Retain(s) ==
    [a \in Apps |->
        LET o == operations[a]
        IN CASE Listings[s][a] = 0 -> NoOperation
             [] /\ Listings[s][a] # o.release
                /\ o.state \in {"paused", "failed"}
                   -> Operation("failed", o.release, "continue", o.automatic)
             [] OTHER -> o]

PublishCatalog(i) ==
    /\ At(i, "publish")
    /\ operations' = Retain(threads[i].sequence)
    /\ catalog' = threads[i].sequence
    /\ Goto(i, IF threads[i].kind = "auto" THEN "select" ELSE "release")
    /\ UNCHANGED <<install_authorization, next_authorization, active_job, auto_update,
                   auto_update_running, client>>
    /\ StateOnly

-----------------------------------------------------------------------------
(* The automatic check after its refresh.                                  *)

Candidates ==
    {a \in Apps : /\ installed[a] # 0
                  /\ Listings[catalog][a] > installed[a]
                  /\ <<a, Listings[catalog][a]>> \notin Widening}

\* auto_update_candidates, over what appd says is installed.
SelectCandidates(i) ==
    LET first == {a \in Candidates : Cardinality({b \in Candidates : b < a}) < MaxBatch}
        apps == [a \in first |-> Listings[catalog][a]]
    IN /\ At(i, "select")
       /\ \/ /\ auto_update.enabled /\ Candidates # {}
             /\ \E queue \in Queues(apps, TRUE) :
                   threads' = [threads EXCEPT ![i].step = "insert", ![i].queue = queue]
          \/ /\ ~(auto_update.enabled /\ Candidates # {})
             /\ Goto(i, "release")
       /\ WorkOnly /\ UNCHANGED <<disk, part>>

\* The preconditions hold and the queue is published.
InsertCandidates(i) ==
    LET queue == threads[i].queue
        apps == [a \in {queue[k].app : k \in DOMAIN queue} |-> Listings[threads[i].sequence][a]]
    IN /\ At(i, "insert")
       /\ auto_update.enabled
       /\ catalog_contains_exact_apps(apps)
       /\ operations' = InsertQueued(apps, TRUE)
       /\ Goto(i, "open")
       /\ UNCHANGED <<catalog, install_authorization, next_authorization, active_job,
                      auto_update, auto_update_running, client>>
       /\ StateOnly

\* Any error before the queue is published ends the worker: the network, the
\* validity window, appd's list, policy, power or space.
GiveUp(i) ==
    /\ threads[i].step \in {"fetch", "select", "insert"}
    /\ threads' = [threads EXCEPT ![i].step = "release", ![i].queue = <<>>]
    /\ WorkOnly /\ UNCHANGED <<disk, part>>

-----------------------------------------------------------------------------
(* install_now, for the application at the head of the worker's queue.     *)

Job(i) == Head(threads[i].queue)
Package(i) == part[Job(i).app][Job(i).release]

Outcome(i, outcome) ==
    threads' = [threads EXCEPT ![i].step = "finish", ![i].outcome = outcome]

\* What the worker is told to do: the operation may be gone or another one.
Control(i) ==
    LET o == operations[Job(i).app]
    IN IF o.release = Job(i).release THEN o.control ELSE "cancel"

\* update_download_control and begin_install_handoff: enter the state and go
\* on to step, unless the user paused or canceled.
Proceed(i, state, step) ==
    /\ operations' = [operations EXCEPT ![Job(i).app].state =
                          IF Control(i) = "continue" THEN state ELSE @]
    /\ CASE Control(i) = "continue" -> Goto(i, step)
         [] Control(i) = "pause" -> Outcome(i, "paused")
         [] Control(i) = "cancel" -> Goto(i, "discard")
    /\ UNCHANGED <<catalog, disk, install_authorization, next_authorization, active_job,
                   auto_update, auto_update_running, installed, shown, client>>

SetPackage(i, content) == part' = [part EXCEPT ![Job(i).app][Job(i).release] = content]

\* download_package up to its first control point: the file is created or
\* found, and a file of full length needs no transfer.
OpenPackage(i) ==
    /\ At(i, "open")
    /\ SetPackage(i, IF Package(i) = "none" THEN "prefix" ELSE Package(i))
    /\ Proceed(i, "downloading", IF Package(i) \in {"full", "bad"} THEN "verify" ELSE "transfer")

\* A chunk arrives.  "bad" is a file of full length with the wrong digest.
Transfer(i, content) ==
    /\ At(i, "transfer")
    /\ SetPackage(i, content)
    /\ Proceed(i, "downloading", IF content = "prefix" THEN "transfer" ELSE "verify")

\* mutant: a wrong file is downloaded again, for as long as it takes
Fault_VerifyRetries(i, truncated) ==
    /\ At(i, "verify")
    /\ SetPackage(i, IF Package(i) = "bad" THEN "prefix" ELSE Package(i))
    /\ Goto(i, IF Package(i) = "full" THEN "handoff" ELSE "transfer")
    /\ WorkOnly /\ UNCHANGED disk

\* verify_package_file: a wrong file is truncated, if that succeeds.
VerifyPackage(i, truncated) ==
    /\ At(i, "verify")
    /\ SetPackage(i, IF Package(i) = "bad" /\ truncated THEN "prefix" ELSE Package(i))
    /\ IF Package(i) = "full" THEN Goto(i, "handoff") ELSE Outcome(i, "failed")
    /\ WorkOnly /\ UNCHANGED disk

BeginInstallHandoff(i) ==
    /\ At(i, "handoff")
    /\ Proceed(i, "installing", "stage")
    /\ UNCHANGED part

\* stage_for_appd: the package is copied into appd's inbox.
StagePackage(i, ok) ==
    /\ At(i, "stage")
    /\ IF ok THEN Goto(i, "install") ELSE Outcome(i, "failed")
    /\ WorkOnly /\ UNCHANGED <<disk, part>>

\* appd's StoreInstall, and the removal of the staged file.  appd takes an
\* upgrade, a first installation or an exact replay; "lost" is an installation
\* whose answer does not come back in time.
InstallPackage(i, answer) ==
    /\ At(i, "install")
    /\ answer \in {"installed", "lost"} => installed[Job(i).app] <= Job(i).release
    /\ installed' = [installed EXCEPT ![Job(i).app] =
                         IF answer \in {"installed", "lost"} THEN Job(i).release ELSE @]
    /\ Outcome(i, IF answer = "installed" THEN "installed" ELSE "failed")
    /\ UNCHANGED <<catalog, disk, operations, install_authorization, next_authorization,
                   active_job, auto_update, auto_update_running, part, shown, client>>

\* remove_partial_package on the worker's cancel path.
DiscardPackage(i, ok) ==
    /\ At(i, "discard")
    /\ SetPackage(i, IF ok THEN "none" ELSE Package(i))
    /\ Outcome(i, IF ok THEN "canceled" ELSE "failed")
    /\ WorkOnly /\ UNCHANGED disk

\* A network or file error while downloading.
DownloadFails(i) ==
    /\ threads[i].step \in {"open", "transfer"}
    /\ Outcome(i, "failed")
    /\ WorkOnly /\ UNCHANGED <<disk, part>>

\* finish_install_operation, and on to the next application of the queue.
FinishInstallOperation(i) ==
    /\ At(i, "finish")
    /\ operations' = [operations EXCEPT ![Job(i).app] =
           IF @.release = Job(i).release
           THEN Operation(threads[i].outcome, @.release, "continue", @.automatic)
           ELSE @]
    /\ threads' = [threads EXCEPT ![i].queue = Tail(@), ![i].outcome = "none",
                       ![i].step = IF Len(threads[i].queue) = 1 THEN "release" ELSE "open"]
    /\ UNCHANGED <<catalog, install_authorization, next_authorization, active_job,
                   auto_update, auto_update_running, client>>
    /\ StateOnly

\* release_job or finish_auto_update_check, the last act of a worker.
ReleaseJob(i) ==
    /\ At(i, "release")
    /\ active_job' = FALSE
    /\ auto_update_running' = (auto_update_running /\ threads[i].kind # "auto")
    /\ threads' = [threads EXCEPT ![i] = IdleThread]
    /\ UNCHANGED <<catalog, operations, install_authorization, next_authorization,
                   auto_update, client>>
    /\ StateOnly

-----------------------------------------------------------------------------
(* The surroundings.                                                       *)

\* The user removes an application through appd.
Uninstall(a) ==
    /\ installed[a] # 0
    /\ installed' = [installed EXCEPT ![a] = 0]
    /\ UNCHANGED <<catalog, disk, operations, install_authorization, next_authorization,
                   active_job, auto_update, auto_update_running, part, shown, client, threads>>

\* The service stops and new_with_probes starts it again: files and the saved
\* automatic update state survive, authorizations are numbered from 1 again,
\* and the clients do not notice.
Restart ==
    /\ catalog' = disk
    /\ operations' = [a \in Apps |-> NoOperation]
    /\ install_authorization' = NoPreflight
    /\ next_authorization' = 1
    /\ active_job' = FALSE
    /\ auto_update_running' = FALSE
    /\ shown' = [c \in Clients |-> [shown[c] EXCEPT !.old = (shown[c] # NoPreflight)]]
    /\ client' = IdleClient
    /\ threads' = [i \in Slots |-> IdleThread]
    /\ UNCHANGED <<disk, auto_update, part, installed>>

Request ==
    \/ \E c \in Clients, S \in SUBSET Apps : Preflight(c, S)
    \/ \E c \in Clients, fresh \in BOOLEAN : Install(c, fresh)
    \/ \E a \in Apps : Resume(a) \/ Pause(a) \/ Cancel(a)
    \/ Refresh \/ CacheMedia
    \/ \E enabled \in BOOLEAN : SetAutoUpdate(enabled)

\* The connection thread finishes the request it is serving.
Serve ==
    \/ \E ok \in BOOLEAN : PreflightFinish(ok) \/ CancelCleanup(ok)
    \/ \E ok, spawned \in BOOLEAN : Validate(ok, spawned)
    \/ CacheMediaDone

Work(i) ==
    \/ \E s \in CatalogSequences : Fetch(i, s)
    \/ \E outcome \in {"ok", "failed", "unsynced"} : CommitCatalogCache(i, outcome)
    \/ PublishCatalog(i) \/ SelectCandidates(i) \/ InsertCandidates(i) \/ GiveUp(i)
    \/ OpenPackage(i)
    \/ \E content \in {"prefix", "full", "bad"} : Transfer(i, content)
    \/ \E ok \in BOOLEAN : VerifyPackage(i, ok) \/ StagePackage(i, ok) \/ DiscardPackage(i, ok)
    \/ BeginInstallHandoff(i)
    \/ \E answer \in {"installed", "lost", "refused"} : InstallPackage(i, answer)
    \/ DownloadFails(i) \/ FinishInstallOperation(i) \/ ReleaseJob(i)

\* The scheduler, the user at appd, and the end of the service.
Surroundings ==
    \/ \E spawned \in BOOLEAN : StartAutoUpdateCheck(spawned)
    \/ CheckDue
    \/ \E a \in Apps : Uninstall(a)
    \/ Restart

Next == Request \/ Serve \/ Surroundings \/ \E i \in Slots : Work(i)

\* Every wait of a worker and of the connection thread has a time limit
\* (DOWNLOAD_TIMEOUT, APPD_TIMEOUT, CLIENT_TIMEOUT), so both always go on.
Spec == Init /\ [][Next]_vars /\ WF_vars(Serve) /\ \A i \in Slots : WF_vars(Work(i))

-----------------------------------------------------------------------------
(* Properties.                                                             *)

States == {"none", "queued", "downloading", "paused", "installing", "installed",
           "canceled", "failed"}

Batches == UNION {[S -> Releases] : S \in SUBSET Apps}

Preflights == [id : 0 .. MaxAuthorizations, sequence : {0} \cup CatalogSequences,
               apps : Batches, old : BOOLEAN]

\* Types.
TypeOK ==
    /\ {catalog, disk} \subseteq {0} \cup CatalogSequences
    /\ operations \in [Apps -> [state : States, release : {0} \cup Releases,
                                control : {"continue", "pause", "cancel"}, automatic : BOOLEAN]]
    /\ install_authorization \in Preflights
    /\ next_authorization \in 1 .. MaxAuthorizations + 1
    /\ {active_job, auto_update_running} \subseteq BOOLEAN
    /\ auto_update \in [enabled : BOOLEAN, due : BOOLEAN]
    /\ part \in [Apps -> [Releases -> {"none", "prefix", "full", "bad"}]]
    /\ installed \in [Apps -> {0} \cup Releases]
    /\ shown \in [Clients -> Preflights]
    /\ client.step \in {"idle", "preflight", "validate", "cleanup", "media"}
    /\ client.apps \in Batches
    /\ \A i \in Slots : threads[i].step \in
          {"idle", "fetch", "commit", "publish", "select", "insert", "open", "transfer",
           "verify", "handoff", "stage", "install", "discard", "finish", "release"}

Workers == {i \in Slots : threads[i] # IdleThread}
ClientHoldsJob == client.step \in {"validate", "cleanup", "media"}

\* "Only one Store download/install job may run at a time": the reservation is
\* taken exactly while one worker, or the connection thread in one of its own
\* jobs, is at work, whoever started it and however it ended.
OneJob ==
    /\ active_job <=> (Workers # {} \/ ClientHoldsJob)
    /\ Cardinality(Workers) + (IF ClientHoldsJob THEN 1 ELSE 0) <= 1

\* Every operation that is shown as queued, downloading or installing is still
\* in the queue of a worker: none is left behind that nobody works on, which
\* the preflight would refuse for ever.
NoOrphanOperation ==
    \A a \in Apps :
        operations[a].state \in {"queued", "downloading", "installing"} =>
            \E i \in Slots : \E k \in DOMAIN threads[i].queue :
                /\ threads[i].queue[k].app = a
                /\ threads[i].queue[k].release = operations[a].release

\* A paused operation is of the release the current Catalog lists, so that
\* Resume continues what the user started and is never refused as changed.
PausedCanResume ==
    \A a \in Apps :
        operations[a].state = "paused" =>
            catalog # 0 /\ Listings[catalog][a] = operations[a].release

\* "immediately before appd handoff": whatever is being handed to appd is the
\* complete, verified package of an operation in state installing that nobody
\* has paused or canceled.
HandoffIsSound ==
    \A i \in Slots :
        At(i, "install") =>
            /\ Package(i) = "full"
            /\ operations[Job(i).app] =
                   Operation("installing", Job(i).release, "continue", Job(i).automatic)

\* The table of operations agrees with the one job that is at work, up to the
\* package that is handed over.
OperationsSound ==
    TypeOK /\ OneJob /\ NoOrphanOperation /\ PausedCanResume /\ HandoffIsSound

StopAsked(o) == o.state \in {"queued", "downloading"} /\ o.control # "continue"

\* A pause or cancel that was accepted for a transfer is kept until the
\* transfer ends, a cancel is not weakened to a pause, and the transfer ends
\* paused, canceled or failed, never installed.
StopIsHonoured ==
    \A a \in Apps :
        StopAsked(operations[a]) =>
            \/ /\ StopAsked(operations'[a])
               /\ operations[a].control = "cancel" => operations'[a].control = "cancel"
            \/ operations'[a].state \in {"none", "paused", "canceled", "failed"}

\* An accepted installation is of exactly the releases that the preflight of
\* the client who confirms it has shown, unless the service restarted between
\* the two (authorization identifiers start again with it).
InstallsWhatWasShown ==
    \A c \in Clients :
        /\ client.step = "idle" /\ client'.step = "validate" /\ client'.by = {c}
        /\ ~shown[c].old
        => client'.apps = shown[c].apps

\* What the user asked for and was shown is what happens: no accepted pause or
\* cancel is lost, and nothing is installed but what a preflight has shown.
RequestsHonoured == [][StopIsHonoured /\ InstallsWhatWasShown]_vars

\* The Catalog in use never goes back to a lower sequence, over refreshes that
\* fail half way and over restarts.
CatalogNeverGoesBack == [][catalog' >= catalog]_vars

\* Every accepted operation comes to rest.
OperationsSettle ==
    \A a \in Apps :
        operations[a].state \in {"queued", "downloading", "installing"} ~>
            operations[a].state \in {"none", "paused", "installed", "canceled", "failed"}

\* "It does not add unattended application installation": an application that
\* is not installed is only ever installed by an operation a user confirmed.
NoUnattendedInstall ==
    [][\A a \in Apps :
          installed[a] = 0 /\ installed'[a] # 0 =>
              \E i \in Slots : At(i, "install") /\ Job(i).app = a /\ ~Job(i).automatic]_vars

=============================================================================
