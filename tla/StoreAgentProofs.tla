-------------------------- MODULE StoreAgentProofs --------------------------
(***************************************************************************)
(* Proofs about cp0-stored: for any Catalogs, clients, worker slots and    *)
(* batches, the table of operations agrees with the one job at work        *)
(* (OperationsSound), requests are honoured (RequestsHonoured) and the     *)
(* Catalog in use never goes back (CatalogNeverGoesBack).                  *)
(***************************************************************************)
EXTENDS StoreAgent, FiniteSetTheorems, WellFoundedInduction, TLAPS

-----------------------------------------------------------------------------
(* The inductive invariant.                                                *)

Jobs == [app : Apps, release : Releases, automatic : BOOLEAN]

\* The steps of a worker whose queue has been published as operations.
InstallSteps == {"open", "transfer", "verify", "handoff", "stage", "install", "discard", "finish"}

Steps == InstallSteps \cup
         {"idle", "fetch", "commit", "publish", "select", "insert", "release"}

ThreadStates ==
    [kind : {"none", "refresh", "install", "auto"}, step : Steps, queue : Seq(Jobs),
     sequence : {0} \cup CatalogSequences,
     outcome : {"none", "paused", "installed", "canceled", "failed"}]

ClientStates ==
    [step : {"idle", "preflight", "validate", "cleanup", "media"}, apps : Batches,
     sequence : {0} \cup CatalogSequences, automatic : BOOLEAN, by : SUBSET Clients]

OperationStates ==
    [state : States, release : {0} \cup Releases,
     control : {"continue", "pause", "cancel"}, automatic : BOOLEAN]

\* The types, with those of the local variables of the threads.
Types ==
    /\ catalog \in {0} \cup CatalogSequences
    /\ disk \in {0} \cup CatalogSequences
    /\ operations \in [Apps -> OperationStates]
    /\ install_authorization \in Preflights
    /\ next_authorization \in 1 .. MaxAuthorizations + 1
    /\ active_job \in BOOLEAN /\ auto_update_running \in BOOLEAN
    /\ auto_update \in [enabled : BOOLEAN, due : BOOLEAN]
    /\ part \in [Apps -> [Releases -> {"none", "prefix", "full", "bad"}]]
    /\ installed \in [Apps -> {0} \cup Releases]
    /\ shown \in [Clients -> Preflights]
    /\ client \in ClientStates
    /\ threads \in [Slots -> ThreadStates]

\* The reservation keeps everybody else away: two workers are one, none is
\* there while the connection thread has the job.
Exclusive ==
    /\ \A i, j \in Slots : threads[i] # IdleThread /\ threads[j] # IdleThread => i = j
    /\ ClientHoldsJob => \A i \in Slots : threads[i] = IdleThread
    /\ active_job <=> (ClientHoldsJob \/ \E i \in Slots : threads[i] # IdleThread)

\* Where a worker has a queue, what is in it, and how its Catalog compares
\* with the one in memory and the one on disk.
ThreadSound(i) ==
    LET t == threads[i]
    IN /\ t.step = "idle" => t = IdleThread
       /\ t.queue # <<>> <=> t.step \in InstallSteps \cup {"insert"}
       /\ \A j, k \in DOMAIN t.queue : t.queue[j].app = t.queue[k].app => j = k
       /\ \A k \in DOMAIN t.queue :
             catalog # 0 /\ Listings[catalog][t.queue[k].app] = t.queue[k].release
       /\ t.step \in {"commit", "publish", "select", "insert"} =>
             t.sequence \in CatalogSequences /\ t.sequence >= catalog
       /\ t.step = "publish" => disk = t.sequence
       /\ t.step \in {"select", "insert"} => catalog = t.sequence
       /\ t.step = "insert" => \A k \in DOMAIN t.queue : t.queue[k].automatic
       /\ t.step = "finish" => t.outcome # "none"

\* The operations of a worker's queue are those it was given, and the one at
\* its head is where the worker is; from the handoff on nobody can stop it.
JobsSound(i) ==
    LET t == threads[i]
    IN t.step \in InstallSteps =>
          /\ \A k \in DOMAIN t.queue :
                /\ operations[t.queue[k].app].release = t.queue[k].release
                /\ operations[t.queue[k].app].automatic = t.queue[k].automatic
          /\ \/ t.step \in {"stage", "install"}
             \/ t.step = "finish" /\ t.outcome = "installed"
             => /\ operations[Job(i).app].state = "installing"
                /\ operations[Job(i).app].control = "continue"
          /\ t.step \in {"handoff", "stage", "install"} => Package(i) = "full"

Busy(a) == operations[a].state \in {"queued", "downloading", "installing"}

\* An operation in progress is in a published queue.
BusyIsQueued ==
    \A a \in Apps : Busy(a) =>
        \E i \in Slots : /\ threads[i].step \in InstallSteps
                         /\ \E k \in DOMAIN threads[i].queue : threads[i].queue[k].app = a

OperationsHaveReleases == \A a \in Apps : operations[a].state # "none" => operations[a].release # 0

\* The connection thread between the two halves of a request.
ClientSound ==
    /\ client.step = "idle" => client = IdleClient
    /\ client.step \in {"preflight", "validate"} => DOMAIN client.apps # {}
    /\ client.step = "validate" => catalog_contains_exact_apps(client.apps)
    /\ client.step = "preflight" => next_authorization <= MaxAuthorizations

\* Authorizations of one run of the service are told apart by their numbers.
AuthorizationsSound ==
    /\ install_authorization # NoPreflight => DOMAIN install_authorization.apps # {}
    /\ install_authorization.id < next_authorization
    /\ \A c \in Clients : ~shown[c].old =>
          /\ shown[c].id < next_authorization
          /\ (/\ shown[c] # NoPreflight /\ install_authorization # NoPreflight
              /\ shown[c].id = install_authorization.id)
             => shown[c].apps = install_authorization.apps

IInv ==
    /\ Types
    /\ Exclusive
    /\ \A i \in Slots : ThreadSound(i)
    /\ \A i \in Slots : JobsSound(i)
    /\ BusyIsQueued
    /\ OperationsHaveReleases
    /\ PausedCanResume
    /\ ClientSound
    /\ AuthorizationsSound
    /\ disk >= catalog

-----------------------------------------------------------------------------
(* Facts about the constants and the types.                                *)

\* What the signed Catalogs list: Releases are the numbers other than 0.
LEMMA ListingTypes ==
    /\ CatalogSequences \subseteq Nat \ {0}
    /\ \A s \in CatalogSequences : \A a \in Apps :
          Listings[s][a] \in Nat /\ (Listings[s][a] # 0 => Listings[s][a] \in Releases)
    /\ Releases \subseteq Nat \ {0}
<1>1. DOMAIN Listings = 1 .. Len(Listings) /\ Len(Listings) \in Nat
  BY StoreAssumption
<1>2. \A s \in CatalogSequences : \A a \in Apps : Listings[s][a] \in Nat
  BY <1>1, StoreAssumption DEF CatalogSequences
<1>3. QED
  BY <1>1, <1>2 DEF CatalogSequences, Releases

\* The release of an application and the sequence of the Catalog are numbers,
\* zero when there is none.
LEMMA ReleaseTypes == {0} \cup Releases \subseteq Nat /\ {0} \cup CatalogSequences \subseteq Nat
BY ListingTypes

\* The batch of no request.
LEMMA EmptyBatch == <<>> \in Batches /\ DOMAIN <<>> = {}
<1>1. <<>> \in [{} -> Releases] /\ DOMAIN <<>> = {}
  OBVIOUS
<1>2. QED
  BY <1>1 DEF Batches

\* A function from applications to releases is a batch, and the other way round.
LEMMA BatchTypes ==
    /\ \A S \in SUBSET Apps : \A f \in [S -> Releases] : f \in Batches
    /\ \A f \in Batches : /\ DOMAIN f \subseteq Apps
                          /\ \A a \in DOMAIN f : f[a] \in Releases
                          /\ f = [a \in DOMAIN f |-> f[a]]
BY DEF Batches

\* The idle thread, the idle connection thread and no preflight have their types.
LEMMA IdleTypes ==
    /\ IdleThread \in ThreadStates
    /\ IdleClient \in ClientStates
    /\ NoPreflight \in Preflights
    /\ NoOperation \in OperationStates
<1>1. IdleThread \in ThreadStates
  <2>1. <<>> \in Seq(Jobs)
    OBVIOUS
  <2>2. QED
    BY <2>1 DEF IdleThread, ThreadStates, Steps
<1>2. IdleClient \in ClientStates
  BY EmptyBatch DEF IdleClient, ClientStates
<1>3. NoPreflight \in Preflights
  <2>1. 0 \in 0 .. MaxAuthorizations
    BY StoreAssumption
  <2>2. QED
    BY <2>1, EmptyBatch DEF NoPreflight, Preflights
<1>4. NoOperation \in OperationStates
  BY DEF NoOperation, OperationStates, States
<1>5. QED
  BY <1>1, <1>2, <1>3, <1>4

\* The types of the proof give those that the runs check.
LEMMA TypesGiveTypeOK == Types => TypeOK
<1>1. SUFFICES ASSUME Types PROVE TypeOK
  OBVIOUS
<1>2. /\ client.step \in {"idle", "preflight", "validate", "cleanup", "media"}
      /\ client.apps \in Batches
  BY <1>1 DEF Types, ClientStates
<1>3. \A i \in Slots : threads[i].step \in Steps
  BY <1>1 DEF Types, ThreadStates
<1>4. QED
  BY <1>1, <1>2, <1>3 DEF Types, TypeOK, OperationStates, Steps, InstallSteps

\* The initial state.
LEMMA InitInv == Init => IInv
<1>1. SUFFICES ASSUME Init PROVE IInv
  OBVIOUS
<1>2. Types
  <2>1. next_authorization \in 1 .. MaxAuthorizations + 1
    BY <1>1, StoreAssumption DEF Init
  <2>2. part \in [Apps -> [Releases -> {"none", "prefix", "full", "bad"}]]
    BY <1>1 DEF Init
  <2>3. /\ operations \in [Apps -> OperationStates] /\ shown \in [Clients -> Preflights]
        /\ threads \in [Slots -> ThreadStates]
    BY <1>1, IdleTypes DEF Init
  <2>4. QED
    BY Zenon, <1>1, <2>1, <2>2, <2>3, IdleTypes DEF Init, Types
<1>3. /\ \A i \in Slots : threads[i] = IdleThread
      /\ \A a \in Apps : operations[a] = NoOperation
      /\ \A c \in Clients : shown[c] = NoPreflight
  BY <1>1 DEF Init
<1>4. Exclusive
  BY <1>1, <1>3 DEF Exclusive, Init, IdleClient, ClientHoldsJob
<1>5. \A i \in Slots : ThreadSound(i) /\ JobsSound(i)
  BY <1>3 DEF ThreadSound, JobsSound, IdleThread, InstallSteps
<1>6. BusyIsQueued /\ OperationsHaveReleases /\ PausedCanResume
  BY <1>3 DEF BusyIsQueued, Busy, OperationsHaveReleases, PausedCanResume, NoOperation
<1>7. ClientSound
  BY <1>1 DEF Init, ClientSound, IdleClient
<1>8. AuthorizationsSound
  BY <1>1, <1>3 DEF Init, AuthorizationsSound, NoPreflight
<1>9. QED
  BY <1>1, <1>2, <1>4, <1>5, <1>6, <1>7, <1>8 DEF IInv, Init
-----------------------------------------------------------------------------
(* Frames.                                                                 *)

\* While the job is free, or the connection thread has it, no worker exists
\* and no operation is in progress.
LEMMA NobodyBusy ==
    ASSUME IInv, ~active_job \/ ClientHoldsJob
    PROVE  /\ \A i \in Slots : threads[i] = IdleThread
           /\ \A a \in Apps : ~Busy(a)
<1>1. \A i \in Slots : threads[i] = IdleThread
  BY DEF IInv, Exclusive
<1>2. \A a \in Apps : ~Busy(a)
  BY <1>1 DEF IInv, BusyIsQueued, IdleThread, InstallSteps
<1>3. QED
  BY <1>1, <1>2

\* A worker that is doing something is the only one, and has the job.
LEMMA Alone ==
    ASSUME IInv, NEW i \in Slots, threads[i].step # "idle"
    PROVE  /\ \A j \in Slots : j # i => threads[j] = IdleThread
           /\ ~ClientHoldsJob
           /\ active_job
BY DEF IInv, Exclusive, IdleThread

\* After a step that leaves no worker, nothing can be wrong with the workers.
LEMMA NoWorkers ==
    ASSUME \A i \in Slots : threads'[i] = IdleThread,
           \A a \in Apps : ~Busy(a)'
    PROVE  /\ \A i \in Slots : ThreadSound(i)'
           /\ \A i \in Slots : JobsSound(i)'
           /\ BusyIsQueued'
BY DEF ThreadSound, JobsSound, BusyIsQueued, IdleThread, InstallSteps

\* After a step that leaves one worker, only that one can be wrong.
LEMMA OneWorker ==
    ASSUME NEW i \in Slots,
           \A j \in Slots : j # i => threads'[j] = IdleThread,
           ThreadSound(i)', JobsSound(i)'
    PROVE  /\ \A j \in Slots : ThreadSound(j)'
           /\ \A j \in Slots : JobsSound(j)'
BY DEF ThreadSound, JobsSound, IdleThread, InstallSteps

\* The worker that stays has the job.
LEMMA WorkerHasJob ==
    ASSUME NEW i \in Slots, threads'[i] # IdleThread,
           \A j \in Slots : j # i => threads'[j] = IdleThread,
           ~ClientHoldsJob', active_job'
    PROVE  Exclusive'
BY DEF Exclusive

\* What the workers rest on is not changed.
LEMMA WorkKept ==
    ASSUME IInv, UNCHANGED <<threads, operations, catalog, disk, part>>
    PROVE  /\ \A i \in Slots : ThreadSound(i)'
           /\ \A i \in Slots : JobsSound(i)'
           /\ BusyIsQueued'
           /\ OperationsHaveReleases'
           /\ PausedCanResume'
           /\ disk' >= catalog'
<1>1. \A i \in Slots : ThreadSound(i)'
  BY Zenon DEF IInv, ThreadSound
<1>2. \A i \in Slots : JobsSound(i)'
  BY Zenon DEF IInv, JobsSound, Job, Package
<1>3. BusyIsQueued' /\ OperationsHaveReleases' /\ PausedCanResume' /\ disk' >= catalog'
  BY DEF IInv, BusyIsQueued, Busy, OperationsHaveReleases, PausedCanResume
<1>4. QED
  BY <1>1, <1>2, <1>3

\* Nothing happens to the authorizations.
LEMMA AuthorizationsKept ==
    ASSUME IInv, UNCHANGED <<install_authorization, next_authorization, shown>>
    PROVE  AuthorizationsSound'
BY DEF IInv, AuthorizationsSound

\* The connection thread is waiting for a request.
LEMMA ClientIdles == ASSUME client' = IdleClient PROVE ClientSound' /\ ~ClientHoldsJob'
BY DEF ClientSound, IdleClient, ClientHoldsJob

\* The connection thread is where it was, and not in an installation.
LEMMA ClientKept ==
    ASSUME IInv, UNCHANGED <<client, next_authorization>>,
           client.step # "validate" \/ UNCHANGED catalog
    PROVE  ClientSound'
BY DEF IInv, ClientSound, catalog_contains_exact_apps

\* Every step that changes none of it.
LEMMA StutterKeeps == IInv /\ UNCHANGED vars => IInv'
<1>1. SUFFICES ASSUME IInv, UNCHANGED vars PROVE IInv'
  OBVIOUS
<1>2. Types' /\ Exclusive'
  BY <1>1 DEF IInv, vars, Types, Exclusive, ClientHoldsJob
<1>3. QED
  BY <1>1, <1>2, WorkKept, AuthorizationsKept, ClientKept DEF IInv, vars
-----------------------------------------------------------------------------
(* Requests that leave the workers and the operations alone.               *)

\* The Catalog in memory lists releases.
LEMMA CatalogLists ==
    ASSUME IInv, catalog # 0
    PROVE  /\ catalog \in CatalogSequences
           /\ \A a \in Apps : Listings[catalog][a] # 0 => Listings[catalog][a] \in Releases
BY ListingTypes DEF IInv, Types

LEMMA PreflightKeeps ==
    ASSUME IInv, NEW c \in Clients, NEW S \in SUBSET Apps, Preflight(c, S)
    PROVE  IInv'
<1> DEFINE apps == [a \in S |-> Listings[catalog][a]]
<1>1. apps \in Batches /\ DOMAIN apps # {}
  <2>1. apps \in [S -> Releases] /\ DOMAIN apps = S
    BY CatalogLists DEF Preflight, collect_install_apps
  <2>2. QED
    BY <2>1, BatchTypes DEF Preflight
<1> HIDE DEF apps
<1>2. client' = [step |-> "preflight", apps |-> apps, sequence |-> catalog,
                 automatic |-> FALSE, by |-> {c}]
  BY Zenon DEF Preflight, IdleClient, apps
<1>3. client' \in ClientStates
  BY <1>1, <1>2 DEF IInv, Types, ClientStates
<1>4. Types'
  BY <1>3 DEF IInv, Types, Preflight, StateOnly
<1>5. Exclusive'
  BY Zenon, <1>2 DEF IInv, Exclusive, Preflight, ClientHoldsJob, IdleClient
<1>6. ClientSound'
  <2>1. client'.step = "preflight" /\ client'.apps = apps
    BY <1>2
  <2>2. next_authorization' <= MaxAuthorizations
    BY DEF Preflight
  <2>3. QED
    BY <1>1, <2>1, <2>2 DEF ClientSound
<1>7. QED
  BY <1>4, <1>5, <1>6, WorkKept, AuthorizationsKept DEF IInv, Preflight, StateOnly

LEMMA PreflightFinishKeeps ==
    ASSUME IInv, NEW ok \in BOOLEAN, PreflightFinish(ok)
    PROVE  IInv'
<1> DEFINE issued == [id |-> next_authorization, sequence |-> client.sequence,
                      apps |-> client.apps, old |-> FALSE]
           grant == /\ ok /\ ~active_job
                    /\ catalog = client.sequence
                    /\ catalog_contains_exact_apps(client.apps)
<1>1. /\ next_authorization \in Nat /\ next_authorization \in 0 .. MaxAuthorizations
      /\ next_authorization' \in 1 .. MaxAuthorizations + 1
      /\ next_authorization' >= next_authorization
      /\ grant => next_authorization' = next_authorization + 1
  <2>1. /\ next_authorization \in Nat /\ next_authorization >= 1
        /\ next_authorization <= MaxAuthorizations
    BY StoreAssumption DEF IInv, Types, ClientSound, PreflightFinish
  <2>2. QED
    BY <2>1, StoreAssumption DEF PreflightFinish
<1>2. issued \in Preflights
  BY <1>1 DEF IInv, Types, Preflights, ClientStates
<1>3. /\ issued.id = next_authorization /\ issued.apps = client.apps /\ ~issued.old
  OBVIOUS
<1>4. /\ install_authorization' = IF grant THEN issued ELSE install_authorization
      /\ shown' = [c \in Clients |-> IF grant /\ c \in client.by THEN issued ELSE shown[c]]
  BY DEF PreflightFinish
<1>5. DOMAIN client.apps # {}
  BY DEF IInv, ClientSound, PreflightFinish
<1>6. /\ install_authorization.id \in Nat
      /\ \A c \in Clients : shown[c].id \in Nat /\ shown[c] \in Preflights
  BY StoreAssumption DEF IInv, Types, Preflights
<1> HIDE DEF issued, grant
<1>7. Types'
  <2>1. install_authorization' \in Preflights /\ shown' \in [Clients -> Preflights]
    BY <1>2, <1>4 DEF IInv, Types
  <2>2. QED
    BY Zenon, <1>1, <2>1, IdleTypes DEF IInv, Types, PreflightFinish
<1>8. Exclusive'
  BY ClientIdles DEF IInv, Exclusive, PreflightFinish, ClientHoldsJob
<1>9. AuthorizationsSound'
  <2>1. CASE ~grant
    BY <2>1, <1>1, <1>4, <1>6 DEF IInv, AuthorizationsSound
  <2>2. CASE grant
    <3>1. install_authorization' = issued /\ next_authorization' = next_authorization + 1
      BY <2>2, <1>1, <1>4
    <3>2. ASSUME NEW c \in Clients, ~shown'[c].old
          PROVE  shown'[c] = issued \/ shown'[c].id < next_authorization
      BY <3>2, <1>4 DEF IInv, AuthorizationsSound
    <3>3. \A c \in Clients : shown'[c].id \in Nat
      BY <1>1, <1>3, <1>4, <1>6
    <3>4. QED
      BY <1>1, <1>3, <1>5, <3>1, <3>2, <3>3 DEF AuthorizationsSound
  <2>3. QED
    BY <2>1, <2>2
<1>10. QED
  BY <1>7, <1>8, <1>9, WorkKept, ClientIdles DEF IInv, PreflightFinish

LEMMA InstallKeeps ==
    ASSUME IInv, NEW c \in Clients, NEW fresh \in BOOLEAN, Install(c, fresh)
    PROVE  IInv'
<1> DEFINE accepted == /\ Authorized(c) /\ fresh
                       /\ catalog = install_authorization.sequence
                       /\ catalog_contains_exact_apps(install_authorization.apps)
           taken == [IdleClient EXCEPT !.step = "validate", !.by = {c},
                                       !.apps = install_authorization.apps]
<1>1. /\ install_authorization' = NoPreflight
      /\ active_job' = accepted
      /\ client' = IF accepted THEN taken ELSE IdleClient
      /\ shown' = [shown EXCEPT ![c] = NoPreflight]
  BY DEF Install
<1>2. /\ install_authorization.apps \in Batches
      /\ DOMAIN install_authorization.apps # {}
  BY DEF IInv, Types, Preflights, AuthorizationsSound, Install
<1>3. taken \in ClientStates /\ taken.step = "validate" /\ taken.apps = install_authorization.apps
  BY Zenon, <1>2, IdleTypes DEF ClientStates
<1>4. accepted \in BOOLEAN
  BY DEF Authorized, catalog_contains_exact_apps
<1>5. accepted => catalog_contains_exact_apps(install_authorization.apps)
  OBVIOUS
<1> HIDE DEF accepted, taken
<1>6. \A i \in Slots : threads[i] = IdleThread
  BY NobodyBusy DEF Install
<1>7. Types'
  BY <1>1, <1>3, <1>4, IdleTypes DEF IInv, Types, Install
<1>8. Exclusive'
  <2>1. active_job' <=> ClientHoldsJob'
    BY <1>1, <1>3, <1>4 DEF ClientHoldsJob, IdleClient
  <2>2. QED
    BY <1>1, <1>6, <2>1 DEF Exclusive, Install
<1>9. ClientSound'
  <2>1. CASE accepted
    BY <2>1, <1>1, <1>2, <1>3, <1>5 DEF ClientSound, Install, catalog_contains_exact_apps
  <2>2. CASE ~accepted
    BY <2>2, <1>1, ClientIdles
  <2>3. QED
    BY <2>1, <2>2
<1>10. AuthorizationsSound'
  <2>1. next_authorization \in Nat /\ next_authorization >= 1
    BY StoreAssumption DEF IInv, Types
  <2>2. \A d \in Clients : shown'[d] = NoPreflight \/ shown'[d] = shown[d]
    BY <1>1 DEF IInv, Types
  <2>3. QED
    BY <1>1, <2>1, <2>2 DEF IInv, AuthorizationsSound, Install, NoPreflight
<1>11. QED
  BY <1>7, <1>8, <1>9, <1>10, WorkKept DEF IInv, Install

\* Resume, the cancellation of a paused or failed operation and the media
\* cache take the job while nobody works.
LEMMA ClientTakesJob ==
    ASSUME IInv, ~active_job, active_job', UNCHANGED threads, ClientHoldsJob'
    PROVE  Exclusive'
BY NobodyBusy DEF Exclusive

LEMMA ResumeKeeps ==
    ASSUME IInv, NEW a \in Apps, Resume(a)
    PROVE  IInv'
<1> DEFINE apps == [b \in {a} |-> operations[a].release]
<1>1. /\ operations[a] \in OperationStates
      /\ operations[a].release \in Releases
      /\ operations[a].automatic \in BOOLEAN
  BY DEF IInv, Types, OperationStates, OperationsHaveReleases, Resume
<1>2. apps \in Batches /\ DOMAIN apps = {a} /\ apps[a] = operations[a].release
  <2>1. apps \in [{a} -> Releases]
    BY <1>1
  <2>2. QED
    BY <2>1, BatchTypes
<1>3. client' = [IdleClient EXCEPT !.step = "validate", !.automatic = operations[a].automatic,
                                   !.apps = apps]
  BY DEF Resume
<1> HIDE DEF apps
<1>4. client' \in ClientStates /\ client'.step = "validate" /\ client'.apps = apps
  BY Zenon, <1>1, <1>2, <1>3, IdleTypes DEF ClientStates
<1>5. Types'
  BY <1>4 DEF IInv, Types, Resume, StateOnly
<1>6. Exclusive'
  BY <1>4, ClientTakesJob DEF Resume, ClientHoldsJob
<1>7. ClientSound'
  BY <1>2, <1>4 DEF ClientSound, Resume, catalog_contains_exact_apps
<1>8. QED
  BY <1>5, <1>6, <1>7, WorkKept, AuthorizationsKept DEF IInv, Resume, StateOnly

LEMMA CacheMediaKeeps == ASSUME IInv, CacheMedia PROVE IInv'
<1>1. client' \in ClientStates /\ client'.step = "media"
  BY IdleTypes DEF CacheMedia, ClientStates
<1>2. Types'
  BY <1>1 DEF IInv, Types, CacheMedia, StateOnly
<1>3. Exclusive'
  BY <1>1, ClientTakesJob DEF CacheMedia, ClientHoldsJob
<1>4. ClientSound'
  BY <1>1 DEF ClientSound
<1>5. QED
  BY <1>2, <1>3, <1>4, WorkKept, AuthorizationsKept DEF IInv, CacheMedia, StateOnly

LEMMA CacheMediaDoneKeeps == ASSUME IInv, CacheMediaDone PROVE IInv'
<1>1. Types'
  BY Zenon, IdleTypes DEF IInv, Types, CacheMediaDone, StateOnly
<1>2. Exclusive'
  BY NobodyBusy, ClientIdles DEF CacheMediaDone, Exclusive, ClientHoldsJob
<1>3. QED
  BY <1>1, <1>2, ClientIdles, WorkKept, AuthorizationsKept
     DEF IInv, CacheMediaDone, StateOnly

LEMMA CheckDueKeeps == ASSUME IInv, CheckDue PROVE IInv'
<1>1. Types'
  BY Zenon DEF IInv, Types, CheckDue, StateOnly
<1>2. Exclusive'
  BY DEF IInv, Exclusive, CheckDue, ClientHoldsJob
<1>3. QED
  BY <1>1, <1>2, ClientKept, WorkKept, AuthorizationsKept DEF IInv, CheckDue, StateOnly

LEMMA UninstallKeeps == ASSUME IInv, NEW a \in Apps, Uninstall(a) PROVE IInv'
<1>1. Types'
  BY DEF IInv, Types, Uninstall
<1>2. Exclusive'
  BY DEF IInv, Exclusive, Uninstall, ClientHoldsJob
<1>3. QED
  BY <1>1, <1>2, ClientKept, WorkKept, AuthorizationsKept DEF IInv, Uninstall

\* A restart forgets everything but the files.
LEMMA RestartKeeps == ASSUME IInv, Restart PROVE IInv'
<1>1. /\ \A i \in Slots : threads'[i] = IdleThread
      /\ \A a \in Apps : operations'[a] = NoOperation
  BY DEF Restart
<1>2. \A c \in Clients : /\ shown'[c] \in Preflights
                         /\ ~shown'[c].old => shown'[c].id = 0
  <2>1. SUFFICES ASSUME NEW c \in Clients
                 PROVE  /\ shown'[c] \in Preflights
                        /\ ~shown'[c].old => shown'[c].id = 0
    OBVIOUS
  <2> DEFINE pending == (shown[c] # NoPreflight)
  <2>2. shown[c] \in Preflights
    BY DEF IInv, Types
  <2>3. shown'[c] = [shown[c] EXCEPT !.old = pending] /\ pending \in BOOLEAN
    BY DEF Restart
  <2>4. ~pending => shown[c].id = 0
    BY DEF NoPreflight
  <2> HIDE DEF pending
  <2>5. shown'[c] \in Preflights /\ shown'[c].old = pending /\ shown'[c].id = shown[c].id
    BY <2>2, <2>3 DEF Preflights
  <2>6. QED
    BY <2>4, <2>5
<1>3. Types'
  <2>1. next_authorization' \in 1 .. MaxAuthorizations + 1
    BY StoreAssumption DEF Restart
  <2>2. shown' \in [Clients -> Preflights]
    BY <1>2 DEF Restart
  <2>3. /\ operations' \in [Apps -> OperationStates]
        /\ threads' \in [Slots -> ThreadStates]
    BY IdleTypes DEF Restart
  <2>4. QED
    BY Zenon, <2>1, <2>2, <2>3, IdleTypes DEF IInv, Types, Restart
<1>4. Exclusive'
  BY <1>1, ClientIdles DEF Restart, Exclusive
<1>5. /\ \A i \in Slots : ThreadSound(i)'
      /\ \A i \in Slots : JobsSound(i)'
      /\ BusyIsQueued'
  BY <1>1, NoWorkers DEF Busy, NoOperation
<1>6. OperationsHaveReleases' /\ PausedCanResume'
  BY <1>1 DEF OperationsHaveReleases, PausedCanResume, NoOperation
<1>7. AuthorizationsSound'
  <2>1. \A c \in Clients : ~shown'[c].old => shown'[c].id < next_authorization'
    BY <1>2 DEF Restart
  <2>2. QED
    BY <2>1 DEF Restart, AuthorizationsSound, NoPreflight
<1>8. disk' >= catalog'
  BY ListingTypes DEF IInv, Types, Restart
<1>9. QED
  BY <1>3, <1>4, <1>5, <1>6, <1>7, <1>8, ClientIdles DEF IInv, Restart

-----------------------------------------------------------------------------
(* Pause and Cancel.                                                       *)

\* The head of a worker's queue is one of its jobs.
LEMMA HeadJob ==
    ASSUME IInv, NEW i \in Slots, threads[i].step \in InstallSteps
    PROVE  /\ threads[i] \in ThreadStates /\ threads[i].queue \in Seq(Jobs)
           /\ threads[i].queue # <<>>
           /\ Len(threads[i].queue) \in Nat \ {0}
           /\ DOMAIN threads[i].queue = 1 .. Len(threads[i].queue)
           /\ \A k \in DOMAIN threads[i].queue :
                 threads[i].queue[k] \in Jobs /\ threads[i].queue[k].app \in Apps
           /\ 1 \in DOMAIN threads[i].queue
           /\ Job(i) = threads[i].queue[1] /\ Job(i) \in Jobs
           /\ Job(i).app \in Apps /\ Job(i).release \in Releases
<1>1. threads[i] \in ThreadStates /\ threads[i].queue \in Seq(Jobs) /\ threads[i].queue # <<>>
  BY DEF IInv, Types, ThreadStates, ThreadSound
<1>2. /\ Len(threads[i].queue) \in Nat \ {0}
      /\ DOMAIN threads[i].queue = 1 .. Len(threads[i].queue)
      /\ Head(threads[i].queue) = threads[i].queue[1]
  BY <1>1
<1>3. 1 \in DOMAIN threads[i].queue /\ \A k \in DOMAIN threads[i].queue : threads[i].queue[k] \in Jobs
  BY <1>1, <1>2
<1>4. QED
  BY <1>1, <1>2, <1>3 DEF Job, Jobs

\* What the user wants of an operation that is not being installed is noted.
LEMMA ControlKeeps ==
    ASSUME IInv, NEW a \in Apps, NEW wish \in {"pause", "cancel"},
           operations[a].state # "installing",
           operations' = [operations EXCEPT ![a].control = wish],
           UNCHANGED <<threads, catalog, disk, part>>
    PROVE  /\ operations' \in [Apps -> OperationStates]
           /\ \A i \in Slots : ThreadSound(i)'
           /\ \A i \in Slots : JobsSound(i)'
           /\ BusyIsQueued'
           /\ OperationsHaveReleases'
           /\ PausedCanResume'
           /\ disk' >= catalog'
<1>1. /\ operations' \in [Apps -> OperationStates]
      /\ \A b \in Apps : /\ operations'[b].state = operations[b].state
                         /\ operations'[b].release = operations[b].release
                         /\ operations'[b].automatic = operations[b].automatic
                         /\ b # a => operations'[b] = operations[b]
  BY DEF IInv, Types, OperationStates
<1>2. \A i \in Slots : ThreadSound(i)'
  BY DEF IInv, ThreadSound
<1>3. ASSUME NEW i \in Slots, threads[i].step \in InstallSteps
      PROVE  JobsSound(i)'
  <2>1. \A k \in DOMAIN threads[i].queue : threads[i].queue[k].app \in Apps
    BY <1>3, HeadJob
  <2>2. JobsSound(i)
    BY DEF IInv
  <2>3. Job(i).app \in Apps /\ Job(i)' = Job(i) /\ Package(i)' = Package(i)
    BY <1>3, HeadJob DEF Job, Package
  <2>4. QED
    BY <1>1, <1>3, <2>1, <2>2, <2>3 DEF JobsSound
<1>4. \A i \in Slots : JobsSound(i)'
  BY <1>3 DEF JobsSound
<1>5. BusyIsQueued' /\ OperationsHaveReleases' /\ PausedCanResume' /\ disk' >= catalog'
  BY <1>1 DEF IInv, BusyIsQueued, Busy, OperationsHaveReleases, PausedCanResume
<1>6. QED
  BY <1>1, <1>2, <1>4, <1>5

LEMMA PauseKeeps == ASSUME IInv, NEW a \in Apps, Pause(a) PROVE IInv'
<1>1. /\ operations[a].state # "installing"
      /\ operations' = [operations EXCEPT ![a].control = "pause"]
      /\ UNCHANGED <<threads, catalog, disk, part>>
  BY DEF Pause, Transferring, StateOnly
<1>2. Types'
  BY Zenon, <1>1, ControlKeeps DEF IInv, Types, Pause, StateOnly
<1>3. Exclusive'
  BY DEF IInv, Exclusive, Pause, ClientHoldsJob
<1>4. QED
  BY Zenon, <1>1, <1>2, <1>3, ControlKeeps, ClientKept, AuthorizationsKept
     DEF IInv, Pause, StateOnly

LEMMA CancelKeeps == ASSUME IInv, NEW a \in Apps, Cancel(a) PROVE IInv'
<1>1. /\ operations[a].state # "installing"
      /\ operations' = [operations EXCEPT ![a].control = "cancel"]
      /\ UNCHANGED <<threads, catalog, disk, part, install_authorization, next_authorization,
                     shown, auto_update, auto_update_running, installed>>
      /\ client = IdleClient
  BY DEF Cancel, Transferring, StateOnly
<1>2. /\ client' \in ClientStates /\ active_job' \in BOOLEAN
      /\ Exclusive' /\ ClientSound'
  <2>1. CASE UNCHANGED <<active_job, client>>
    <3>1. Exclusive'
      BY <2>1, <1>1 DEF IInv, Exclusive, ClientHoldsJob
    <3>2. QED
      BY <2>1, <3>1, <1>1, ClientIdles, IdleTypes DEF IInv, Types
  <2>2. CASE /\ operations[a].state \in {"paused", "failed"} /\ ~active_job
             /\ active_job' = TRUE
             /\ client' = [IdleClient EXCEPT !.step = "cleanup",
                                             !.apps = [b \in {a} |-> operations[a].release]]
    <3> DEFINE apps == [b \in {a} |-> operations[a].release]
    <3>1. operations[a].release \in Releases
      BY <2>2 DEF IInv, Types, OperationStates, OperationsHaveReleases
    <3>2. apps \in Batches
      BY <3>1, BatchTypes
    <3>3. client' = [IdleClient EXCEPT !.step = "cleanup", !.apps = apps]
      BY <2>2
    <3> HIDE DEF apps
    <3>4. client' \in ClientStates /\ client'.step = "cleanup"
      BY Zenon, <3>2, <3>3, IdleTypes DEF ClientStates
    <3>5. Exclusive'
      BY <2>2, <3>4, <1>1, ClientTakesJob DEF ClientHoldsJob
    <3>6. QED
      BY <2>2, <3>4, <3>5 DEF ClientSound
  <2>3. QED
    BY Zenon, <2>1, <2>2 DEF Cancel
<1>3. Types'
  BY Zenon, <1>1, <1>2, ControlKeeps DEF IInv, Types
<1>4. QED
  BY Zenon, <1>1, <1>2, <1>3, ControlKeeps, AuthorizationsKept DEF IInv

LEMMA CancelCleanupKeeps ==
    ASSUME IInv, NEW ok \in BOOLEAN, CancelCleanup(ok)
    PROVE  IInv'
<1>1. PICK a \in DOMAIN client.apps :
          /\ part' = [part EXCEPT ![a][client.apps[a]] = IF ok THEN "none" ELSE @]
          /\ operations' = [operations EXCEPT ![a] =
                 IF @.release = client.apps[a]
                 THEN Operation(IF ok THEN "canceled" ELSE "failed", @.release, "continue",
                                @.automatic)
                 ELSE @]
  BY Zenon DEF CancelCleanup
<1>2. a \in Apps /\ client.apps[a] \in Releases
  BY BatchTypes DEF IInv, Types, ClientStates
<1>3. /\ \A i \in Slots : threads[i] = IdleThread
      /\ \A b \in Apps : ~Busy(b)
  BY NobodyBusy DEF CancelCleanup, ClientHoldsJob
<1>4. part' \in [Apps -> [Releases -> {"none", "prefix", "full", "bad"}]]
  BY <1>1, <1>2 DEF IInv, Types
<1>5. /\ operations' \in [Apps -> OperationStates]
      /\ \A b \in Apps :
            \/ operations'[b] = operations[b]
            \/ /\ operations'[b].state \in {"canceled", "failed"}
               /\ operations'[b].release # 0
  <2> DEFINE o == Operation(IF ok THEN "canceled" ELSE "failed", operations[a].release,
                            "continue", operations[a].automatic)
  <2>1. o \in OperationStates /\ o.state \in {"canceled", "failed"}
        /\ o.release = operations[a].release
    BY <1>2 DEF IInv, Types, OperationStates, Operation, States
  <2>2. client.apps[a] # 0
    BY <1>2, ListingTypes
  <2>3. operations' = [operations EXCEPT ![a] =
                           IF operations[a].release = client.apps[a] THEN o ELSE operations[a]]
    BY <1>1, <1>2 DEF IInv, Types
  <2> HIDE DEF o
  <2>4. QED
    BY <1>2, <2>1, <2>2, <2>3 DEF IInv, Types
<1>6. Types'
  BY Zenon, <1>4, <1>5, IdleTypes DEF IInv, Types, CancelCleanup
<1>7. Exclusive'
  BY <1>3, ClientIdles DEF Exclusive, CancelCleanup
<1>8. /\ \A i \in Slots : ThreadSound(i)'
      /\ \A i \in Slots : JobsSound(i)'
      /\ BusyIsQueued'
  <2>1. \A i \in Slots : threads'[i] = IdleThread
    BY <1>3 DEF CancelCleanup
  <2>2. \A b \in Apps : ~Busy(b)'
    BY <1>3, <1>5 DEF Busy
  <2>3. QED
    BY <2>1, <2>2, NoWorkers
<1>9. OperationsHaveReleases' /\ PausedCanResume'
  BY <1>5 DEF IInv, OperationsHaveReleases, PausedCanResume, CancelCleanup
<1>10. QED
  BY <1>6, <1>7, <1>8, <1>9, ClientIdles, AuthorizationsKept DEF IInv, CancelCleanup

-----------------------------------------------------------------------------
(* Workers begin.                                                          *)

\* The queue of a batch: every application of it, once, with its release.
LEMMA QueueSound ==
    ASSUME NEW apps \in Batches, NEW automatic \in BOOLEAN, NEW queue \in Queues(apps, automatic)
    PROVE  /\ queue \in Seq(Jobs)
           /\ DOMAIN apps # {} => queue # <<>>
           /\ \A k \in DOMAIN queue : /\ queue[k].app \in DOMAIN apps
                                      /\ queue[k].release = apps[queue[k].app]
                                      /\ queue[k].automatic = automatic
           /\ \A j, k \in DOMAIN queue : queue[j].app = queue[k].app => j = k
           /\ \A a \in DOMAIN apps : \E k \in DOMAIN queue : queue[k].app = a
<1> DEFINE n == Cardinality(DOMAIN apps)
           jobs == {[app |-> a, release |-> apps[a], automatic |-> automatic] : a \in DOMAIN apps}
<1>1. /\ queue \in [1 .. n -> jobs]
      /\ \A a \in DOMAIN apps : \E k \in DOMAIN queue : queue[k].app = a
      /\ \A j, k \in DOMAIN queue : j < k => queue[j].app < queue[k].app
  BY DEF Queues
<1>2. /\ DOMAIN apps \subseteq Apps
      /\ \A a \in DOMAIN apps : apps[a] \in Releases
  BY BatchTypes
<1>3. n \in Nat
  <2>1. IsFiniteSet(Apps)
    BY StoreAssumption, FS_Interval DEF Apps
  <2>2. IsFiniteSet(DOMAIN apps)
    BY <1>2, <2>1, FS_Subset
  <2>3. QED
    BY Zenon, <2>2, FS_CardinalityType
<1>4. \A job \in jobs : /\ job.app \in DOMAIN apps /\ job.release = apps[job.app]
                        /\ job.automatic = automatic /\ job \in Jobs /\ job.app \in Int
  BY <1>2, StoreAssumption DEF Jobs, Apps
<1> HIDE DEF n, jobs
<1>5. DOMAIN queue = 1 .. n /\ \A k \in DOMAIN queue : queue[k] \in jobs
  BY <1>1
<1>6. queue \in Seq(Jobs)
  BY <1>1, <1>3, <1>4
<1>7. DOMAIN apps # {} => queue # <<>>
  <2>1. DOMAIN apps # {} => DOMAIN queue # {}
    BY <1>1
  <2>2. QED
    BY <2>1, EmptyBatch
<1>8. ASSUME NEW j \in DOMAIN queue, NEW k \in DOMAIN queue, queue[j].app = queue[k].app
      PROVE  j = k
  <2>1. j \in Nat /\ k \in Nat /\ queue[j].app \in Int
    BY <1>3, <1>4, <1>5
  <2>2. ~(j < k) /\ ~(k < j)
    BY <1>1, <1>8, <2>1
  <2>3. QED
    BY <2>1, <2>2
<1>9. QED
  BY <1>1, <1>4, <1>5, <1>6, <1>7, <1>8

\* A spawned worker is the only one when there was none.
LEMMA Spawned ==
    ASSUME IInv, NEW thread \in ThreadStates, Spawn(thread),
           \A i \in Slots : threads[i] = IdleThread
    PROVE  /\ threads' \in [Slots -> ThreadStates]
           /\ \E i \in Slots : /\ threads'[i] = thread
                               /\ \A j \in Slots : j # i => threads'[j] = IdleThread
<1> DEFINE i == CHOOSE i \in Free : TRUE
<1>1. i \in Slots
  BY DEF Spawn, Free
<1>2. threads' = [threads EXCEPT ![i] = thread]
  BY DEF Spawn
<1> HIDE DEF i
<1>3. threads \in [Slots -> ThreadStates]
  BY DEF IInv, Types
<1>4. QED
  BY <1>1, <1>2, <1>3

\* A worker that begins with the download of the Catalog.
LEMMA FetcherBegins ==
    ASSUME IInv, NEW kind \in {"refresh", "auto"}, ~active_job, active_job',
           Spawn([IdleThread EXCEPT !.kind = kind, !.step = "fetch"]),
           UNCHANGED <<operations, client>>
    PROVE  /\ threads' \in [Slots -> ThreadStates]
           /\ Exclusive'
           /\ \A i \in Slots : ThreadSound(i)'
           /\ \A i \in Slots : JobsSound(i)'
           /\ BusyIsQueued'
<1> DEFINE thread == [IdleThread EXCEPT !.kind = kind, !.step = "fetch"]
<1>1. thread \in ThreadStates /\ thread.step = "fetch" /\ thread.queue = <<>>
  <2>1. IdleThread \in ThreadStates /\ IdleThread.queue = <<>>
    BY IdleTypes DEF IdleThread
  <2>2. QED
    BY Zenon, <2>1 DEF ThreadStates, Steps
<1>2. /\ \A i \in Slots : threads[i] = IdleThread
      /\ \A a \in Apps : ~Busy(a)
  BY NobodyBusy
<1>3. Spawn(thread)
  OBVIOUS
<1> HIDE DEF thread
<1>4. PICK i \in Slots : /\ threads'[i] = thread
                         /\ \A j \in Slots : j # i => threads'[j] = IdleThread
  BY <1>1, <1>2, <1>3, Spawned
<1>5. threads' \in [Slots -> ThreadStates]
  BY <1>1, <1>2, <1>3, Spawned
<1>6. Exclusive'
  <2>1. ~ClientHoldsJob'
    BY DEF IInv, Exclusive, ClientHoldsJob
  <2>2. threads'[i] # IdleThread
    BY <1>1, <1>4 DEF IdleThread
  <2>3. QED
    BY <1>4, <2>1, <2>2, WorkerHasJob
<1>7. ThreadSound(i)' /\ JobsSound(i)'
  BY <1>1, <1>4 DEF ThreadSound, JobsSound, InstallSteps
<1>8. BusyIsQueued'
  BY <1>2 DEF BusyIsQueued, Busy
<1>9. QED
  BY <1>4, <1>5, <1>6, <1>7, <1>8, OneWorker

LEMMA RefreshKeeps == ASSUME IInv, Refresh PROVE IInv'
<1>1. /\ threads' \in [Slots -> ThreadStates]
      /\ Exclusive'
      /\ \A i \in Slots : ThreadSound(i)'
      /\ \A i \in Slots : JobsSound(i)'
      /\ BusyIsQueued'
  BY FetcherBegins DEF Refresh
<1>2. Types'
  BY <1>1 DEF IInv, Types, Refresh, StateOnly
<1>3. OperationsHaveReleases' /\ PausedCanResume' /\ disk' >= catalog'
  BY DEF IInv, OperationsHaveReleases, PausedCanResume, Refresh, StateOnly
<1>4. QED
  BY <1>1, <1>2, <1>3, ClientKept, AuthorizationsKept DEF IInv, Refresh, StateOnly

\* The automatic check begins, or its worker could not be spawned.
LEMMA AutoCheckKeeps ==
    ASSUME IInv, NEW enabled \in BOOLEAN, NEW spawned \in BOOLEAN, AutoCheck(enabled, spawned),
           UNCHANGED <<catalog, operations, install_authorization, next_authorization, client>>,
           StateOnly
    PROVE  IInv'
<1>1. auto_update' \in [enabled : BOOLEAN, due : BOOLEAN]
  BY DEF AutoCheck
<1>2. CASE spawned
  <2>1. /\ threads' \in [Slots -> ThreadStates]
        /\ Exclusive'
        /\ \A i \in Slots : ThreadSound(i)'
        /\ \A i \in Slots : JobsSound(i)'
        /\ BusyIsQueued'
    BY <1>2, FetcherBegins DEF AutoCheck
  <2>2. Types'
    BY <1>1, <1>2, <2>1 DEF IInv, Types, AutoCheck, StateOnly
  <2>3. OperationsHaveReleases' /\ PausedCanResume' /\ disk' >= catalog'
    BY DEF IInv, OperationsHaveReleases, PausedCanResume, StateOnly
  <2>4. QED
    BY <2>1, <2>2, <2>3, ClientKept, AuthorizationsKept DEF IInv, StateOnly
<1>3. CASE ~spawned
  <2>1. UNCHANGED <<active_job, auto_update_running, threads>>
    BY <1>3 DEF AutoCheck
  <2>2. Types'
    BY <1>1, <2>1 DEF IInv, Types, StateOnly
  <2>3. Exclusive'
    BY <2>1 DEF IInv, Exclusive, ClientHoldsJob
  <2>4. QED
    BY <2>1, <2>2, <2>3, ClientKept, WorkKept, AuthorizationsKept DEF IInv, StateOnly
<1>4. QED
  BY <1>2, <1>3

LEMMA StartAutoUpdateCheckKeeps ==
    ASSUME IInv, NEW spawned \in BOOLEAN, StartAutoUpdateCheck(spawned)
    PROVE  IInv'
<1>1. auto_update.enabled \in BOOLEAN
  BY DEF IInv, Types
<1>2. QED
  BY <1>1, AutoCheckKeeps DEF StartAutoUpdateCheck

LEMMA SetAutoUpdateKeeps ==
    ASSUME IInv, NEW enabled \in BOOLEAN, SetAutoUpdate(enabled)
    PROVE  IInv'
<1>1. CASE /\ auto_update' = [auto_update EXCEPT !.enabled = enabled]
           /\ UNCHANGED <<active_job, auto_update_running, threads>>
  <2>1. Types'
    BY <1>1 DEF IInv, Types, SetAutoUpdate, StateOnly
  <2>2. Exclusive'
    BY <1>1 DEF IInv, Exclusive, SetAutoUpdate, ClientHoldsJob
  <2>3. QED
    BY <1>1, <2>1, <2>2, ClientKept, WorkKept, AuthorizationsKept
       DEF IInv, SetAutoUpdate, StateOnly
<1>2. CASE \E spawned \in BOOLEAN : AutoCheck(enabled, spawned)
  BY <1>2, AutoCheckKeeps DEF SetAutoUpdate
<1>3. QED
  BY <1>1, <1>2 DEF SetAutoUpdate

LEMMA OperationFields ==
    ASSUME NEW state, NEW release, NEW control, NEW automatic
    PROVE  /\ Operation(state, release, control, automatic).state = state
           /\ Operation(state, release, control, automatic).release = release
           /\ Operation(state, release, control, automatic).control = control
           /\ Operation(state, release, control, automatic).automatic = automatic
BY DEF Operation

\* The operations of a batch are all replaced by new ones in one state.
LEMMA BatchOperations ==
    ASSUME IInv, NEW apps \in Batches, NEW automatic \in BOOLEAN,
           NEW state \in {"queued", "failed"},
           operations' = [a \in Apps |-> IF a \in DOMAIN apps
                                         THEN Operation(state, apps[a], "continue", automatic)
                                         ELSE operations[a]]
    PROVE  /\ operations' \in [Apps -> OperationStates]
           /\ \A a \in DOMAIN apps : /\ operations'[a].state = state
                                     /\ operations'[a].release = apps[a]
                                     /\ operations'[a].automatic = automatic
           /\ \A a \in Apps : a \notin DOMAIN apps => operations'[a] = operations[a]
           /\ OperationsHaveReleases'
           /\ UNCHANGED catalog => PausedCanResume'
<1>1. /\ DOMAIN apps \subseteq Apps
      /\ \A a \in DOMAIN apps : apps[a] \in Releases /\ apps[a] # 0
  BY BatchTypes, ListingTypes
<1>2. \A a \in DOMAIN apps :
         /\ Operation(state, apps[a], "continue", automatic) \in OperationStates
         /\ operations'[a] = Operation(state, apps[a], "continue", automatic)
  BY <1>1 DEF Operation, OperationStates, States
<1>3. \A a \in Apps : a \notin DOMAIN apps => operations'[a] = operations[a]
  OBVIOUS
<1>4. operations' \in [Apps -> OperationStates]
  BY Zenon, <1>2 DEF IInv, Types
<1>5. \A a \in DOMAIN apps : /\ operations'[a].state = state
                             /\ operations'[a].release = apps[a]
                             /\ operations'[a].automatic = automatic
  BY <1>2, OperationFields
<1>6. OperationsHaveReleases' /\ (UNCHANGED catalog => PausedCanResume')
  BY <1>1, <1>3, <1>5 DEF IInv, OperationsHaveReleases, PausedCanResume
<1>7. QED
  BY <1>3, <1>4, <1>5, <1>6

\* A published queue is sound when its operations have just been inserted.
LEMMA PublishedQueue ==
    ASSUME IInv, NEW i \in Slots, NEW apps \in Batches, NEW automatic \in BOOLEAN,
           \A a \in Apps : ~Busy(a),
           operations' = InsertQueued(apps, automatic),
           threads'[i].step = "open",
           \A k \in DOMAIN threads'[i].queue :
              /\ threads'[i].queue[k].app \in DOMAIN apps
              /\ threads'[i].queue[k].release = apps[threads'[i].queue[k].app]
              /\ threads'[i].queue[k].automatic = automatic,
           \A a \in DOMAIN apps : \E k \in DOMAIN threads'[i].queue : threads'[i].queue[k].app = a
    PROVE  JobsSound(i)' /\ BusyIsQueued'
<1>1. /\ \A a \in DOMAIN apps : /\ operations'[a].release = apps[a]
                                /\ operations'[a].automatic = automatic
      /\ \A a \in Apps : a \notin DOMAIN apps => operations'[a] = operations[a]
  BY BatchOperations DEF InsertQueued
<1>2. JobsSound(i)'
  BY Zenon, <1>1 DEF JobsSound
<1>3. BusyIsQueued'
  <2>1. \A a \in Apps : Busy(a)' => a \in DOMAIN apps
    BY <1>1 DEF Busy
  <2>2. QED
    BY <2>1 DEF BusyIsQueued, InstallSteps
<1>4. QED
  BY <1>2, <1>3

LEMMA ValidateKeeps ==
    ASSUME IInv, NEW ok \in BOOLEAN, NEW spawned \in BOOLEAN, Validate(ok, spawned)
    PROVE  IInv'
<1>1. /\ client' = IdleClient /\ client.step = "validate"
      /\ UNCHANGED <<catalog, install_authorization, next_authorization, auto_update,
                     auto_update_running, disk, part, installed, shown>>
  BY Zenon DEF Validate, StateOnly
<1>2. /\ \A i \in Slots : threads[i] = IdleThread
      /\ \A a \in Apps : ~Busy(a)
      /\ active_job
  BY <1>1, NobodyBusy DEF IInv, Exclusive, ClientHoldsJob
<1>3. /\ client.apps \in Batches /\ client.automatic \in BOOLEAN
      /\ DOMAIN client.apps # {}
      /\ catalog # 0 /\ \A a \in DOMAIN client.apps : Listings[catalog][a] = client.apps[a]
  BY <1>1 DEF IInv, Types, ClientStates, ClientSound, catalog_contains_exact_apps
<1>4. CASE /\ active_job' = FALSE
           /\ UNCHANGED <<operations, threads>>
  <2>1. Types'
    BY Zenon, <1>1, <1>4, IdleTypes DEF IInv, Types
  <2>2. Exclusive'
    BY <1>1, <1>2, <1>4, ClientIdles DEF Exclusive
  <2>3. QED
    BY <1>1, <1>4, <2>1, <2>2, ClientIdles, WorkKept, AuthorizationsKept DEF IInv
<1>5. CASE /\ operations' = SpawnFailed(client.apps, client.automatic)
           /\ active_job' = FALSE
           /\ UNCHANGED threads
  <2>1. /\ operations' \in [Apps -> OperationStates]
        /\ \A a \in DOMAIN client.apps : operations'[a].state = "failed"
        /\ \A a \in Apps : a \notin DOMAIN client.apps => operations'[a] = operations[a]
        /\ OperationsHaveReleases'
        /\ PausedCanResume'
    BY <1>1, <1>3, <1>5, BatchOperations DEF SpawnFailed
  <2>2. Types'
    BY Zenon, <1>1, <1>5, <2>1, IdleTypes DEF IInv, Types
  <2>3. Exclusive'
    BY <1>1, <1>2, <1>5, ClientIdles DEF Exclusive
  <2>4. \A a \in Apps : ~Busy(a)'
    BY <1>2, <2>1 DEF Busy
  <2>5. /\ \A i \in Slots : ThreadSound(i)'
        /\ \A i \in Slots : JobsSound(i)'
        /\ BusyIsQueued'
    BY <1>2, <1>5, <2>4, NoWorkers
  <2>6. QED
    BY Zenon, <1>1, <2>1, <2>2, <2>3, <2>5, ClientIdles, AuthorizationsKept DEF IInv
<1>6. ASSUME operations' = InsertQueued(client.apps, client.automatic),
             NEW queue \in Queues(client.apps, client.automatic),
             Spawn([IdleThread EXCEPT !.kind = "install", !.step = "open", !.queue = queue]),
             UNCHANGED active_job
      PROVE  IInv'
  <2> DEFINE thread == [IdleThread EXCEPT !.kind = "install", !.step = "open", !.queue = queue]
  <2>1. /\ queue \in Seq(Jobs) /\ queue # <<>>
        /\ \A k \in DOMAIN queue : /\ queue[k].app \in DOMAIN client.apps
                                   /\ queue[k].release = client.apps[queue[k].app]
                                   /\ queue[k].automatic = client.automatic
        /\ \A j, k \in DOMAIN queue : queue[j].app = queue[k].app => j = k
        /\ \A a \in DOMAIN client.apps : \E k \in DOMAIN queue : queue[k].app = a
    BY <1>3, QueueSound
  <2>2. thread \in ThreadStates /\ thread.step = "open" /\ thread.queue = queue
    BY Zenon, <2>1, IdleTypes DEF ThreadStates, Steps, InstallSteps
  <2>3. Spawn(thread)
    BY <1>6
  <2> HIDE DEF thread
  <2>4. threads' \in [Slots -> ThreadStates]
    BY <1>2, <2>2, <2>3, Spawned
  <2>5. PICK i \in Slots : /\ threads'[i] = thread
                           /\ \A j \in Slots : j # i => threads'[j] = IdleThread
    BY <1>2, <2>2, <2>3, Spawned
  <2>6. /\ operations' \in [Apps -> OperationStates]
        /\ OperationsHaveReleases' /\ PausedCanResume'
    BY <1>1, <1>3, <1>6, BatchOperations DEF InsertQueued
  <2>7. Types'
    BY <1>1, <1>6, <2>4, <2>6, IdleTypes DEF IInv, Types
  <2>8. Exclusive'
    <3>1. threads'[i] # IdleThread
      BY <2>2, <2>5 DEF IdleThread
    <3>2. QED
      BY Zenon, <1>1, <1>2, <1>6, <2>5, <3>1, ClientIdles, WorkerHasJob
  <2>9. ThreadSound(i)'
    BY <1>1, <1>3, <2>1, <2>2, <2>5 DEF ThreadSound, InstallSteps
  <2>10. JobsSound(i)' /\ BusyIsQueued'
    <3>1. threads'[i].step = "open" /\ threads'[i].queue = queue
      BY <2>2, <2>5
    <3>2. /\ \A k \in DOMAIN threads'[i].queue :
                /\ threads'[i].queue[k].app \in DOMAIN client.apps
                /\ threads'[i].queue[k].release = client.apps[threads'[i].queue[k].app]
                /\ threads'[i].queue[k].automatic = client.automatic
          /\ \A a \in DOMAIN client.apps :
                \E k \in DOMAIN threads'[i].queue : threads'[i].queue[k].app = a
      BY Zenon, <2>1, <3>1
    <3>3. QED
      BY <1>2, <1>3, <1>6, <3>1, <3>2, PublishedQueue
  <2>11. QED
    BY Zenon, <1>1, <2>5, <2>6, <2>7, <2>8, <2>9, <2>10, OneWorker, ClientIdles, AuthorizationsKept
       DEF IInv
<1>7. QED
  BY Zenon, <1>4, <1>5, <1>6 DEF Validate

-----------------------------------------------------------------------------
(* The Catalog refresh.                                                    *)

\* The parts of the invariant that a step of the one worker cannot disturb,
\* as long as the worker itself stays sound.
LEMMA WorkerMoves ==
    ASSUME IInv, NEW i \in Slots, threads[i].step # "idle",
           \A j \in Slots : j # i => threads'[j] = threads[j],
           threads'[i].step # "idle",
           UNCHANGED <<client, active_job, next_authorization, install_authorization, shown>>,
           ThreadSound(i)', JobsSound(i)'
    PROVE  /\ Exclusive'
           /\ \A j \in Slots : ThreadSound(j)'
           /\ \A j \in Slots : JobsSound(j)'
           /\ ClientSound'
           /\ AuthorizationsSound'
<1>1. /\ \A j \in Slots : j # i => threads[j] = IdleThread
      /\ ~ClientHoldsJob
      /\ active_job
  BY Zenon, Alone
<1>2. threads'[i] # IdleThread /\ ~ClientHoldsJob'
  BY <1>1 DEF IdleThread, ClientHoldsJob
<1>3. Exclusive'
  BY <1>1, <1>2, WorkerHasJob
<1>4. client.step # "validate"
  BY <1>1 DEF ClientHoldsJob
<1>5. QED
  BY Zenon, <1>1, <1>3, <1>4, OneWorker, ClientKept, AuthorizationsKept

\* Before its queue is published, no operation is in progress.
LEMMA NotInstalling ==
    ASSUME IInv, NEW i \in Slots, threads[i].step # "idle", threads[i].step \notin InstallSteps
    PROVE  \A a \in Apps : ~Busy(a)
BY Alone DEF IInv, BusyIsQueued, IdleThread, InstallSteps

LEMMA FetchKeeps ==
    ASSUME IInv, NEW i \in Slots, NEW s \in CatalogSequences, Fetch(i, s)
    PROVE  IInv'
<1>1. /\ threads[i] \in ThreadStates /\ threads[i].step = "fetch" /\ threads[i].queue = <<>>
      /\ \A a \in Apps : ~Busy(a)
  <2>1. threads[i].step = "fetch"
    BY Zenon DEF Fetch, At
  <2>2. threads[i] \in ThreadStates /\ threads[i].queue = <<>>
    BY Zenon, <2>1 DEF IInv, Types, ThreadSound, InstallSteps
  <2>3. QED
    BY <2>1, <2>2, NotInstalling DEF InstallSteps
<1>2. /\ threads' \in [Slots -> ThreadStates]
      /\ \A j \in Slots : j # i => threads'[j] = threads[j]
      /\ threads'[i].step = IF s >= catalog THEN "commit" ELSE "release"
      /\ threads'[i].sequence = s /\ threads'[i].queue = <<>>
  BY Zenon, <1>1 DEF IInv, Types, Fetch, AcceptsSequence, ThreadStates, Steps
<1>3. UNCHANGED <<catalog, operations, install_authorization, next_authorization, active_job,
                  auto_update, auto_update_running, installed, shown, client, disk, part>>
  BY DEF Fetch, WorkOnly
<1>4. Types'
  BY Zenon, <1>2, <1>3 DEF IInv, Types
<1>5. ThreadSound(i)' /\ JobsSound(i)'
  BY Zenon, <1>2, <1>3, EmptyBatch DEF ThreadSound, JobsSound, InstallSteps
<1>6. BusyIsQueued' /\ OperationsHaveReleases' /\ PausedCanResume' /\ disk' >= catalog'
  BY Zenon, <1>1, <1>3 DEF IInv, BusyIsQueued, Busy, OperationsHaveReleases, PausedCanResume
<1>7. QED
  BY <1>1, <1>2, <1>3, <1>4, <1>5, <1>6, WorkerMoves DEF IInv

LEMMA CommitCatalogCacheKeeps ==
    ASSUME IInv, NEW i \in Slots, NEW outcome \in {"ok", "failed", "unsynced"},
           CommitCatalogCache(i, outcome)
    PROVE  IInv'
<1>1. /\ threads[i] \in ThreadStates /\ threads[i].step = "commit" /\ threads[i].queue = <<>>
      /\ threads[i].sequence \in CatalogSequences /\ threads[i].sequence >= catalog
      /\ \A a \in Apps : ~Busy(a)
  <2>1. threads[i].step = "commit"
    BY Zenon DEF CommitCatalogCache, At
  <2>2. /\ threads[i] \in ThreadStates /\ threads[i].queue = <<>>
        /\ threads[i].sequence \in CatalogSequences /\ threads[i].sequence >= catalog
    BY Zenon, <2>1 DEF IInv, Types, ThreadSound, InstallSteps
  <2>3. QED
    BY Zenon, <2>1, <2>2, NotInstalling DEF InstallSteps
<1>2. /\ threads' \in [Slots -> ThreadStates]
      /\ \A j \in Slots : j # i => threads'[j] = threads[j]
      /\ threads'[i].step = IF outcome = "ok" THEN "publish" ELSE "release"
      /\ threads'[i].sequence = threads[i].sequence /\ threads'[i].queue = <<>>
  BY Zenon, <1>1 DEF IInv, Types, CommitCatalogCache, Goto, ThreadStates, Steps
<1>3. /\ UNCHANGED <<catalog, operations, install_authorization, next_authorization, active_job,
                     auto_update, auto_update_running, installed, shown, client, part>>
      /\ disk' = IF outcome = "failed" THEN disk ELSE threads[i].sequence
  BY DEF CommitCatalogCache, WorkOnly
<1>4. Types'
  BY Zenon, <1>1, <1>2, <1>3 DEF IInv, Types
<1>5. ThreadSound(i)' /\ JobsSound(i)'
  <2>1. JobsSound(i)'
    BY Zenon, <1>2 DEF JobsSound, InstallSteps
  <2>2. ThreadSound(i)'
    BY Zenon, <1>1, <1>2, <1>3, EmptyBatch DEF ThreadSound, InstallSteps
  <2>3. QED
    BY Zenon, <2>1, <2>2
<1>6. BusyIsQueued' /\ OperationsHaveReleases' /\ PausedCanResume' /\ disk' >= catalog'
  <2>1. OperationsHaveReleases' /\ PausedCanResume'
    BY Zenon, <1>3 DEF IInv, OperationsHaveReleases, PausedCanResume
  <2>2. BusyIsQueued'
    BY Zenon, <1>1, <1>3 DEF BusyIsQueued, Busy
  <2>3. disk' >= catalog'
    BY Zenon, <1>1, <1>3 DEF IInv
  <2>4. QED
    BY Zenon, <2>1, <2>2, <2>3
<1>7. QED
  BY Zenon, <1>1, <1>2, <1>3, <1>4, <1>5, <1>6, WorkerMoves DEF IInv

\* What the reconciliation with a new Catalog leaves of the operations, when
\* none of them is in progress.
LEMMA Retained ==
    ASSUME IInv, NEW s \in CatalogSequences, \A a \in Apps : ~Busy(a),
           operations' = Retain(s), catalog' = s
    PROVE  /\ operations' \in [Apps -> OperationStates]
           /\ \A a \in Apps : ~Busy(a)'
           /\ OperationsHaveReleases'
           /\ PausedCanResume'
<1>1. ASSUME NEW a \in Apps
      PROVE  /\ operations'[a] \in OperationStates
             /\ ~Busy(a)'
             /\ operations'[a].state # "none" => operations'[a].release # 0
             /\ operations'[a].state = "paused" =>
                   s # 0 /\ Listings[s][a] = operations'[a].release
  <2> DEFINE o == operations[a]
             failed == Operation("failed", o.release, "continue", o.automatic)
  <2>1. o \in OperationStates /\ ~Busy(a) /\ (o.state # "none" => o.release # 0)
    BY DEF IInv, Types, OperationsHaveReleases
  <2>2. \/ operations'[a] = NoOperation
        \/ operations'[a] = failed /\ o.state \in {"paused", "failed"}
        \/ operations'[a] = o /\ (o.state = "paused" => Listings[s][a] = o.release)
    BY DEF Retain
  <2>3. failed \in OperationStates /\ failed.state = "failed" /\ failed.release = o.release
    BY <2>1 DEF Operation, OperationStates, States
  <2>4. s # 0
    BY ListingTypes
  <2>5. NoOperation \in OperationStates /\ NoOperation.state = "none"
    BY IdleTypes DEF NoOperation
  <2> HIDE DEF failed, o
  <2>6. operations'[a] = o => ~Busy(a)'
    BY <2>1 DEF Busy, o
  <2>7. QED
    BY <2>1, <2>2, <2>3, <2>4, <2>5, <2>6 DEF Busy
<1>2. operations' \in [Apps -> OperationStates]
  BY Zenon, <1>1 DEF Retain
<1>3. QED
  BY <1>1, <1>2 DEF OperationsHaveReleases, PausedCanResume

LEMMA PublishCatalogKeeps ==
    ASSUME IInv, NEW i \in Slots, PublishCatalog(i)
    PROVE  IInv'
<1>1. /\ threads[i] \in ThreadStates /\ threads[i].step = "publish" /\ threads[i].queue = <<>>
      /\ threads[i].sequence \in CatalogSequences /\ threads[i].sequence \in Nat
      /\ disk = threads[i].sequence
      /\ \A a \in Apps : ~Busy(a)
  <2>1. threads[i].step = "publish"
    BY Zenon DEF PublishCatalog, At
  <2>2. /\ threads[i] \in ThreadStates /\ threads[i].queue = <<>>
        /\ threads[i].sequence \in CatalogSequences /\ disk = threads[i].sequence
    BY Zenon, <2>1 DEF IInv, Types, ThreadSound, InstallSteps
  <2>3. QED
    BY Zenon, <2>1, <2>2, NotInstalling, ListingTypes DEF InstallSteps
<1>2. /\ threads' \in [Slots -> ThreadStates]
      /\ \A j \in Slots : j # i => threads'[j] = threads[j]
      /\ threads'[i].step \in {"select", "release"}
      /\ threads'[i].sequence = threads[i].sequence /\ threads'[i].queue = <<>>
  BY Zenon, <1>1 DEF IInv, Types, PublishCatalog, Goto, ThreadStates, Steps
<1>3. /\ UNCHANGED <<install_authorization, next_authorization, active_job, auto_update,
                     auto_update_running, installed, shown, client, part, disk>>
      /\ catalog' = threads[i].sequence
      /\ operations' = Retain(threads[i].sequence)
  BY DEF PublishCatalog, StateOnly
<1>4. /\ operations' \in [Apps -> OperationStates]
      /\ \A a \in Apps : ~Busy(a)'
      /\ OperationsHaveReleases' /\ PausedCanResume'
  BY <1>1, <1>3, Retained
<1>5. Types'
  BY Zenon, <1>1, <1>2, <1>3, <1>4 DEF IInv, Types
<1>6. ThreadSound(i)' /\ JobsSound(i)'
  <2>1. JobsSound(i)'
    BY Zenon, <1>2 DEF JobsSound, InstallSteps
  <2>2. threads'[i].sequence \in CatalogSequences /\ threads'[i].sequence >= catalog'
    BY <1>1, <1>2, <1>3
  <2>3. ThreadSound(i)'
    BY Zenon, <1>1, <1>2, <1>3, <2>2, EmptyBatch DEF ThreadSound, InstallSteps
  <2>4. QED
    BY Zenon, <2>1, <2>3
<1>7. BusyIsQueued' /\ disk' >= catalog'
  <2>1. BusyIsQueued'
    BY Zenon, <1>4 DEF BusyIsQueued
  <2>2. disk' = threads[i].sequence /\ catalog' = threads[i].sequence
    BY Zenon, <1>1, <1>3
  <2>3. disk' >= catalog'
    BY <1>1, <2>2
  <2>4. QED
    BY Zenon, <2>1, <2>3
<1>8. QED
  BY Zenon, <1>1, <1>2, <1>3, <1>4, <1>5, <1>6, <1>7, WorkerMoves DEF IInv

-----------------------------------------------------------------------------
(* The automatic check after its refresh.                                  *)

\* Among some candidates there is a first one: the batch is not empty.
LEMMA FirstCandidate ==
    ASSUME Candidates # {}
    PROVE  {a \in Candidates : Cardinality({b \in Candidates : b < a}) < MaxBatch} # {}
<1>1. Candidates \in SUBSET Nat
  BY StoreAssumption DEF Candidates, Apps
<1>2. PICK a \in Candidates : \A b \in Candidates : ~(<<b, a>> \in OpToRel(<, Nat))
  BY <1>1, NatLessThanWellFounded, WFMin, Zenon
<1>3. \A b \in Candidates : ~(b < a)
  BY Zenon, <1>1, <1>2 DEF OpToRel
<1>4. {b \in Candidates : b < a} = {}
  BY <1>3
<1>5. Cardinality({b \in Candidates : b < a}) = 0
  BY Zenon, <1>4, FS_EmptySet
<1>6. 0 < MaxBatch
  BY StoreAssumption
<1>7. QED
  BY <1>5, <1>6

LEMMA SelectCandidatesKeeps ==
    ASSUME IInv, NEW i \in Slots, SelectCandidates(i)
    PROVE  IInv'
<1> DEFINE first == {a \in Candidates : Cardinality({b \in Candidates : b < a}) < MaxBatch}
           apps == [a \in first |-> Listings[catalog][a]]
<1>1. /\ threads[i] \in ThreadStates /\ threads[i].step = "select" /\ threads[i].queue = <<>>
      /\ threads[i].sequence \in CatalogSequences /\ threads[i].sequence >= catalog
      /\ catalog = threads[i].sequence /\ catalog # 0
      /\ \A a \in Apps : ~Busy(a)
  <2>1. threads[i].step = "select"
    BY DEF SelectCandidates, At
  <2>2. /\ threads[i] \in ThreadStates /\ threads[i].queue = <<>>
        /\ threads[i].sequence \in CatalogSequences /\ threads[i].sequence >= catalog
        /\ catalog = threads[i].sequence
    BY Zenon, <2>1 DEF IInv, Types, ThreadSound, InstallSteps
  <2>3. QED
    BY <2>1, <2>2, NotInstalling, ListingTypes DEF InstallSteps
<1>2. UNCHANGED <<catalog, operations, install_authorization, next_authorization, active_job,
                  auto_update, auto_update_running, installed, shown, client, disk, part>>
  BY DEF SelectCandidates, WorkOnly
<1>3. BusyIsQueued' /\ OperationsHaveReleases' /\ PausedCanResume' /\ disk' >= catalog'
  BY <1>1, <1>2 DEF IInv, BusyIsQueued, Busy, OperationsHaveReleases, PausedCanResume
<1>4. CASE Goto(i, "release")
  <2>1. /\ threads' \in [Slots -> ThreadStates]
        /\ \A j \in Slots : j # i => threads'[j] = threads[j]
        /\ threads'[i].step = "release" /\ threads'[i].queue = <<>>
    BY Zenon, <1>1, <1>4 DEF IInv, Types, Goto, ThreadStates, Steps
  <2>2. Types'
    BY Zenon, <1>2, <2>1 DEF IInv, Types
  <2>3. ThreadSound(i)' /\ JobsSound(i)'
    BY Zenon, <2>1, EmptyBatch DEF ThreadSound, JobsSound, InstallSteps
  <2>4. QED
    BY Zenon, <1>1, <1>2, <1>3, <2>1, <2>2, <2>3, WorkerMoves DEF IInv
<1>5. ASSUME Candidates # {}, NEW queue \in Queues(apps, TRUE),
             threads' = [threads EXCEPT ![i].step = "insert", ![i].queue = queue]
      PROVE  IInv'
  <2>1. first \subseteq Apps /\ first # {}
    BY <1>5, FirstCandidate DEF Candidates
  <2>2. \A a \in first : Listings[catalog][a] \in Releases
    <3>1. ASSUME NEW a \in first PROVE Listings[catalog][a] \in Releases
      <4>1. a \in Apps /\ Listings[catalog][a] > installed[a]
        BY Zenon DEF Candidates
      <4>2. installed[a] \in {0} \cup Releases
        BY Zenon, <4>1 DEF IInv, Types
      <4>3. installed[a] \in Nat
        BY Zenon, <4>2, ReleaseTypes
      <4>4. Listings[catalog][a] \in Nat
        BY Zenon, <1>1, <4>1, ListingTypes
      <4>5. Listings[catalog][a] # 0
        BY <4>1, <4>3, <4>4
      <4>6. QED
        BY Zenon, <1>1, <4>1, <4>5, CatalogLists
    <3>2. QED
      BY Zenon, <3>1
  <2> HIDE DEF first
  <2>3. /\ apps \in Batches /\ DOMAIN apps = first
        /\ \A a \in first : apps[a] = Listings[catalog][a]
    BY <2>1, <2>2, BatchTypes
  <2> HIDE DEF apps
  <2>4. /\ queue \in Seq(Jobs) /\ queue # <<>>
        /\ \A k \in DOMAIN queue : /\ queue[k].app \in first
                                   /\ queue[k].release = Listings[catalog][queue[k].app]
                                   /\ queue[k].automatic = TRUE
        /\ \A j, k \in DOMAIN queue : queue[j].app = queue[k].app => j = k
    <3> DEFINE yes == TRUE
    <3>1. queue \in Queues(apps, yes) /\ yes \in BOOLEAN
      BY Zenon
    <3>2. yes = TRUE
      OBVIOUS
    <3> HIDE DEF yes
    <3>3. /\ queue \in Seq(Jobs)
          /\ DOMAIN apps # {} => queue # <<>>
          /\ \A k \in DOMAIN queue : /\ queue[k].app \in DOMAIN apps
                                     /\ queue[k].release = apps[queue[k].app]
                                     /\ queue[k].automatic = yes
          /\ \A j, k \in DOMAIN queue : queue[j].app = queue[k].app => j = k
      BY <2>3, <3>1, QueueSound
    <3>4. QED
      BY Zenon, <2>1, <2>3, <3>2, <3>3
  <2>5. /\ threads' \in [Slots -> ThreadStates]
        /\ \A j \in Slots : j # i => threads'[j] = threads[j]
        /\ threads'[i].step = "insert" /\ threads'[i].queue = queue
        /\ threads'[i].sequence = threads[i].sequence
    BY <1>1, <1>5, <2>4 DEF IInv, Types, ThreadStates, Steps
  <2>6. Types'
    BY Zenon, <1>2, <2>5 DEF IInv, Types
  <2>7. ThreadSound(i)'
    BY Zenon, <1>1, <1>2, <2>4, <2>5 DEF ThreadSound, InstallSteps
  <2>8. JobsSound(i)'
    BY Zenon, <2>5 DEF JobsSound, InstallSteps
  <2>9. QED
    BY Zenon, <1>1, <1>2, <1>3, <2>5, <2>6, <2>7, <2>8, WorkerMoves DEF IInv
<1>6. QED
  BY Zenon, <1>4, <1>5 DEF SelectCandidates

LEMMA InsertCandidatesKeeps ==
    ASSUME IInv, NEW i \in Slots, InsertCandidates(i)
    PROVE  IInv'
<1> DEFINE queue == threads[i].queue
           apps == [a \in {queue[k].app : k \in DOMAIN queue} |->
                        Listings[threads[i].sequence][a]]
<1>1. threads[i].step = "insert"
  BY Zenon DEF InsertCandidates, At
<1>2. /\ threads[i] \in ThreadStates /\ queue \in Seq(Jobs) /\ queue # <<>>
      /\ \A j, k \in DOMAIN queue : queue[j].app = queue[k].app => j = k
      /\ catalog # 0 /\ catalog = threads[i].sequence
      /\ \A k \in DOMAIN queue : /\ Listings[catalog][queue[k].app] = queue[k].release
                                 /\ queue[k].automatic
  BY Zenon, <1>1, ListingTypes DEF IInv, Types, ThreadStates, ThreadSound
<1>3. \A k \in DOMAIN queue : /\ queue[k] \in Jobs /\ queue[k].app \in Apps
                              /\ queue[k].release \in Releases
                              /\ queue[k].automatic = TRUE
  <2>1. \A k \in DOMAIN queue : queue[k] \in Jobs
    BY <1>2
  <2>2. QED
    BY Zenon, <1>2, <2>1 DEF Jobs
<1>4. \A a \in Apps : ~Busy(a)
  BY <1>1, NotInstalling DEF InstallSteps
<1>5. /\ UNCHANGED <<catalog, install_authorization, next_authorization, active_job,
                     auto_update, auto_update_running, client, disk, part, installed, shown>>
      /\ operations' = InsertQueued(apps, TRUE)
      /\ threads' = [threads EXCEPT ![i].step = "open"]
  BY DEF InsertCandidates, StateOnly, Goto
<1>6. /\ apps \in Batches
      /\ \A k \in DOMAIN queue : /\ queue[k].app \in DOMAIN apps
                                 /\ queue[k].release = apps[queue[k].app]
      /\ \A a \in DOMAIN apps : \E k \in DOMAIN queue : queue[k].app = a
  <2>1. /\ DOMAIN apps = {queue[k].app : k \in DOMAIN queue}
        /\ \A k \in DOMAIN queue : queue[k].release = apps[queue[k].app]
    BY Zenon, <1>2
  <2>2. apps \in [{queue[k].app : k \in DOMAIN queue} -> Releases]
    BY <1>2, <1>3
  <2>3. {queue[k].app : k \in DOMAIN queue} \in SUBSET Apps
    BY <1>3
  <2> HIDE DEF apps
  <2>4. QED
    BY Zenon, <2>1, <2>2, <2>3, BatchTypes
<1> HIDE DEF apps, queue
<1>7. /\ threads' \in [Slots -> ThreadStates]
      /\ \A j \in Slots : j # i => threads'[j] = threads[j]
      /\ threads'[i].step = "open" /\ threads'[i].queue = queue
  BY Zenon, <1>2, <1>5 DEF IInv, Types, ThreadStates, Steps, InstallSteps, queue
<1>8. /\ operations' \in [Apps -> OperationStates]
      /\ OperationsHaveReleases' /\ PausedCanResume'
  BY Zenon, <1>5, <1>6, BatchOperations DEF InsertQueued
<1>9. Types'
  BY Zenon, <1>5, <1>7, <1>8 DEF IInv, Types
<1>10. ThreadSound(i)'
  BY <1>2, <1>5, <1>7 DEF ThreadSound, InstallSteps
<1>11. JobsSound(i)' /\ BusyIsQueued'
  <2>1. /\ \A k \in DOMAIN threads'[i].queue :
              /\ threads'[i].queue[k].app \in DOMAIN apps
              /\ threads'[i].queue[k].release = apps[threads'[i].queue[k].app]
              /\ threads'[i].queue[k].automatic = TRUE
        /\ \A a \in DOMAIN apps : \E k \in DOMAIN threads'[i].queue : threads'[i].queue[k].app = a
    BY <1>3, <1>6, <1>7
  <2> DEFINE yes == TRUE
  <2>2. operations' = InsertQueued(apps, yes) /\ yes \in BOOLEAN /\ yes = TRUE
    BY <1>5, Zenon
  <2> HIDE DEF yes
  <2>3. QED
    BY Zenon, <1>4, <1>6, <1>7, <2>1, <2>2, PublishedQueue
<1>12. disk' >= catalog'
  BY <1>5 DEF IInv
<1>13. QED
  BY Zenon, <1>1, <1>5, <1>7, <1>8, <1>9, <1>10, <1>11, <1>12, WorkerMoves DEF IInv

LEMMA GiveUpKeeps ==
    ASSUME IInv, NEW i \in Slots, GiveUp(i)
    PROVE  IInv'
<1>1. /\ threads[i] \in ThreadStates /\ threads[i].step \in {"fetch", "select", "insert"}
      /\ \A a \in Apps : ~Busy(a)
  <2>1. threads[i].step \in {"fetch", "select", "insert"}
    BY DEF GiveUp
  <2>2. QED
    BY <2>1, NotInstalling DEF IInv, Types, InstallSteps
<1>2. /\ threads' \in [Slots -> ThreadStates]
      /\ \A j \in Slots : j # i => threads'[j] = threads[j]
      /\ threads'[i].step = "release" /\ threads'[i].queue = <<>>
  <2>1. <<>> \in Seq(Jobs)
    OBVIOUS
  <2>2. QED
    BY Zenon, <1>1, <2>1 DEF IInv, Types, GiveUp, ThreadStates, Steps
<1>3. UNCHANGED <<catalog, operations, install_authorization, next_authorization, active_job,
                  auto_update, auto_update_running, installed, shown, client, disk, part>>
  BY DEF GiveUp, WorkOnly
<1>4. Types'
  BY Zenon, <1>2, <1>3 DEF IInv, Types
<1>5. ThreadSound(i)' /\ JobsSound(i)'
  BY Zenon, <1>2, EmptyBatch DEF ThreadSound, JobsSound, InstallSteps
<1>6. BusyIsQueued' /\ OperationsHaveReleases' /\ PausedCanResume' /\ disk' >= catalog'
  BY Zenon, <1>1, <1>3 DEF IInv, BusyIsQueued, Busy, OperationsHaveReleases, PausedCanResume
<1>7. QED
  BY Zenon, <1>1, <1>2, <1>3, <1>4, <1>5, <1>6, WorkerMoves DEF IInv

-----------------------------------------------------------------------------
(* The installation of the application at the head of the queue.           *)

Outcomes == {"paused", "installed", "canceled", "failed"}

\* What every step of the installation has in common: the worker stays with
\* its queue, and only the operation at the head may enter another state.
Advances(i) ==
    /\ threads' \in [Slots -> ThreadStates]
    /\ \A j \in Slots : j # i => threads'[j] = threads[j]
    /\ threads'[i].step \in InstallSteps
    /\ threads'[i].queue = threads[i].queue
    /\ threads'[i].step = "finish" => threads'[i].outcome \in Outcomes
    /\ operations' \in [Apps -> OperationStates]
    /\ \A a \in Apps : a # Job(i).app => operations'[a] = operations[a]
    /\ operations'[Job(i).app].release = operations[Job(i).app].release
    /\ operations'[Job(i).app].automatic = operations[Job(i).app].automatic
    /\ operations'[Job(i).app].state \in {operations[Job(i).app].state, "downloading", "installing"}

\* Such a step keeps the invariant when it enters the handoff with a verified
\* package, and what comes after it with an operation nobody has stopped.
LEMMA JobAdvances ==
    ASSUME IInv, NEW i \in Slots, threads[i].step \in InstallSteps, Advances(i),
           \/ threads'[i].step \in {"stage", "install"}
           \/ threads'[i].step = "finish" /\ threads'[i].outcome = "installed"
           => /\ operations'[Job(i).app].state = "installing"
              /\ operations'[Job(i).app].control = "continue",
           threads'[i].step \in {"handoff", "stage", "install"} =>
              part'[Job(i).app][Job(i).release] = "full",
           part' \in [Apps -> [Releases -> {"none", "prefix", "full", "bad"}]],
           installed' \in [Apps -> {0} \cup Releases],
           UNCHANGED <<catalog, disk, install_authorization, next_authorization, active_job,
                       auto_update, auto_update_running, shown, client>>
    PROVE  IInv'
<1> DEFINE app == Job(i).app
<1>1. /\ threads[i].queue \in Seq(Jobs) /\ threads[i].queue # <<>>
      /\ \A k \in DOMAIN threads[i].queue : threads[i].queue[k].app \in Apps
      /\ 1 \in DOMAIN threads[i].queue /\ Job(i) = threads[i].queue[1]
      /\ app \in Apps /\ Job(i).release \in Releases
  BY Zenon, HeadJob
<1>2. threads[i].step # "idle" /\ threads'[i].step # "idle"
  BY Zenon DEF Advances, InstallSteps
<1>3. /\ threads'[i].queue = threads[i].queue /\ threads'[i].step \in InstallSteps
      /\ Job(i)' = Job(i)
  BY Zenon DEF Advances, Job
<1>4. Types'
  BY Zenon DEF IInv, Types, Advances
<1>5. ThreadSound(i)'
  <2>1. ThreadSound(i)
    BY Zenon DEF IInv
  <2>2. threads'[i].step = "finish" => threads'[i].outcome # "none"
    BY Zenon DEF Advances, Outcomes
  <2>3. /\ threads[i].step \notin {"idle", "commit", "publish", "select", "insert"}
        /\ threads'[i].step \notin {"idle", "commit", "publish", "select", "insert"}
    BY Zenon, <1>3 DEF InstallSteps
  <2>4. /\ threads[i].queue # <<>>
        /\ \A j, k \in DOMAIN threads[i].queue :
              threads[i].queue[j].app = threads[i].queue[k].app => j = k
        /\ \A k \in DOMAIN threads[i].queue :
              /\ catalog # 0
              /\ Listings[catalog][threads[i].queue[k].app] = threads[i].queue[k].release
    BY Zenon, <1>1, <2>1 DEF ThreadSound
  <2>5. QED
    BY Zenon, <1>3, <2>2, <2>3, <2>4 DEF ThreadSound
<1>6. /\ operations[app].release = Job(i).release
      /\ \A k \in DOMAIN threads[i].queue :
            LET o == operations'[threads[i].queue[k].app]
            IN /\ o.release = threads[i].queue[k].release
               /\ o.automatic = threads[i].queue[k].automatic
  <2>1. \A k \in DOMAIN threads[i].queue :
            LET o == operations[threads[i].queue[k].app]
            IN /\ o.release = threads[i].queue[k].release
               /\ o.automatic = threads[i].queue[k].automatic
    BY Zenon DEF IInv, JobsSound
  <2>2. QED
    BY Zenon, <1>1, <2>1 DEF Advances
<1>7. JobsSound(i)'
  <2>1. Package(i)' = part'[Job(i).app][Job(i).release]
    BY Zenon, <1>3 DEF Package
  <2>2. QED
    BY Zenon, <1>3, <1>6, <2>1 DEF JobsSound
<1>8. BusyIsQueued'
  <2>1. SUFFICES ASSUME NEW a \in Apps, Busy(a)'
                 PROVE  \E k \in DOMAIN threads'[i].queue : threads'[i].queue[k].app = a
    BY Zenon, <1>3 DEF BusyIsQueued
  <2>2. CASE a = app
    BY Zenon, <2>2, <1>1, <1>3
  <2>3. CASE a # app
    <3>1. Busy(a)
      BY Zenon, <2>1, <2>3 DEF Busy, Advances
    <3>2. PICK j \in Slots : /\ threads[j].step \in InstallSteps
                             /\ \E k \in DOMAIN threads[j].queue : threads[j].queue[k].app = a
      BY Zenon, <3>1 DEF IInv, BusyIsQueued
    <3>3. j = i
      BY <1>2, <3>2, Alone DEF IdleThread, InstallSteps
    <3>4. QED
      BY Zenon, <1>3, <3>2, <3>3
  <2>4. QED
    BY Zenon, <2>2, <2>3
<1>9. OperationsHaveReleases' /\ PausedCanResume' /\ disk' >= catalog'
  <2>1. operations'[app].release # 0
    BY Zenon, <1>1, <1>6, ListingTypes DEF Advances
  <2>2. QED
    BY Zenon, <1>1, <2>1 DEF IInv, OperationsHaveReleases, PausedCanResume, Advances
<1>10. QED
  BY Zenon, <1>2, <1>4, <1>5, <1>7, <1>8, <1>9, WorkerMoves DEF IInv, Advances

\* The worker enters a step.
LEMMA GotoMoves ==
    ASSUME IInv, NEW i \in Slots, NEW step \in InstallSteps, Goto(i, step)
    PROVE  /\ threads' \in [Slots -> ThreadStates]
           /\ \A j \in Slots : j # i => threads'[j] = threads[j]
           /\ threads'[i].step = step /\ threads'[i].queue = threads[i].queue
<1>1. threads[i] \in ThreadStates /\ threads \in [Slots -> ThreadStates]
  BY DEF IInv, Types
<1>2. QED
  BY Zenon, <1>1 DEF Goto, ThreadStates, Steps

\* The worker is done with the application at the head of its queue.
LEMMA OutcomeMoves ==
    ASSUME IInv, NEW i \in Slots, NEW outcome \in Outcomes, Outcome(i, outcome)
    PROVE  /\ threads' \in [Slots -> ThreadStates]
           /\ \A j \in Slots : j # i => threads'[j] = threads[j]
           /\ threads'[i].step = "finish" /\ threads'[i].outcome = outcome
           /\ threads'[i].queue = threads[i].queue
<1> DEFINE t == [threads EXCEPT ![i].step = "finish"]
<1>1. /\ t \in [Slots -> ThreadStates]
      /\ \A j \in Slots : j # i => t[j] = threads[j]
      /\ t[i].step = "finish" /\ t[i].queue = threads[i].queue
  BY Zenon DEF IInv, Types, ThreadStates, Steps, InstallSteps
<1>2. threads' = [t EXCEPT ![i].outcome = outcome]
  BY DEF Outcome
<1> HIDE DEF t
<1>3. QED
  BY Zenon, <1>1, <1>2 DEF ThreadStates, Outcomes

\* A step that does not touch the operations.
LEMMA QuietAdvance ==
    ASSUME IInv, NEW i \in Slots, threads[i].step \in InstallSteps,
           NEW step \in InstallSteps, NEW outcome \in Outcomes,
           \/ Goto(i, step) /\ step # "finish"
           \/ Outcome(i, outcome) /\ step = "finish",
           UNCHANGED operations
    PROVE  /\ Advances(i)
           /\ threads'[i].step = step
           /\ step = "finish" => threads'[i].outcome = outcome
<1>1. /\ threads' \in [Slots -> ThreadStates]
      /\ \A j \in Slots : j # i => threads'[j] = threads[j]
      /\ threads'[i].step = step /\ threads'[i].queue = threads[i].queue
      /\ step = "finish" => threads'[i].outcome = outcome
  BY Zenon, GotoMoves, OutcomeMoves
<1>2. QED
  BY <1>1 DEF Advances, IInv, Types

\* update_download_control and begin_install_handoff: the operation enters the
\* state and the worker goes on, or the worker turns to what the user wants.
LEMMA ProceedAdvances ==
    ASSUME IInv, NEW i \in Slots, threads[i].step \in InstallSteps,
           NEW state \in {"downloading", "installing"}, NEW step \in InstallSteps \ {"finish"},
           Proceed(i, state, step)
    PROVE  /\ Advances(i)
           /\ \/ /\ threads'[i].step = step
                 /\ operations'[Job(i).app].state = state
                 /\ operations'[Job(i).app].control = "continue"
              \/ threads'[i].step = "finish" /\ threads'[i].outcome = "paused"
              \/ threads'[i].step = "discard"
<1> DEFINE app == Job(i).app
<1>1. app \in Apps /\ operations[app] \in OperationStates
  BY Zenon, HeadJob DEF IInv, Types
<1>2. Control(i) = operations[app].control /\ Control(i) \in {"continue", "pause", "cancel"}
  <2>1. operations[app].release = Job(i).release
    BY Zenon, HeadJob DEF IInv, JobsSound
  <2>2. QED
    BY Zenon, <1>1, <2>1 DEF Control, OperationStates
<1> DEFINE entered == IF Control(i) = "continue" THEN state ELSE operations[app].state
<1>3. operations' = [operations EXCEPT ![app].state = entered]
  BY <1>1 DEF Proceed, IInv, Types
<1>4. entered \in States
  BY Zenon, <1>1 DEF OperationStates, States
<1>5. entered \in {operations[app].state, "downloading", "installing"}
  OBVIOUS
<1>6. Control(i) = "continue" => entered = state
  OBVIOUS
<1> HIDE DEF app, entered
<1>7. /\ operations' \in [Apps -> OperationStates]
      /\ \A a \in Apps : a # app => operations'[a] = operations[a]
      /\ operations'[app].release = operations[app].release
      /\ operations'[app].automatic = operations[app].automatic
      /\ operations'[app].control = operations[app].control
      /\ operations'[app].state = entered
  BY <1>1, <1>3, <1>4 DEF IInv, Types, OperationStates
<1>8. \/ Control(i) = "continue" /\ Goto(i, step)
      \/ Outcome(i, "paused")
      \/ Goto(i, "discard")
  BY Zenon, <1>2 DEF Proceed
<1>9. "paused" \in Outcomes /\ "discard" \in InstallSteps
  BY Zenon DEF Outcomes, InstallSteps
<1>10. /\ threads' \in [Slots -> ThreadStates]
       /\ \A j \in Slots : j # i => threads'[j] = threads[j]
       /\ threads'[i].queue = threads[i].queue
       /\ \/ threads'[i].step = step /\ Control(i) = "continue"
          \/ threads'[i].step = "finish" /\ threads'[i].outcome = "paused"
          \/ threads'[i].step = "discard"
  <2>1. CASE Control(i) = "continue" /\ Goto(i, step)
    BY <2>1, GotoMoves
  <2>2. CASE Outcome(i, "paused")
    BY <2>2, <1>9, OutcomeMoves
  <2>3. CASE Goto(i, "discard")
    BY Zenon, <2>3, <1>9, GotoMoves
  <2>4. QED
    BY Zenon, <1>8, <2>1, <2>2, <2>3
<1>11. Advances(i)
  BY Zenon, <1>5, <1>7, <1>10 DEF Advances, Outcomes, InstallSteps, app
<1>12. QED
  BY Zenon, <1>2, <1>6, <1>7, <1>10, <1>11 DEF app

\* The package file of the application at the head of the queue.
LEMMA PackageSet ==
    ASSUME IInv, NEW i \in Slots, threads[i].step \in InstallSteps
    PROVE  /\ Package(i) \in {"none", "prefix", "full", "bad"}
           /\ \A content \in {"none", "prefix", "full", "bad"} :
                 SetPackage(i, content) =>
                    /\ part' \in [Apps -> [Releases -> {"none", "prefix", "full", "bad"}]]
                    /\ part'[Job(i).app][Job(i).release] = content
<1> DEFINE app == Job(i).app
           release == Job(i).release
           C == {"none", "prefix", "full", "bad"}
<1>1. app \in Apps /\ release \in Releases
  BY HeadJob
<1>2. part \in [Apps -> [Releases -> C]]
  BY DEF IInv, Types
<1>3. /\ Package(i) = part[app][release]
      /\ \A content \in C :
            SetPackage(i, content) => part' = [part EXCEPT ![app][release] = content]
  BY DEF Package, SetPackage
<1> HIDE DEF app, release, C
<1>4. \A content \in C : SetPackage(i, content) =>
         part' \in [Apps -> [Releases -> C]] /\ part'[app][release] = content
  BY <1>1, <1>2, <1>3
<1>5. QED
  BY <1>1, <1>2, <1>3, <1>4 DEF app, release, C

LEMMA OpenPackageKeeps ==
    ASSUME IInv, NEW i \in Slots, OpenPackage(i)
    PROVE  IInv'
<1> DEFINE content == IF Package(i) = "none" THEN "prefix" ELSE Package(i)
           step == IF Package(i) \in {"full", "bad"} THEN "verify" ELSE "transfer"
<1>1. threads[i].step \in InstallSteps
  BY DEF OpenPackage, At, InstallSteps
<1>2. part' \in [Apps -> [Releases -> {"none", "prefix", "full", "bad"}]]
  <2>1. content \in {"none", "prefix", "full", "bad"} /\ SetPackage(i, content)
    BY <1>1, PackageSet DEF OpenPackage
  <2>2. QED
    BY <1>1, <2>1, PackageSet
<1>3. step \in InstallSteps \ {"finish"} /\ step \in {"verify", "transfer"}
  BY DEF InstallSteps
<1>4. Proceed(i, "downloading", step)
  BY DEF OpenPackage
<1> HIDE DEF step, content
<1>5. /\ Advances(i)
      /\ \/ threads'[i].step \in {"verify", "transfer", "discard"}
         \/ threads'[i].step = "finish" /\ threads'[i].outcome = "paused"
  BY <1>1, <1>3, <1>4, ProceedAdvances
<1>6. UNCHANGED <<catalog, disk, install_authorization, next_authorization, active_job,
                  auto_update, auto_update_running, installed, shown, client>>
  BY <1>4 DEF Proceed
<1>7. installed' \in [Apps -> {0} \cup Releases]
  BY <1>6 DEF IInv, Types
<1>8. QED
  BY <1>1, <1>2, <1>5, <1>6, <1>7, JobAdvances

LEMMA TransferKeeps ==
    ASSUME IInv, NEW i \in Slots, NEW content \in {"prefix", "full", "bad"}, Transfer(i, content)
    PROVE  IInv'
<1> DEFINE step == IF content = "prefix" THEN "transfer" ELSE "verify"
<1>1. threads[i].step \in InstallSteps
  BY DEF Transfer, At, InstallSteps
<1>2. part' \in [Apps -> [Releases -> {"none", "prefix", "full", "bad"}]]
  BY <1>1, PackageSet DEF Transfer
<1>3. step \in InstallSteps \ {"finish"} /\ step \in {"verify", "transfer"}
  BY DEF InstallSteps
<1>4. Proceed(i, "downloading", step)
  BY DEF Transfer
<1> HIDE DEF step
<1>5. /\ Advances(i)
      /\ \/ threads'[i].step \in {"verify", "transfer", "discard"}
         \/ threads'[i].step = "finish" /\ threads'[i].outcome = "paused"
  BY <1>1, <1>3, <1>4, ProceedAdvances
<1>6. UNCHANGED <<catalog, disk, install_authorization, next_authorization, active_job,
                  auto_update, auto_update_running, installed, shown, client>>
  BY <1>4 DEF Proceed
<1>7. installed' \in [Apps -> {0} \cup Releases]
  BY Zenon, <1>6 DEF IInv, Types
<1>8. QED
  BY Zenon, <1>1, <1>2, <1>5, <1>6, <1>7, JobAdvances

LEMMA VerifyPackageKeeps ==
    ASSUME IInv, NEW i \in Slots, NEW truncated \in BOOLEAN, VerifyPackage(i, truncated)
    PROVE  IInv'
<1> DEFINE content == IF Package(i) = "bad" /\ truncated THEN "prefix" ELSE Package(i)
<1>1. threads[i].step \in InstallSteps
  BY DEF VerifyPackage, At, InstallSteps
<1>2. /\ part' \in [Apps -> [Releases -> {"none", "prefix", "full", "bad"}]]
      /\ Package(i) = "full" => part'[Job(i).app][Job(i).release] = "full"
  <2>1. content \in {"none", "prefix", "full", "bad"} /\ SetPackage(i, content)
    BY <1>1, PackageSet DEF VerifyPackage
  <2>2. Package(i) = "full" => content = "full"
    OBVIOUS
  <2> HIDE DEF content
  <2>3. QED
    BY <1>1, <2>1, <2>2, PackageSet
<1>3. UNCHANGED <<catalog, disk, operations, install_authorization, next_authorization,
                  active_job, auto_update, auto_update_running, installed, shown, client>>
  BY DEF VerifyPackage, WorkOnly
<1>4. /\ Advances(i)
      /\ \/ threads'[i].step = "handoff" /\ Package(i) = "full"
         \/ threads'[i].step = "finish" /\ threads'[i].outcome = "failed"
  <2>1. "failed" \in Outcomes /\ "finish" \in InstallSteps /\ "handoff" \in InstallSteps
    BY Zenon DEF Outcomes, InstallSteps
  <2>2. CASE Package(i) = "full" /\ Goto(i, "handoff")
    BY Zenon, <1>1, <1>3, <2>1, <2>2, QuietAdvance
  <2>3. CASE Outcome(i, "failed")
    BY Zenon, <1>1, <1>3, <2>1, <2>3, QuietAdvance
  <2>4. QED
    BY <2>2, <2>3 DEF VerifyPackage
<1>5. installed' \in [Apps -> {0} \cup Releases]
  BY Zenon, <1>3 DEF IInv, Types
<1>6. QED
  BY Zenon, <1>1, <1>2, <1>3, <1>4, <1>5, JobAdvances

LEMMA BeginInstallHandoffKeeps ==
    ASSUME IInv, NEW i \in Slots, BeginInstallHandoff(i)
    PROVE  IInv'
<1>1. threads[i].step = "handoff" /\ threads[i].step \in InstallSteps
  BY DEF BeginInstallHandoff, At, InstallSteps
<1>2. /\ part' \in [Apps -> [Releases -> {"none", "prefix", "full", "bad"}]]
      /\ part'[Job(i).app][Job(i).release] = "full"
  BY Zenon, <1>1 DEF BeginInstallHandoff, IInv, Types, JobsSound, Package
<1>3. /\ Advances(i)
      /\ \/ /\ threads'[i].step = "stage"
            /\ operations'[Job(i).app].state = "installing"
            /\ operations'[Job(i).app].control = "continue"
         \/ threads'[i].step = "finish" /\ threads'[i].outcome = "paused"
         \/ threads'[i].step = "discard"
  <2>1. "stage" \in InstallSteps \ {"finish"} /\ Proceed(i, "installing", "stage")
    BY DEF InstallSteps, BeginInstallHandoff
  <2>2. QED
    BY Zenon, <1>1, <2>1, ProceedAdvances
<1>4. UNCHANGED <<catalog, disk, install_authorization, next_authorization, active_job,
                  auto_update, auto_update_running, installed, shown, client>>
  BY Zenon DEF BeginInstallHandoff, Proceed
<1>5. installed' \in [Apps -> {0} \cup Releases]
  BY <1>4 DEF IInv, Types
<1>6. QED
  BY Zenon, <1>1, <1>2, <1>3, <1>4, <1>5, JobAdvances

LEMMA StagePackageKeeps ==
    ASSUME IInv, NEW i \in Slots, NEW ok \in BOOLEAN, StagePackage(i, ok)
    PROVE  IInv'
<1>1. threads[i].step = "stage" /\ threads[i].step \in InstallSteps
  BY DEF StagePackage, At, InstallSteps
<1>2. UNCHANGED <<catalog, disk, operations, install_authorization, next_authorization, part,
                  active_job, auto_update, auto_update_running, installed, shown, client>>
  BY DEF StagePackage, WorkOnly
<1>3. /\ part' \in [Apps -> [Releases -> {"none", "prefix", "full", "bad"}]]
      /\ part'[Job(i).app][Job(i).release] = "full"
      /\ operations'[Job(i).app].state = "installing"
      /\ operations'[Job(i).app].control = "continue"
      /\ installed' \in [Apps -> {0} \cup Releases]
  BY Zenon, <1>1, <1>2 DEF IInv, Types, JobsSound, Package
<1>4. Advances(i)
  <2>1. "failed" \in Outcomes /\ "finish" \in InstallSteps /\ "install" \in InstallSteps
    BY DEF Outcomes, InstallSteps
  <2>2. CASE Goto(i, "install")
    BY Zenon, <1>1, <1>2, <2>1, <2>2, QuietAdvance
  <2>3. CASE Outcome(i, "failed")
    BY Zenon, <1>1, <1>2, <2>1, <2>3, QuietAdvance
  <2>4. QED
    BY <2>2, <2>3 DEF StagePackage
<1>5. QED
  BY Zenon, <1>1, <1>2, <1>3, <1>4, JobAdvances

LEMMA InstallPackageKeeps ==
    ASSUME IInv, NEW i \in Slots, NEW answer \in {"installed", "lost", "refused"},
           InstallPackage(i, answer)
    PROVE  IInv'
<1> DEFINE outcome == IF answer = "installed" THEN "installed" ELSE "failed"
<1>1. threads[i].step = "install" /\ threads[i].step \in InstallSteps
  BY Zenon DEF InstallPackage, At, InstallSteps
<1>2. UNCHANGED <<catalog, disk, operations, install_authorization, next_authorization, part,
                  active_job, auto_update, auto_update_running, shown, client>>
  BY DEF InstallPackage
<1>3. /\ part' \in [Apps -> [Releases -> {"none", "prefix", "full", "bad"}]]
      /\ operations'[Job(i).app].state = "installing"
      /\ operations'[Job(i).app].control = "continue"
  BY Zenon, <1>1, <1>2 DEF IInv, Types, JobsSound
<1>4. installed' \in [Apps -> {0} \cup Releases]
  <2>1. Job(i).app \in Apps /\ Job(i).release \in Releases
    BY <1>1, HeadJob
  <2>2. QED
    BY Zenon, <2>1 DEF IInv, Types, InstallPackage
<1>5. Advances(i) /\ threads'[i].step = "finish"
  <2>1. outcome \in Outcomes /\ "finish" \in InstallSteps /\ Outcome(i, outcome)
    BY Zenon DEF Outcomes, InstallSteps, InstallPackage
  <2> HIDE DEF outcome
  <2>2. QED
    BY <1>1, <1>2, <2>1, QuietAdvance
<1>6. QED
  BY Zenon, <1>1, <1>2, <1>3, <1>4, <1>5, JobAdvances

LEMMA DiscardPackageKeeps ==
    ASSUME IInv, NEW i \in Slots, NEW ok \in BOOLEAN, DiscardPackage(i, ok)
    PROVE  IInv'
<1> DEFINE outcome == IF ok THEN "canceled" ELSE "failed"
           content == IF ok THEN "none" ELSE Package(i)
<1>1. threads[i].step \in InstallSteps
  BY DEF DiscardPackage, At, InstallSteps
<1>2. UNCHANGED <<catalog, disk, operations, install_authorization, next_authorization,
                  active_job, auto_update, auto_update_running, installed, shown, client>>
  BY DEF DiscardPackage, WorkOnly
<1>3. part' \in [Apps -> [Releases -> {"none", "prefix", "full", "bad"}]]
  <2>1. content \in {"none", "prefix", "full", "bad"} /\ SetPackage(i, content)
    BY <1>1, PackageSet DEF DiscardPackage
  <2>2. QED
    BY <1>1, <2>1, PackageSet
<1>4. /\ Advances(i)
      /\ threads'[i].step = "finish" /\ threads'[i].outcome # "installed"
  <2>1. /\ outcome \in Outcomes /\ outcome # "installed"
        /\ "finish" \in InstallSteps /\ Outcome(i, outcome)
    BY DEF Outcomes, InstallSteps, DiscardPackage
  <2> HIDE DEF outcome
  <2>2. QED
    BY Zenon, <1>1, <1>2, <2>1, QuietAdvance
<1>5. installed' \in [Apps -> {0} \cup Releases]
  BY <1>2 DEF IInv, Types
<1>6. QED
  BY Zenon, <1>1, <1>2, <1>3, <1>4, <1>5, JobAdvances

LEMMA DownloadFailsKeeps ==
    ASSUME IInv, NEW i \in Slots, DownloadFails(i)
    PROVE  IInv'
<1>1. threads[i].step \in InstallSteps
  BY DEF DownloadFails, InstallSteps
<1>2. UNCHANGED <<catalog, disk, operations, install_authorization, next_authorization, part,
                  active_job, auto_update, auto_update_running, installed, shown, client>>
  BY Zenon DEF DownloadFails, WorkOnly
<1>3. Advances(i) /\ threads'[i].step = "finish" /\ threads'[i].outcome = "failed"
  <2>1. "failed" \in Outcomes /\ "finish" \in InstallSteps /\ Outcome(i, "failed")
    BY DEF Outcomes, InstallSteps, DownloadFails
  <2>2. QED
    BY Zenon, <1>1, <1>2, <2>1, QuietAdvance
<1>4. /\ part' \in [Apps -> [Releases -> {"none", "prefix", "full", "bad"}]]
      /\ installed' \in [Apps -> {0} \cup Releases]
  BY <1>2 DEF IInv, Types
<1>5. QED
  BY Zenon, <1>1, <1>2, <1>3, <1>4, JobAdvances

\* The queue without its head.
LEMMA TailOf ==
    ASSUME NEW S, NEW q \in Seq(S), q # <<>>
    PROVE  /\ Tail(q) \in Seq(S) /\ Len(Tail(q)) = Len(q) - 1
           /\ DOMAIN Tail(q) = 1 .. Len(q) - 1
           /\ \A k \in 1 .. Len(q) - 1 : Tail(q)[k] = q[k + 1] /\ k + 1 \in DOMAIN q
           /\ Tail(q) # <<>> <=> Len(q) # 1
<1>1. Len(q) \in Nat \ {0} /\ DOMAIN q = 1 .. Len(q)
  OBVIOUS
<1>2. Tail(q) \in Seq(S) /\ Len(Tail(q)) = Len(q) - 1
  OBVIOUS
<1>3. DOMAIN Tail(q) = 1 .. Len(q) - 1
  BY <1>2
<1>4. \A k \in 1 .. Len(q) - 1 : Tail(q)[k] = q[k + 1] /\ k + 1 \in DOMAIN q
  BY <1>1
<1>5. Tail(q) # <<>> <=> Len(q) # 1
  <2>1. \A s \in Seq(S) : s = <<>> <=> Len(s) = 0
    OBVIOUS
  <2>2. Len(Tail(q)) = 0 <=> Len(q) = 1
    BY <1>1, <1>2
  <2>3. QED
    BY Zenon, <1>2, <2>1, <2>2
<1>6. QED
  BY <1>2, <1>3, <1>4, <1>5

LEMMA FinishInstallOperationKeeps ==
    ASSUME IInv, NEW i \in Slots, FinishInstallOperation(i)
    PROVE  IInv'
<1> DEFINE q == threads[i].queue
           app == Job(i).app
           outcome == threads[i].outcome
           ended == Operation(outcome, operations[app].release, "continue",
                              operations[app].automatic)
<1>1. threads[i].step = "finish" /\ threads[i].step \in InstallSteps
  BY DEF FinishInstallOperation, At, InstallSteps
<1>2. /\ threads[i] \in ThreadStates /\ q \in Seq(Jobs) /\ q # <<>>
      /\ Len(q) \in Nat \ {0} /\ DOMAIN q = 1 .. Len(q)
      /\ \A k \in DOMAIN q : q[k].app \in Apps
      /\ app = q[1].app /\ app \in Apps /\ Job(i) = q[1] /\ Job(i).release \in Releases
  BY <1>1, HeadJob
<1>3. /\ outcome \in Outcomes
      /\ \A j, k \in DOMAIN q : q[j].app = q[k].app => j = k
      /\ \A k \in DOMAIN q : catalog # 0 /\ Listings[catalog][q[k].app] = q[k].release
  BY Zenon, <1>1, <1>2 DEF IInv, ThreadSound, ThreadStates, Outcomes
<1>4. \A k \in DOMAIN q : /\ operations[q[k].app].release = q[k].release
                          /\ operations[q[k].app].automatic = q[k].automatic
  BY Zenon, <1>1 DEF IInv, JobsSound
<1>5. /\ operations' = [operations EXCEPT ![app] = ended]
      /\ threads' = [threads EXCEPT ![i].queue = Tail(q), ![i].outcome = "none",
                                    ![i].step = IF Len(q) = 1 THEN "release" ELSE "open"]
      /\ UNCHANGED <<catalog, install_authorization, next_authorization, active_job,
                     auto_update, auto_update_running, client, disk, part, installed, shown>>
  <2>1. operations[app].release = Job(i).release
    <3>1. 1 \in DOMAIN q
      BY <1>2
    <3>2. QED
      BY Zenon, <1>2, <1>4, <3>1
  <2>2. QED
    BY <1>2, <2>1 DEF FinishInstallOperation, StateOnly, IInv, Types
<1>6. ended \in OperationStates /\ ended.state = outcome /\ ended.release = Job(i).release
  <2>1. operations[app] \in OperationStates
    BY Zenon, <1>2 DEF IInv, Types
  <2>2. operations[app].release = Job(i).release
    <3>1. 1 \in DOMAIN q
      BY <1>2
    <3>2. QED
      BY <1>2, <1>4, <3>1
  <2>3. outcome \in States
    BY <1>3 DEF Outcomes, States
  <2> HIDE DEF outcome, app
  <2>4. QED
    BY Zenon, <2>1, <2>2, <2>3 DEF OperationStates, Operation
<1>7. /\ Tail(q) \in Seq(Jobs) /\ Len(Tail(q)) = Len(q) - 1
      /\ DOMAIN Tail(q) = 1 .. Len(q) - 1
      /\ \A k \in 1 .. Len(q) - 1 : Tail(q)[k] = q[k + 1] /\ k + 1 \in DOMAIN q
      /\ Tail(q) # <<>> <=> Len(q) # 1
  <2> HIDE DEF q
  <2>1. QED
    BY Zenon, <1>2, TailOf
<1> HIDE DEF q, app, outcome, ended
<1>8. /\ operations' \in [Apps -> OperationStates]
      /\ operations'[app] = ended
      /\ \A a \in Apps : a # app => operations'[a] = operations[a]
  BY <1>2, <1>5, <1>6 DEF IInv, Types
<1>9. /\ threads' \in [Slots -> ThreadStates]
      /\ \A j \in Slots : j # i => threads'[j] = threads[j]
      /\ threads'[i].queue = Tail(q)
      /\ threads'[i].step = IF Len(q) = 1 THEN "release" ELSE "open"
  <2> DEFINE t == [threads EXCEPT ![i].queue = Tail(q)]
             u == [t EXCEPT ![i].outcome = "none"]
             step == IF Len(q) = 1 THEN "release" ELSE "open"
  <2>1. /\ t \in [Slots -> ThreadStates] /\ t[i].queue = Tail(q)
        /\ \A j \in Slots : j # i => t[j] = threads[j]
    BY Zenon, <1>7 DEF IInv, Types, ThreadStates
  <2>2. threads' = [u EXCEPT ![i].step = step]
    BY Zenon, <1>5
  <2> HIDE DEF t
  <2>3. /\ u \in [Slots -> ThreadStates] /\ u[i].queue = Tail(q)
        /\ \A j \in Slots : j # i => u[j] = threads[j]
    BY Zenon, <2>1 DEF ThreadStates
  <2>4. step \in Steps
    BY DEF Steps, InstallSteps
  <2> HIDE DEF u, step
  <2>5. QED
    BY Zenon, <2>2, <2>3, <2>4 DEF ThreadStates, step
<1>10. Types'
  BY <1>5, <1>8, <1>9 DEF IInv, Types
<1>11. ThreadSound(i)'
  <2>1. \A j, k \in DOMAIN Tail(q) : Tail(q)[j].app = Tail(q)[k].app => j = k
    BY <1>2, <1>3, <1>7
  <2>2. \A k \in DOMAIN Tail(q) :
            catalog # 0 /\ Listings[catalog][Tail(q)[k].app] = Tail(q)[k].release
    BY <1>2, <1>3, <1>7
  <2>3. QED
    BY <1>5, <1>7, <1>9, <2>1, <2>2 DEF ThreadSound, InstallSteps
<1>12. \A k \in DOMAIN Tail(q) : /\ Tail(q)[k].app # app /\ Tail(q)[k].app \in Apps
                                 /\ operations'[Tail(q)[k].app] = operations[Tail(q)[k].app]
  <2>1. \A k \in DOMAIN Tail(q) : k + 1 # 1 /\ k + 1 \in DOMAIN q /\ Tail(q)[k] = q[k + 1]
    BY <1>2, <1>7
  <2>2. 1 \in DOMAIN q
    BY <1>2
  <2>3. \A k \in DOMAIN Tail(q) : Tail(q)[k].app # app /\ Tail(q)[k].app \in Apps
    BY Zenon, <1>2, <1>3, <2>1, <2>2
  <2>4. QED
    BY <1>8, <2>3
<1>13. JobsSound(i)'
  BY <1>2, <1>4, <1>7, <1>9, <1>12 DEF JobsSound
<1>14. BusyIsQueued'
  <2>1. SUFFICES ASSUME NEW a \in Apps, Busy(a)'
                 PROVE  /\ threads'[i].step \in InstallSteps
                        /\ \E k \in DOMAIN threads'[i].queue : threads'[i].queue[k].app = a
    BY DEF BusyIsQueued
  <2>2. a # app /\ Busy(a)
    BY <2>1, <1>3, <1>6, <1>8 DEF Busy, Outcomes
  <2>3. PICK j \in Slots : /\ threads[j].step \in InstallSteps
                           /\ \E k \in DOMAIN threads[j].queue : threads[j].queue[k].app = a
    BY <2>2 DEF IInv, BusyIsQueued
  <2>4. j = i
    BY <1>1, <2>3, Alone DEF IdleThread, InstallSteps
  <2>5. PICK k \in DOMAIN q : q[k].app = a
    BY <2>3, <2>4 DEF q
  <2>6. k # 1 /\ k - 1 \in 1 .. Len(q) - 1 /\ (k - 1) + 1 = k /\ Len(q) # 1
    BY <1>2, <2>2, <2>5
  <2>7. Tail(q)[k - 1].app = a
    BY <1>7, <2>5, <2>6
  <2>8. QED
    BY Zenon, <1>7, <1>9, <2>6, <2>7 DEF InstallSteps
<1>15. OperationsHaveReleases' /\ PausedCanResume' /\ disk' >= catalog'
  <2>1. /\ operations'[app].release = Job(i).release /\ Job(i).release # 0
        /\ catalog # 0 /\ Listings[catalog][app] = Job(i).release
    BY <1>2, <1>3, <1>6, <1>8, ListingTypes
  <2>2. QED
    BY Zenon, <1>5, <1>8, <2>1 DEF IInv, OperationsHaveReleases, PausedCanResume
<1>16. QED
  <2>1. threads[i].step # "idle" /\ threads'[i].step # "idle"
    BY Zenon, <1>1, <1>9
  <2>2. QED
    BY Zenon, <2>1, <1>5, <1>9, <1>10, <1>11, <1>13, <1>14, <1>15, WorkerMoves DEF IInv

LEMMA ReleaseJobKeeps ==
    ASSUME IInv, NEW i \in Slots, ReleaseJob(i)
    PROVE  IInv'
<1>1. /\ threads[i].step = "release"
      /\ \A j \in Slots : j # i => threads[j] = IdleThread
      /\ ~ClientHoldsJob
      /\ \A a \in Apps : ~Busy(a)
  <2>1. threads[i].step = "release"
    BY DEF ReleaseJob, At
  <2>2. QED
    BY Zenon, <2>1, Alone, NotInstalling DEF InstallSteps
<1>2. /\ threads' = [threads EXCEPT ![i] = IdleThread]
      /\ active_job' = FALSE /\ auto_update_running' \in BOOLEAN
      /\ UNCHANGED <<catalog, operations, install_authorization, next_authorization,
                     auto_update, client, disk, part, installed, shown>>
  BY DEF ReleaseJob, StateOnly
<1>3. threads' \in [Slots -> ThreadStates] /\ \A j \in Slots : threads'[j] = IdleThread
  BY <1>1, <1>2, IdleTypes DEF IInv, Types
<1>4. Types'
  BY Zenon, <1>2, <1>3 DEF IInv, Types
<1>5. Exclusive'
  BY <1>1, <1>2, <1>3 DEF Exclusive, ClientHoldsJob
<1>6. /\ \A j \in Slots : ThreadSound(j)'
      /\ \A j \in Slots : JobsSound(j)'
      /\ BusyIsQueued'
  <2>1. \A a \in Apps : ~Busy(a)'
    BY Zenon, <1>1, <1>2 DEF Busy
  <2>2. QED
    BY <1>3, <2>1, NoWorkers
<1>7. OperationsHaveReleases' /\ PausedCanResume' /\ disk' >= catalog'
  BY Zenon, <1>2 DEF IInv, OperationsHaveReleases, PausedCanResume
<1>8. QED
  BY Zenon, <1>2, <1>4, <1>5, <1>6, <1>7, ClientKept, AuthorizationsKept DEF IInv

-----------------------------------------------------------------------------
(* The invariant holds in every reachable state.                           *)

LEMMA RequestKeeps == ASSUME IInv, Request PROVE IInv'
BY PreflightKeeps, InstallKeeps, ResumeKeeps, PauseKeeps, CancelKeeps, RefreshKeeps,
   CacheMediaKeeps, SetAutoUpdateKeeps DEF Request

LEMMA ServeKeeps == ASSUME IInv, Serve PROVE IInv'
BY PreflightFinishKeeps, CancelCleanupKeeps, ValidateKeeps, CacheMediaDoneKeeps DEF Serve

LEMMA SurroundingsKeep == ASSUME IInv, Surroundings PROVE IInv'
BY StartAutoUpdateCheckKeeps, CheckDueKeeps, UninstallKeeps, RestartKeeps DEF Surroundings

LEMMA WorkKeeps == ASSUME IInv, NEW i \in Slots, Work(i) PROVE IInv'
<1>1. CASE \/ \E s \in CatalogSequences : Fetch(i, s)
           \/ \E outcome \in {"ok", "failed", "unsynced"} : CommitCatalogCache(i, outcome)
           \/ PublishCatalog(i) \/ SelectCandidates(i) \/ InsertCandidates(i) \/ GiveUp(i)
  BY <1>1, FetchKeeps, CommitCatalogCacheKeeps, PublishCatalogKeeps, SelectCandidatesKeeps,
     InsertCandidatesKeeps, GiveUpKeeps
<1>2. CASE \/ OpenPackage(i)
           \/ \E content \in {"prefix", "full", "bad"} : Transfer(i, content)
           \/ \E ok \in BOOLEAN : VerifyPackage(i, ok) \/ StagePackage(i, ok) \/ DiscardPackage(i, ok)
           \/ BeginInstallHandoff(i)
  BY <1>2, OpenPackageKeeps, TransferKeeps, VerifyPackageKeeps, StagePackageKeeps,
     DiscardPackageKeeps, BeginInstallHandoffKeeps
<1>3. CASE \/ \E answer \in {"installed", "lost", "refused"} : InstallPackage(i, answer)
           \/ DownloadFails(i) \/ FinishInstallOperation(i) \/ ReleaseJob(i)
  BY <1>3, InstallPackageKeeps, DownloadFailsKeeps, FinishInstallOperationKeeps, ReleaseJobKeeps
<1>4. QED
  BY <1>1, <1>2, <1>3 DEF Work

LEMMA NextKeeps == IInv /\ [Next]_vars => IInv'
BY StutterKeeps, RequestKeeps, ServeKeeps, SurroundingsKeep, WorkKeeps DEF Next

LEMMA AlwaysIInv == Spec => []IInv
BY InitInv, NextKeeps, PTL DEF Spec

-----------------------------------------------------------------------------
(* What the invariant is good for.                                         *)

LEMMA InvariantGivesOperationsSound == IInv => OperationsSound
<1>1. SUFFICES ASSUME IInv PROVE OperationsSound
  OBVIOUS
<1>2. TypeOK
  BY <1>1, TypesGiveTypeOK DEF IInv
<1>3. OneJob
  <2>1. active_job <=> (Workers # {} \/ ClientHoldsJob)
    BY <1>1 DEF IInv, Exclusive, Workers
  <2>2. CASE Workers = {}
    <3>1. Cardinality(Workers) = 0
      BY Zenon, <2>2, FS_EmptySet
    <3>2. QED
      BY <2>1, <3>1 DEF OneJob
  <2>3. CASE Workers # {}
    <3>1. PICK i \in Slots : Workers = {i}
      BY <2>3, <1>1 DEF IInv, Exclusive, Workers
    <3>2. Cardinality(Workers) = 1
      BY Zenon, <3>1, FS_Singleton
    <3>3. ~ClientHoldsJob
      BY <2>3, <1>1 DEF IInv, Exclusive, Workers
    <3>4. QED
      BY <2>1, <3>2, <3>3 DEF OneJob
  <2>4. QED
    BY <2>2, <2>3
<1>4. NoOrphanOperation
  <2>1. SUFFICES ASSUME NEW a \in Apps, Busy(a)
                 PROVE  \E i \in Slots : \E k \in DOMAIN threads[i].queue :
                            /\ threads[i].queue[k].app = a
                            /\ threads[i].queue[k].release = operations[a].release
    BY DEF NoOrphanOperation, Busy
  <2>2. PICK i \in Slots : /\ threads[i].step \in InstallSteps
                           /\ \E k \in DOMAIN threads[i].queue : threads[i].queue[k].app = a
    BY <1>1, <2>1 DEF IInv, BusyIsQueued
  <2>3. JobsSound(i)
    BY <1>1 DEF IInv
  <2>4. QED
    BY Zenon, <2>2, <2>3 DEF JobsSound
<1>5. PausedCanResume
  BY Zenon, <1>1 DEF IInv
<1>6. HandoffIsSound
  <2>1. SUFFICES ASSUME NEW i \in Slots, threads[i].step = "install"
                 PROVE  /\ Package(i) = "full"
                        /\ operations[Job(i).app] =
                             Operation("installing", Job(i).release, "continue", Job(i).automatic)
    BY DEF HandoffIsSound, At
  <2>2. threads[i].step \in InstallSteps
    BY Zenon, <2>1 DEF InstallSteps
  <2>3. /\ 1 \in DOMAIN threads[i].queue /\ Job(i) = threads[i].queue[1]
        /\ operations[Job(i).app] \in OperationStates
    BY Zenon, <1>1, <2>2, HeadJob DEF IInv, Types
  <2>4. /\ Package(i) = "full"
        /\ operations[Job(i).app].state = "installing"
        /\ operations[Job(i).app].control = "continue"
        /\ operations[Job(i).app].release = Job(i).release
        /\ operations[Job(i).app].automatic = Job(i).automatic
    BY Zenon, <1>1, <2>1, <2>2, <2>3 DEF IInv, JobsSound
  <2>5. QED
    BY Zenon, <2>3, <2>4 DEF OperationStates, Operation
<1>7. QED
  BY <1>2, <1>3, <1>4, <1>5, <1>6 DEF OperationsSound

\* For any Catalogs, clients and workers, in every reachable state of
\* cp0-stored the reservation active_job is held by exactly one worker or
\* request, every operation in progress is in that worker's queue, a paused
\* operation is of the listed release, and what is handed to appd is a
\* verified package of an operation nobody has stopped.
THEOREM OperationsAreSound == Spec => []OperationsSound
BY AlwaysIInv, InvariantGivesOperationsSound, PTL

-----------------------------------------------------------------------------
(* What no step does.                                                      *)

\* A request to stop is for an operation in progress.
LEMMA NothingToStop ==
    ASSUME \A a \in Apps : ~Busy(a)
    PROVE  StopIsHonoured
BY DEF StopIsHonoured, StopAsked, Busy

LEMMA OperationsKept == ASSUME UNCHANGED operations PROVE StopIsHonoured
BY DEF StopIsHonoured, StopAsked

\* The steps of the connection thread that begin no installation.
LEMMA NothingInstalled ==
    ASSUME UNCHANGED client \/ client'.step # "validate"
    PROVE  InstallsWhatWasShown
BY Zenon DEF InstallsWhatWasShown

LEMMA CatalogKept == ASSUME IInv, UNCHANGED catalog PROVE catalog' >= catalog
<1>1. catalog \in Nat
  BY Zenon, ReleaseTypes DEF IInv, Types
<1>2. QED
  BY <1>1

Honours == StopIsHonoured /\ InstallsWhatWasShown /\ catalog' >= catalog

LEMMA QuietHonours ==
    ASSUME IInv, UNCHANGED <<operations, catalog>>, UNCHANGED client \/ client'.step # "validate"
    PROVE  Honours
BY Zenon, OperationsKept, NothingInstalled, CatalogKept DEF Honours

\* An accepted installation takes the batch of the authorization, which is
\* what was shown under its number.
LEMMA InstallHonours ==
    ASSUME IInv, NEW c \in Clients, NEW fresh \in BOOLEAN, Install(c, fresh)
    PROVE  Honours
<1>1. UNCHANGED <<operations, catalog>>
  BY DEF Install
<1>2. CASE client' = IdleClient
  BY <1>1, <1>2, QuietHonours DEF IdleClient
<1>3. CASE /\ Authorized(c)
           /\ client' = [IdleClient EXCEPT !.step = "validate", !.by = {c},
                                           !.apps = install_authorization.apps]
  <2>1. client'.by = {c} /\ client'.apps = install_authorization.apps
    BY <1>3 DEF IdleClient
  <2>2. ~shown[c].old => shown[c].apps = install_authorization.apps
    BY <1>3 DEF Install, Authorized, IInv, AuthorizationsSound
  <2>3. InstallsWhatWasShown
    BY <2>1, <2>2 DEF InstallsWhatWasShown
  <2>4. QED
    BY <1>1, <2>3, OperationsKept, CatalogKept DEF Honours
<1>4. QED
  BY <1>2, <1>3 DEF Install

LEMMA ResumeHonours == ASSUME IInv, NEW a \in Apps, Resume(a) PROVE Honours
<1>1. UNCHANGED <<operations, catalog>>
  BY DEF Resume
<1>2. client'.by = {}
  BY DEF Resume, IdleClient
<1>3. InstallsWhatWasShown
  BY <1>2 DEF InstallsWhatWasShown
<1>4. QED
  BY <1>1, <1>3, OperationsKept, CatalogKept DEF Honours

LEMMA PauseHonours == ASSUME IInv, NEW a \in Apps, Pause(a) PROVE Honours
<1>1. UNCHANGED <<catalog, client>>
  BY DEF Pause
<1>2. \A b \in Apps : b # a => operations'[b] = operations[b]
  BY DEF Pause, IInv, Types
<1>3. ~StopAsked(operations[a])
  BY DEF Pause, StopAsked
<1>4. StopIsHonoured
  BY <1>2, <1>3 DEF StopIsHonoured
<1>5. QED
  BY <1>1, <1>4, NothingInstalled, CatalogKept DEF Honours

LEMMA CancelHonours == ASSUME IInv, NEW a \in Apps, Cancel(a) PROVE Honours
<1>1. UNCHANGED catalog /\ (UNCHANGED client \/ client'.step # "validate")
  BY Zenon DEF Cancel, IdleClient
<1>2. /\ \A b \in Apps : b # a => operations'[b] = operations[b]
      /\ operations'[a].state = operations[a].state /\ operations'[a].control = "cancel"
  BY DEF Cancel, IInv, Types, OperationStates
<1>3. StopIsHonoured
  BY <1>2 DEF StopIsHonoured, StopAsked
<1>4. QED
  BY <1>1, <1>3, NothingInstalled, CatalogKept DEF Honours

\* The worker enters a state only for an operation nobody has stopped.
LEMMA ProceedHonours ==
    ASSUME IInv, NEW i \in Slots, threads[i].step \in InstallSteps, NEW state, NEW step,
           Proceed(i, state, step)
    PROVE  Honours
<1> DEFINE app == Job(i).app
<1>1. UNCHANGED <<catalog, client>>
  BY DEF Proceed
<1>2. app \in Apps /\ operations[app].release = Job(i).release
  BY Zenon, HeadJob DEF IInv, JobsSound
<1>3. CASE Control(i) = "continue"
  <2>1. ~StopAsked(operations[app])
    BY Zenon, <1>2, <1>3 DEF Control, StopAsked
  <2>2. \A b \in Apps : b # app => operations'[b] = operations[b]
    BY <1>2 DEF Proceed, IInv, Types
  <2>3. StopIsHonoured
    BY <2>1, <2>2 DEF StopIsHonoured
  <2>4. QED
    BY <1>1, <2>3, NothingInstalled, CatalogKept DEF Honours
<1>4. CASE Control(i) # "continue"
  <2>1. operations' = [operations EXCEPT ![app].state = operations[app].state]
    BY <1>2, <1>4 DEF Proceed, IInv, Types
  <2>2. /\ \A b \in Apps : b # app => operations'[b] = operations[b]
        /\ operations'[app].state = operations[app].state
        /\ operations'[app].control = operations[app].control
    BY Zenon, <1>2, <2>1 DEF IInv, Types, OperationStates
  <2>3. StopIsHonoured
    BY Zenon, <2>2 DEF StopIsHonoured, StopAsked
  <2>4. QED
    BY <1>1, <2>3, NothingInstalled, CatalogKept DEF Honours
<1>5. QED
  BY <1>3, <1>4

\* A transfer that was to stop does not end installed.
LEMMA FinishHonours ==
    ASSUME IInv, NEW i \in Slots, FinishInstallOperation(i)
    PROVE  Honours
<1> DEFINE app == Job(i).app
<1>1. threads[i].step = "finish" /\ threads[i].step \in InstallSteps
  BY DEF FinishInstallOperation, At, InstallSteps
<1>2. UNCHANGED <<catalog, client>>
  BY Zenon DEF FinishInstallOperation
<1>3. app \in Apps
  BY Zenon, <1>1, HeadJob
<1>4. /\ \A b \in Apps : b # app => operations'[b] = operations[b]
      /\ \/ operations'[app] = operations[app]
         \/ operations'[app] = Operation(threads[i].outcome, operations[app].release, "continue",
                                         operations[app].automatic)
  BY <1>3 DEF FinishInstallOperation, IInv, Types
<1>5. /\ threads[i].outcome \in {"paused", "installed", "canceled", "failed"}
      /\ threads[i].outcome = "installed" => operations[app].state = "installing"
  BY Zenon, <1>1 DEF IInv, Types, ThreadStates, ThreadSound, JobsSound
<1>6. StopIsHonoured
  <2>1. ASSUME StopAsked(operations[app])
        PROVE  operations'[app] = operations[app] \/ operations'[app].state \in {"paused", "canceled", "failed"}
    BY <1>4, <1>5, <2>1, OperationFields DEF StopAsked
  <2>2. QED
    BY Zenon, <1>4, <2>1 DEF StopIsHonoured
<1>7. QED
  BY <1>2, <1>6, NothingInstalled, CatalogKept DEF Honours

LEMMA RequestHonours == ASSUME IInv, Request PROVE Honours
<1>1. ASSUME NEW c \in Clients, NEW S \in SUBSET Apps, Preflight(c, S) PROVE Honours
  <2>1. client'.step # "validate"
    BY <1>1 DEF Preflight, IdleClient
  <2>2. QED
    BY <1>1, <2>1, QuietHonours DEF Preflight
<1>2. CASE Refresh
  BY <1>2, QuietHonours DEF Refresh
<1>3. CASE CacheMedia
  <2>1. client'.step # "validate"
    BY <1>3 DEF CacheMedia, IdleClient
  <2>2. QED
    BY <1>3, <2>1, QuietHonours DEF CacheMedia
<1>4. ASSUME NEW enabled \in BOOLEAN, SetAutoUpdate(enabled) PROVE Honours
  BY <1>4, QuietHonours DEF SetAutoUpdate
<1>5. QED
  BY <1>1, <1>2, <1>3, <1>4, InstallHonours, ResumeHonours, PauseHonours, CancelHonours DEF Request

LEMMA ServeHonours == ASSUME IInv, Serve PROVE Honours
<1>1. client' = IdleClient /\ UNCHANGED catalog
  BY Zenon DEF Serve, PreflightFinish, CancelCleanup, Validate, CacheMediaDone
<1>2. client'.step # "validate"
  BY <1>1 DEF IdleClient
<1>3. StopIsHonoured
  <2>1. CASE (\E ok \in BOOLEAN : PreflightFinish(ok)) \/ CacheMediaDone
    BY Zenon, <2>1, OperationsKept DEF PreflightFinish, CacheMediaDone
  <2>2. CASE \/ \E ok \in BOOLEAN : CancelCleanup(ok)
             \/ \E ok, spawned \in BOOLEAN : Validate(ok, spawned)
    <3>1. ClientHoldsJob
      BY Zenon, <2>2 DEF CancelCleanup, Validate, ClientHoldsJob
    <3>2. QED
      BY <3>1, NobodyBusy, NothingToStop
  <2>3. QED
    BY Zenon, <2>1, <2>2 DEF Serve
<1>4. QED
  BY <1>1, <1>2, <1>3, NothingInstalled, CatalogKept DEF Honours

LEMMA SurroundingsHonour == ASSUME IInv, Surroundings PROVE Honours
<1>1. CASE Restart
  <2>1. \A a \in Apps : operations'[a].state = "none"
    BY <1>1 DEF Restart, NoOperation
  <2>2. client'.step # "validate"
    BY <1>1 DEF Restart, IdleClient
  <2>3. catalog' >= catalog
    BY <1>1 DEF Restart, IInv
  <2>4. QED
    BY <2>1, <2>2, <2>3, NothingInstalled DEF Honours, StopIsHonoured
<1>2. CASE \/ \E spawned \in BOOLEAN : StartAutoUpdateCheck(spawned)
           \/ CheckDue
           \/ \E a \in Apps : Uninstall(a)
  BY <1>2, QuietHonours DEF StartAutoUpdateCheck, CheckDue, Uninstall
<1>3. QED
  BY <1>1, <1>2 DEF Surroundings

LEMMA WorkHonours == ASSUME IInv, NEW i \in Slots, Work(i) PROVE Honours
<1>1. CASE PublishCatalog(i)
  <2>1. threads[i].step = "publish"
    BY Zenon, <1>1 DEF PublishCatalog, At
  <2>2. StopIsHonoured
    BY Zenon, <2>1, NotInstalling, NothingToStop DEF InstallSteps
  <2>3. catalog' >= catalog
    BY Zenon, <1>1, <2>1 DEF PublishCatalog, IInv, ThreadSound
  <2>4. QED
    BY Zenon, <1>1, <2>2, <2>3, NothingInstalled DEF Honours, PublishCatalog
<1>2. CASE InsertCandidates(i)
  <2>1. threads[i].step = "insert"
    BY Zenon, <1>2 DEF InsertCandidates, At
  <2>2. StopIsHonoured
    BY Zenon, <2>1, NotInstalling, NothingToStop DEF InstallSteps
  <2>3. QED
    BY Zenon, <1>2, <2>2, NothingInstalled, CatalogKept DEF Honours, InsertCandidates
<1>3. CASE \/ OpenPackage(i) \/ BeginInstallHandoff(i)
           \/ \E content \in {"prefix", "full", "bad"} : Transfer(i, content)
  <2>1. threads[i].step \in InstallSteps
    BY Zenon, <1>3 DEF OpenPackage, BeginInstallHandoff, Transfer, At, InstallSteps
  <2>2. PICK state, step : Proceed(i, state, step)
    BY <1>3 DEF OpenPackage, BeginInstallHandoff, Transfer
  <2>3. QED
    BY Zenon, <2>1, <2>2, ProceedHonours
<1>4. CASE \/ \E s \in CatalogSequences : Fetch(i, s)
           \/ \E outcome \in {"ok", "failed", "unsynced"} : CommitCatalogCache(i, outcome)
           \/ SelectCandidates(i) \/ GiveUp(i) \/ DownloadFails(i)
           \/ \E ok \in BOOLEAN : VerifyPackage(i, ok) \/ StagePackage(i, ok) \/ DiscardPackage(i, ok)
  <2>1. WorkOnly
    BY Zenon, <1>4 DEF Fetch, CommitCatalogCache, SelectCandidates, GiveUp, DownloadFails,
                VerifyPackage, StagePackage, DiscardPackage
  <2>2. QED
    BY <2>1, QuietHonours DEF WorkOnly
<1>5. CASE \/ \E answer \in {"installed", "lost", "refused"} : InstallPackage(i, answer)
           \/ ReleaseJob(i)
  BY <1>5, QuietHonours DEF InstallPackage, ReleaseJob
<1>6. QED
  BY <1>1, <1>2, <1>3, <1>4, <1>5, FinishHonours DEF Work

LEMMA NextHonours == IInv /\ Next => Honours
BY RequestHonours, ServeHonours, SurroundingsHonour, WorkHonours DEF Next

\* For any clients, Catalogs and timing, no step of cp0-stored loses an
\* accepted pause or cancel, and an accepted installation is of the releases
\* that its client was shown in this run of the service.
THEOREM RequestsAreHonoured == Spec => RequestsHonoured
<1>1. IInv /\ [Next]_vars => [StopIsHonoured /\ InstallsWhatWasShown]_vars
  BY NextHonours DEF Honours
<1>2. QED
  BY <1>1, AlwaysIInv, PTL DEF Spec, RequestsHonoured

\* The Catalog in memory never goes back, whatever the store serves, wherever
\* a refresh fails and whenever the service restarts.
THEOREM CatalogIsNeverRolledBack == Spec => CatalogNeverGoesBack
<1>1. IInv /\ [Next]_vars => [catalog' >= catalog]_vars
  BY NextHonours DEF Honours
<1>2. QED
  BY <1>1, AlwaysIInv, PTL DEF Spec, CatalogNeverGoesBack
=============================================================================
