----------------------------- MODULE StoreCaches -----------------------------
(***************************************************************************)
(* What cp0-stored keeps on disk beside its queue: the signed Catalog with *)
(* its shards, and the media the Catalog names.  A job works on one of the *)
(* two at a time, and each has its own variables and next-state relation.  *)
(***************************************************************************)
EXTENDS Integers, Sequences, FiniteSets, SequencesExt

------------------------------------------------------------------------------
(***************************************************************************)
(* How cp0-stored takes over a signed Catalog: the root document is        *)
(* fetched, then, when it is an index, its shards one at a time, each from *)
(* a server that may by then hold another publication; the set is verified *)
(* (cp0-store-protocol), written beside the old one and only then used.    *)
(* Power may fail between any two steps, and the next start must find a    *)
(* Catalog it can load, no older than the one it last used.                *)
(*                                                                         *)
(* A signature is abstracted: Documents holds the roots the trusted key    *)
(* has signed, well formed or not, and a shard's bytes stand for           *)
(* themselves, so that a SHA-256 is the content it names.                  *)
(***************************************************************************)

CONSTANTS
    Documents,   \* the root documents a server may answer with
    Category,    \* the category of every application; the applications are 1..n
    Categories,  \* StoreCategory::ALL, in order
    MaxCatalogFaults,   \* bound: failed writes, renames and syncs
    MaxCrashes   \* bound: power losses

VARIABLES
    up,        \* "up", "down" or "failed": StoreService::new returned an error
    catalog,   \* state.catalog: at most one document, as a sequence
    job,       \* refresh_now, under active_job: where it is and what it holds
    disk,      \* what has certainly reached the flash
    pending,   \* the renames that have not, in order
    shown,     \* the document last used, over all restarts
    faults, crashes

catalogVars == <<up, catalog, job, disk, pending, shown, faults, crashes>>

Sequences == {doc.sequence : doc \in Documents}

CacheConstants ==
    /\ IsFiniteSet(Documents) /\ Sequences \subseteq Nat \ {0}
    /\ \A doc \in Documents :
          DOMAIN doc = IF doc.sharded
                       THEN {"sharded", "sequence", "shards", "total", "categories", "featured"}
                       ELSE {"sharded", "sequence", "apps", "featured"}
    /\ {Category[a] : a \in DOMAIN Category} \subseteq Range(Categories)
    /\ MaxCatalogFaults \in Nat /\ MaxCrashes \in Nat

-----------------------------------------------------------------------------
(***************************************************************************)
(* cp0-store-protocol: what a signed document must satisfy.                *)
(***************************************************************************)

\* validate: the application the editorial features is listed (0: no editorial).
EditorialValid(featured, apps) == featured = 0 \/ featured \in apps

Ascending(ids) == \A i \in 1..(Len(ids) - 1) : ids[i] < ids[i + 1]

\* Catalog::validate.
Catalog_validate(doc) == Ascending(doc.apps) /\ EditorialValid(doc.featured, Range(doc.apps))

SumOf(S, f(_)) == FoldSeq(LAMBDA e, total : total + f(e), 0, S)

\* CatalogIndex::validate: the descriptors are in order and disjoint, and both
\* they and the categories add up to the total.
CatalogIndex_validate(doc) ==
    LET shards == doc.shards
        categories == doc.categories
        Place(c) == CHOOSE i \in DOMAIN Categories : Categories[i] = c
    IN /\ doc.total > 0 /\ shards # <<>>
       /\ \A i \in DOMAIN shards :
             /\ shards[i].count > 0 /\ shards[i].first <= shards[i].last
             /\ i > 1 => shards[i - 1].last < shards[i].first
       /\ SumOf(shards, LAMBDA s : s.count) = doc.total
       /\ Ascending([i \in DOMAIN categories |-> Place(categories[i].category)])
       /\ \A i \in DOMAIN categories :
             /\ categories[i].count > 0 /\ categories[i].shards # <<>>
             /\ Ascending(categories[i].shards)
             /\ Range(categories[i].shards) \subseteq DOMAIN shards
       /\ SumOf(categories, LAMBDA c : c.count) = doc.total

\* decode_signed_catalog_document with verify_catalog or verify_catalog_index.
RootValid(doc) == IF doc.sharded THEN CatalogIndex_validate(doc) ELSE Catalog_validate(doc)

\* CatalogShard::validate: a shard's own applications.
CatalogShard_validate(apps) == apps # <<>> /\ Ascending(apps)

\* The category index the verified shards imply.
ExpectedCategories(bodies) ==
    LET Members(c, i) == {j \in DOMAIN bodies[i] : Category[bodies[i][j]] = c}
        In(c) == {i \in DOMAIN bodies : Members(c, i) # {}}
        Entry(c) == [category |-> c,
                     count |-> SumOf(bodies, LAMBDA b :
                                   Cardinality({j \in DOMAIN b : Category[b[j]] = c})),
                     shards |-> SetToSortSeq(In(c), <)]
    IN [k \in 1..Len(SelectSeq(Categories, LAMBDA c : In(c) # {})) |->
            Entry(SelectSeq(Categories, LAMBDA c : In(c) # {})[k])]

\* verify_catalog_shard_set.
verify_catalog_shard_set(doc, bodies) ==
    LET all == FlattenSeq(bodies)
    IN /\ Len(bodies) = Len(doc.shards)
       /\ \A i \in DOMAIN bodies :
             LET shard == doc.shards[i]
                 body == bodies[i]
             IN /\ body = shard.body                \* length and SHA-256
                /\ CatalogShard_validate(body)
                /\ Len(body) = shard.count
                /\ body[1] = shard.first /\ Last(body) = shard.last
       /\ Ascending(all)
       /\ Len(all) = doc.total
       /\ doc.categories = ExpectedCategories(bodies)
       /\ EditorialValid(doc.featured, Range(all))

-----------------------------------------------------------------------------
(***************************************************************************)
(* The flash.  A file is synced before it is renamed, so only renames can  *)
(* be lost; the file system keeps their order, and syncing a directory     *)
(* makes every earlier one last.                                           *)
(***************************************************************************)
NoDisk == [root |-> <<>>, shards |-> [s \in Sequences |-> {}]]

Apply(d, op) ==
    IF op.what = "root"
    THEN [d EXCEPT !.root = <<op.doc>>]
    ELSE [d EXCEPT !.shards[op.doc.sequence] = {op.bodies}]

Surviving(n) == FoldLeft(Apply, disk, SubSeq(pending, 1, n))

\* What the running service sees.
Visible == Surviving(Len(pending))

CatalogIdle == [at |-> "idle", doc |-> <<>>, got |-> <<>>]

CatalogTypeOK ==
    /\ up \in {"up", "down", "failed"}
    /\ Len(catalog) <= 1 /\ Range(catalog) \subseteq Documents
    /\ job.at \in {"idle", "shards", "verify", "check", "commit", "stage", "rename", "base",
                   "root", "sync", "publish"}
    /\ job.at = "idle" <=> job = CatalogIdle
    /\ Range(disk.root) \cup Range(shown) \cup Range(job.doc) \subseteq Documents
    /\ \A i \in DOMAIN pending : pending[i].what \in {"root", "shards"}
    /\ faults \in 0..MaxCatalogFaults /\ crashes \in 0..MaxCrashes

CatalogInit ==
    /\ up = "up" /\ catalog = <<>> /\ job = CatalogIdle /\ disk = NoDisk /\ pending = <<>>
    /\ shown = <<>> /\ faults = 0 /\ crashes = 0

At(step) == up = "up" /\ job.at = step

Doc == job.doc[1]

Goto(step) == job' = [job EXCEPT !.at = step]

\* Every error ends refresh_now; release_job lets the next one in.
GiveUp == job' = CatalogIdle

CatalogFault == faults < MaxCatalogFaults /\ faults' = faults + 1

\* refresh_now: fetch_catalog, the decoding and the verification of the root.
FetchCatalog(doc) ==
    /\ At("idle")
    /\ RootValid(doc)
    /\ job' = [at |-> IF doc.sharded THEN "shards" ELSE "check", doc |-> <<doc>>, got |-> <<>>]
    /\ UNCHANGED <<up, catalog, disk, pending, shown, faults, crashes>>

\* load_remote_trusted_catalog asks for the shards in turn; the answer may be
\* the body another publication has at the same place.
Answers(i) ==
    {doc.shards[i].body : doc \in {d \in Documents : d.sharded /\ i \in DOMAIN d.shards}}

FetchShard ==
    /\ At("shards")
    /\ \E body \in Answers(Len(job.got) + 1) :
          job' = [job EXCEPT !.got = Append(@, body),
                             !.at = IF Len(job.got) + 1 = Len(Doc.shards) THEN "verify" ELSE @]
    /\ UNCHANGED <<up, catalog, disk, pending, shown, faults, crashes>>

\* fetch_catalog_shard answers an error.
FetchFails ==
    /\ At("shards") /\ GiveUp
    /\ UNCHANGED <<up, catalog, disk, pending, shown, faults, crashes>>

\* trusted_indexed_catalog.
TrustShards ==
    /\ At("verify")
    /\ IF verify_catalog_shard_set(Doc, job.got) THEN Goto("check") ELSE GiveUp
    /\ UNCHANGED <<up, catalog, disk, pending, shown, faults, crashes>>

\* The rollback and reuse tests of refresh_now.
AcceptsSequence(doc) ==
    \A i \in DOMAIN catalog :
        /\ doc.sequence >= catalog[i].sequence
        /\ doc.sequence = catalog[i].sequence => doc = catalog[i]

\* The validity window, the sequence, and the branch of commit_catalog_cache;
\* inside: the window includes the current time.
CheckCatalog(inside) ==
    /\ At("check")
    /\ IF inside /\ AcceptsSequence(Doc)
       THEN Goto(IF Doc.sharded THEN "commit" ELSE "root")
       ELSE GiveUp
    /\ UNCHANGED <<up, catalog, disk, pending, shown, faults, crashes>>

\* verify_cached_catalog_shards: a directory left by an earlier attempt is
\* used only when it holds exactly the shards just verified.
Fault_verify_cached_catalog_shards(directory, bodies) == TRUE
verify_cached_catalog_shards(directory, bodies) == directory = {bodies}

CommitShards ==
    /\ At("commit")
    /\ LET directory == Visible.shards[Doc.sequence]
       IN IF directory = {}
          THEN Goto("stage")
          ELSE IF verify_cached_catalog_shards(directory, job.got) THEN Goto("root") ELSE GiveUp
    /\ UNCHANGED <<up, catalog, disk, pending, shown, faults, crashes>>

\* The staging directory is filled and synced; on an error it is removed.
StageShards(ok) ==
    /\ At("stage")
    /\ IF ok THEN Goto("rename") /\ UNCHANGED faults ELSE GiveUp /\ CatalogFault
    /\ UNCHANGED <<up, catalog, disk, pending, shown, crashes>>

RenameShards(ok) ==
    /\ At("rename")
    /\ IF ok
       THEN /\ pending' = Append(pending, [what |-> "shards", doc |-> Doc, bodies |-> job.got])
            /\ Goto("base") /\ UNCHANGED faults
       ELSE GiveUp /\ CatalogFault /\ UNCHANGED pending
    /\ UNCHANGED <<up, catalog, disk, shown, crashes>>

Flush == disk' = Visible /\ pending' = <<>>

\* The sync of catalog-shards/, after which what was written is read back.
SyncShards(ok) ==
    /\ At("base")
    /\ IF ok
       THEN /\ Flush /\ UNCHANGED faults
            /\ IF verify_cached_catalog_shards(Visible.shards[Doc.sequence], job.got)
               THEN Goto("root") ELSE GiveUp
       ELSE GiveUp /\ CatalogFault /\ UNCHANGED <<disk, pending>>
    /\ UNCHANGED <<up, catalog, shown, crashes>>

\* atomic_write of catalog.json, up to its rename.
RenameRoot(ok) ==
    /\ At("root")
    /\ IF ok
       THEN /\ pending' = Append(pending, [what |-> "root", doc |-> Doc, bodies |-> <<>>])
            /\ Goto("sync") /\ UNCHANGED faults
       ELSE GiveUp /\ CatalogFault /\ UNCHANGED pending
    /\ UNCHANGED <<up, catalog, disk, shown, crashes>>

\* The sync of the cache directory.  When it fails the new file stays.
SyncRoot(ok) ==
    /\ At("sync")
    /\ IF ok
       THEN Flush /\ Goto("publish") /\ UNCHANGED faults
       ELSE GiveUp /\ CatalogFault /\ UNCHANGED <<disk, pending>>
    /\ UNCHANGED <<up, catalog, shown, crashes>>

\* state.catalog = Some(catalog).
PublishCatalog ==
    /\ At("publish")
    /\ catalog' = job.doc /\ shown' = job.doc
    /\ GiveUp
    /\ UNCHANGED <<up, disk, pending, faults, crashes>>

\* Power fails: the renames that were not synced survive up to some point.
CatalogPowerLoss(n) ==
    /\ up = "up" /\ crashes < MaxCrashes
    /\ disk' = Surviving(n) /\ pending' = <<>>
    /\ up' = "down" /\ catalog' = <<>> /\ job' = CatalogIdle
    /\ crashes' = crashes + 1
    /\ UNCHANGED <<shown, faults>>

\* load_cached_trusted_catalog.
Loads(d) ==
    LET doc == d.root[1]
    IN /\ RootValid(doc)
       /\ doc.sharded => \E bodies \in d.shards[doc.sequence] :
                             verify_catalog_shard_set(doc, bodies)

\* StoreService::new: no cached Catalog is a fresh start, a Catalog that does
\* not load is an error the service does not survive.
CatalogStart ==
    /\ up = "down"
    /\ IF disk.root = <<>> \/ Loads(disk)
       THEN /\ up' = "up" /\ catalog' = disk.root
            /\ shown' = IF disk.root = <<>> THEN shown ELSE disk.root
       ELSE up' = "failed" /\ UNCHANGED <<catalog, shown>>
    /\ UNCHANGED <<job, disk, pending, faults, crashes>>

CatalogNext ==
    \/ \E doc \in Documents : FetchCatalog(doc)
    \/ FetchShard \/ FetchFails \/ TrustShards \/ CommitShards \/ PublishCatalog \/ CatalogStart
    \/ \E inside \in BOOLEAN : CheckCatalog(inside)
    \/ \E ok \in BOOLEAN : \/ StageShards(ok) \/ RenameShards(ok) \/ SyncShards(ok)
                           \/ RenameRoot(ok) \/ SyncRoot(ok)
    \/ \E n \in 0..Len(pending) : CatalogPowerLoss(n)

CatalogSpec == CatalogInit /\ [][CatalogNext]_catalogVars

-----------------------------------------------------------------------------
\* A start never fails on what the service itself has written: wherever the
\* power went, the root that survived has exactly its own shards beside it.
AlwaysStarts == up # "failed"

\* What would be loaded at this moment is loadable, for every point the power
\* may fail at.
SurvivesPowerLoss ==
    \A n \in 0..Len(pending) : Surviving(n).root = <<>> \/ Loads(Surviving(n))

\* The Catalog in use is never older than one used before, also after a power
\* loss, and it is on the flash already.
NeverOlder ==
    /\ up = "up" /\ shown # <<>> => catalog # <<>>
    /\ \A i \in DOMAIN catalog, j \in DOMAIN shown : catalog[i].sequence >= shown[j].sequence
    /\ shown # <<>> => disk.root # <<>> /\ disk.root[1].sequence >= shown[1].sequence

\* The Catalog in use is one publication: every application once and in order,
\* the category index and the feature about those applications only, although
\* the server changed publications between two answers.
OnePublication ==
    \A i \in DOMAIN catalog :
        catalog[i].sharded =>
            LET doc == catalog[i]
                apps == UNION {Range(doc.shards[k].body) : k \in DOMAIN doc.shards}
                In(c) == {a \in apps : Category[a] = c}
            IN /\ Cardinality(apps) = doc.total
               /\ {doc.categories[k].category : k \in DOMAIN doc.categories}
                     = {Category[a] : a \in apps}
               /\ \A k \in DOMAIN doc.categories :
                     doc.categories[k].count = Cardinality(In(doc.categories[k].category))
               /\ doc.featured # 0 => doc.featured \in apps
               /\ Visible.root # <<>> /\ (Visible.root = <<doc>> =>
                     Visible.shards[doc.sequence]
                        = {[k \in DOMAIN doc.shards |-> doc.shards[k].body]})

\* The Store agent can always start from its cache, a power loss keeps the
\* Catalog that was in use or its successor, the sequence never goes back, and
\* everything shown is of one publication.
CatalogSound == CatalogTypeOK /\ AlwaysStarts /\ SurvivesPowerLoss /\ NeverOlder /\ OnePublication

------------------------------------------------------------------------------
(***************************************************************************)
(* The media cache of cp0-stored: icons, detail documents and screenshots, *)
(* each kind in a directory of its own with a budget.  One job at a time   *)
(* (active_job) reads, evicts, fetches and writes; power may fail at any   *)
(* step and leave a temporary file, and a file may go bad on the flash.    *)
(*                                                                         *)
(* A directory is the sequence of its files by modification time, oldest   *)
(* first.  The content of a resource is its digest.                        *)
(***************************************************************************)

CONSTANTS
    Editions,   \* the Catalogs in order: [icon, details, shots] of every application
    Size,       \* the true length of every digest
    Budget,     \* bytes per kind
    MaxMediaFaults,  \* bound: failed writes, damaged files and power losses
    MaxJobs     \* bound: jobs started

VARIABLES
    media_up,  \* the service runs
    edition,   \* state.catalog: an index of Editions
    media_job, \* the holder of active_job
    cache,     \* the files of every kind
    complete,  \* the edition whose icons were last prefetched to the end, or 0
    damaged,   \* digests whose file has gone bad at some time
    media_faults, jobs

mediaVars == <<media_up, edition, media_job, cache, complete, damaged, media_faults, jobs>>

Kinds == {"icon", "details", "screenshot"}

Digests == DOMAIN Size

\* What a job asks the cache for: signed digest and length.
Resource(kind, sha256, bytes) == [kind |-> kind, sha256 |-> sha256, bytes |-> bytes]

MediaConstants ==
    /\ \A e \in DOMAIN Editions, a \in DOMAIN Editions[1] :
          LET app == Editions[e][a]
          IN \A r \in {app.icon, app.details} \cup Range(app.shots) :
                r.kind \in Kinds /\ r.sha256 \in Digests /\ r.bytes \in Nat \ {0}
    /\ Budget \in [Kinds -> Nat] /\ MaxMediaFaults \in Nat /\ MaxJobs \in Nat

-----------------------------------------------------------------------------
\* A file: its name is a digest, or a temporary name ("" stands for it).
File(name, size, good) == [name |-> name, size |-> size, good |-> good]

Names(files) == {files[i].name : i \in DOMAIN files}

Without(files, name) == SelectSeq(files, LAMBDA f : f.name # name)

Used(files) == FoldSeq(LAMBDA f, total : total + f.size, 0, files)

\* read_cached_resource with verify_resource_bytes: the file is there, has the
\* signed length and the signed content.
read_cached_resource(files, r) ==
    \E i \in DOMAIN files : files[i].name = r.sha256 /\ files[i].size = r.bytes /\ files[i].good

\* set_modified: a screenshot that is used becomes the newest.
Touch(files, r) ==
    IF r.kind # "screenshot" THEN files
    ELSE Append(Without(files, r.sha256), File(r.sha256, r.bytes, TRUE))

\* enforce_cache_capacity: the oldest files go until the rest and the required
\* bytes are within the budget.
enforce_cache_capacity(files, budget, required) ==
    LET Rest(i) == SubSeq(files, i, Len(files))
        Enough(i) == Used(Rest(i)) + required <= budget
        first == CHOOSE i \in 1..(Len(files) + 1) : Enough(i) /\ \A j \in 1..(i - 1) : ~Enough(j)
    IN Rest(first)

\* discard_invalid_cached_resource.
Discard(files, resources) ==
    SelectSeq(files, LAMBDA f :
        \A r \in {q \in resources : q.sha256 = f.name} : read_cached_resource(<<f>>, r))

Icons(e) == {Editions[e][a].icon : a \in DOMAIN Editions[e]}
Details(e) == {Editions[e][a].details : a \in DOMAIN Editions[e]}

\* Icons and detail documents stay when the Catalog names them.
prune_cache_directory(files, resources) ==
    SelectSeq(files, LAMBDA f : f.name \in {r.sha256 : r \in resources})

\* A screenshot stays when its name is a digest.
prune_unrecognized_cache_files(files) == SelectSeq(files, LAMBDA f : f.name # "")

\* reconcile_media_for_catalog: the names, then the budgets, then the contents.
reconcile_media_for_catalog(e, files) ==
    LET Fit(k, kept) == enforce_cache_capacity(kept, Budget[k], 0)
        Named(k, resources) ==
            Discard(Fit(k, prune_cache_directory(files[k], resources)), resources)
    IN [k \in Kinds |->
          CASE k = "icon" -> Named(k, Icons(e))
            [] k = "details" -> Named(k, Details(e))
            [] k = "screenshot" -> Fit(k, prune_unrecognized_cache_files(files[k]))]

\* validate_resource_budget: one length per digest, and together within budget.
validate_resource_budget(resources, budget) ==
    /\ \A q, r \in resources : q.sha256 = r.sha256 => q.bytes = r.bytes
    /\ FoldSeq(LAMBDA r, total : total + r.bytes, 0, SetToSeq(resources)) <= budget

-----------------------------------------------------------------------------
\* A job: what is still to be cached, in order; its step; why it runs.
MediaIdle == [at |-> "idle", todo |-> <<>>, purpose |-> "none"]

Jobs == {"prefetch", "details", "media"}

MediaTypeOK ==
    /\ media_up \in BOOLEAN /\ edition \in DOMAIN Editions
    /\ media_job.at \in {"idle", "reconcile", "lookup", "fetch", "write", "serve"}
    /\ media_job.purpose \in Jobs \cup {"none"}
    /\ \A k \in Kinds :
          /\ \A i \in DOMAIN cache[k] :
                cache[k][i].name \in Digests \cup {""} /\ cache[k][i].size \in Nat
          /\ IsInjective([i \in DOMAIN Without(cache[k], "") |-> Without(cache[k], "")[i].name])
    /\ complete \in {0} \cup DOMAIN Editions /\ damaged \subseteq Digests
    /\ media_faults \in 0..MaxMediaFaults /\ jobs \in 0..MaxJobs

MediaInit ==
    /\ media_up = TRUE /\ edition = 1 /\ media_job = MediaIdle
    /\ cache = [k \in Kinds |-> <<>>]
    /\ complete = 0 /\ damaged = {} /\ media_faults = 0 /\ jobs = 0

\* reserve_job: StoreServiceError::Busy while another job runs.
reserve_job == media_up /\ media_job = MediaIdle /\ jobs < MaxJobs /\ jobs' = jobs + 1

MediaFault == media_faults < MaxMediaFaults /\ media_faults' = media_faults + 1

\* refresh_now has committed the next Catalog and goes on to its icons.
RefreshCatalog ==
    /\ reserve_job
    /\ edition < Len(Editions)
    /\ edition' = edition + 1
    /\ media_job' = [at |-> "reconcile", todo |-> <<>>, purpose |-> "prefetch"]
    /\ UNCHANGED <<media_up, cache, complete, damaged, media_faults>>

\* A refresh that finds the Catalog it already has prefetches all the same.
RefreshUnchanged ==
    /\ reserve_job
    /\ media_job' = [at |-> "reconcile", todo |-> <<>>, purpose |-> "prefetch"]
    /\ UNCHANGED <<media_up, edition, cache, complete, damaged, media_faults>>

\* prefetch_catalog_icons, up to its loop.
Prefetch(ok) ==
    /\ media_up /\ media_job.at = "reconcile"
    /\ IF ok
       THEN /\ cache' = reconcile_media_for_catalog(edition, cache)
            /\ UNCHANGED media_faults
            /\ media_job' = IF validate_resource_budget(Icons(edition), Budget["icon"])
                      THEN [media_job EXCEPT !.at = "lookup",
                                       !.todo = [a \in DOMAIN Editions[edition] |->
                                                    Editions[edition][a].icon]]
                      ELSE MediaIdle
       ELSE MediaFault /\ media_job' = MediaIdle /\ UNCHANGED cache
    /\ UNCHANGED <<media_up, edition, complete, damaged, jobs>>

\* details_response, cache_app_details.
DetailsRequest(a) ==
    /\ reserve_job
    /\ media_job' = [at |-> "lookup", todo |-> <<Editions[edition][a].details>>, purpose |-> "details"]
    /\ UNCHANGED <<media_up, edition, cache, complete, damaged, media_faults>>

\* media_response for an icon, and for a screenshot the details name.
MediaRequest(a) ==
    /\ reserve_job
    /\ LET app == Editions[edition][a]
       IN \E todo \in {<<app.icon>>} \cup {<<app.details, s>> : s \in Range(app.shots)} :
             media_job' = [at |-> "lookup", todo |-> todo, purpose |-> "media"]
    /\ UNCHANGED <<media_up, edition, cache, complete, damaged, media_faults>>

\* The resource is at hand: the next one, or the end of the job.
Advance ==
    IF Len(media_job.todo) > 1
    THEN media_job' = [media_job EXCEPT !.at = "lookup", !.todo = Tail(@)] /\ UNCHANGED complete
    ELSE /\ media_job' = IF media_job.purpose = "media"
                         THEN [media_job EXCEPT !.at = "serve"] ELSE MediaIdle
         /\ complete' = IF media_job.purpose = "prefetch" THEN edition ELSE complete

\* cache_resource, up to the fetch: a good file is used, a bad one removed, and
\* room is made before anything is fetched.
Lookup ==
    /\ media_up /\ media_job.at = "lookup"
    /\ LET r == Head(media_job.todo)
           files == cache[r.kind]
       IN IF read_cached_resource(files, r)
          THEN cache' = [cache EXCEPT ![r.kind] = Touch(files, r)] /\ Advance
          ELSE LET rest == Without(files, r.sha256)
               IN IF r.bytes > Budget[r.kind]
                  THEN cache' = [cache EXCEPT ![r.kind] = rest] /\ media_job' = MediaIdle
                       /\ UNCHANGED complete
                  ELSE /\ cache' = [cache EXCEPT ![r.kind] =
                                       enforce_cache_capacity(rest, Budget[r.kind], r.bytes)]
                       /\ media_job' = [media_job EXCEPT !.at = "fetch"]
                       /\ UNCHANGED complete
    /\ UNCHANGED <<media_up, edition, damaged, media_faults, jobs>>

\* fetch_resource and verify_resource_bytes: the named bytes, or the job ends.
FetchResource(answered) ==
    /\ media_up /\ media_job.at = "fetch"
    /\ media_job' = IF answered /\ Size[Head(media_job.todo).sha256] = Head(media_job.todo).bytes
              THEN [media_job EXCEPT !.at = "write"] ELSE MediaIdle
    /\ UNCHANGED <<media_up, edition, cache, complete, damaged, media_faults, jobs>>

\* atomic_write_media.  An error removes the temporary file; one from the last
\* sync comes after the rename.
WriteMedia(outcome) ==
    /\ media_up /\ media_job.at = "write"
    /\ LET r == Head(media_job.todo)
       IN cache' = IF outcome = "failed" THEN cache
                   ELSE [cache EXCEPT ![r.kind] =
                            Append(Without(@, r.sha256), File(r.sha256, r.bytes, TRUE))]
    /\ IF outcome = "written"
       THEN Advance /\ UNCHANGED media_faults
       ELSE MediaFault /\ media_job' = MediaIdle /\ UNCHANGED complete
    /\ UNCHANGED <<media_up, edition, damaged, jobs>>

\* cache_image_descriptor opens what was cached, and release_job.
Serve ==
    /\ media_up /\ media_job.at = "serve"
    /\ media_job' = MediaIdle
    /\ UNCHANGED <<media_up, edition, cache, complete, damaged, media_faults, jobs>>

\* The flash: a file goes bad.
GoesBad(k, i) ==
    /\ MediaFault /\ media_job = MediaIdle /\ cache[k][i].good /\ cache[k][i].name # ""
    /\ cache' = [cache EXCEPT ![k][i].good = FALSE]
    /\ damaged' = damaged \cup {cache[k][i].name}
    /\ UNCHANGED <<media_up, edition, media_job, complete, jobs>>

\* Power fails; a write that was going on may leave its temporary file, cut at
\* any length.
MediaPowerLoss ==
    /\ media_up /\ MediaFault
    /\ media_up' = FALSE /\ media_job' = MediaIdle
    /\ \/ UNCHANGED cache
       \/ /\ media_job.at = "write"
          /\ LET r == Head(media_job.todo)
             IN \E n \in 0..r.bytes :
                   cache' = [cache EXCEPT ![r.kind] = Append(@, File("", n, FALSE))]
    /\ UNCHANGED <<edition, complete, damaged, jobs>>

\* StoreService::new: reconcile_cached_media, whose error is only reported; a
\* temporary file then still takes room, so nothing is said of the icons until
\* they are prefetched again.
MediaStart(ok) ==
    /\ ~media_up /\ media_up' = TRUE
    /\ IF ok
       THEN /\ cache' = reconcile_media_for_catalog(edition, cache)
            /\ UNCHANGED <<complete, media_faults>>
       ELSE MediaFault /\ complete' = 0 /\ UNCHANGED cache
    /\ UNCHANGED <<edition, media_job, damaged, jobs>>

MediaNext ==
    \/ RefreshCatalog \/ RefreshUnchanged \/ Lookup \/ Serve \/ MediaPowerLoss
    \/ \E a \in DOMAIN Editions[edition] : DetailsRequest(a) \/ MediaRequest(a)
    \/ \E ok \in BOOLEAN : Prefetch(ok) \/ FetchResource(ok) \/ MediaStart(ok)
    \/ \E outcome \in {"written", "failed", "unsynced"} : WriteMedia(outcome)
    \/ \E k \in Kinds : \E i \in DOMAIN cache[k] : GoesBad(k, i)

MediaSpec == MediaInit /\ [][MediaNext]_mediaVars

-----------------------------------------------------------------------------
\* A directory never outgrows its budget, with what a write in progress will
\* add and with the temporary files power losses have left.
WithinBudget ==
    \A k \in Kinds :
        Used(cache[k]) + (IF media_job.at \in {"fetch", "write"} /\ Head(media_job.todo).kind = k
                          THEN Head(media_job.todo).bytes ELSE 0) <= Budget[k]

\* Once the icons of a Catalog are complete they stay while it is in use: no
\* request for anything else makes room at their expense.
IconsStay ==
    complete = edition =>
        {r.sha256 : r \in Icons(edition)} \ damaged \subseteq Names(cache["icon"])

\* What is handed to the shell is the signed content.
ServesSignedContent ==
    media_job.at = "serve" =>
        read_cached_resource(cache[Head(media_job.todo).kind], Head(media_job.todo))

\* The media cache never outgrows its budget, keeps the icons of the Catalog in
\* use once they are complete, and serves only the content that was signed.
MediaSound == MediaTypeOK /\ WithinBudget /\ IconsStay /\ ServesSignedContent
==============================================================================
