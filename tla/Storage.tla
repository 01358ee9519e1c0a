------------------------------- MODULE Storage -------------------------------
(***************************************************************************)
(* The private storage of the applications and the photo library that appd *)
(* keeps in it.  The daemon is modelled down to its file operations; the   *)
(* library sees it through the ways in which a request can end.  Each has  *)
(* its own variables and next-state relation.                              *)
(***************************************************************************)
EXTENDS Integers, Sequences, FiniteSets, FiniteSetsExt

------------------------------------------------------------------------------
(***************************************************************************)
(* The storage daemon (crates/cp0-storaged): the values of an application  *)
(* in a directory of its own under a quota, and the blobs of the photo     *)
(* library, which arrive in chunks.  The server handles one connection at  *)
(* a time, so a request is one step; the step may end at any of the file   *)
(* operations of the request, because that one fails or because the        *)
(* process or the power goes.  What a value holds is told apart by the     *)
(* number of the request that wrote it.                                    *)
(***************************************************************************)

CONSTANTS
    Directories,    \* applications, the photo library among them
    Library,        \* SYSTEM_PHOTO_LIBRARY_ID
    Keys,
    BlobKeys,       \* the keys of the library that name blobs
    MaxKeys,        \* MAX_STORAGE_KEYS
    Sizes,          \* sizes of values; a chunk has size 1
    BlobBytes,      \* the total_bytes of every blob
    Quota,
    MaxRequests,    \* bound on the requests that write
    None

VARIABLES
    values,     \* directory -> key -> [size, by] or None
    litter,     \* directory -> size -> how many .cp0-tmp- files of it were left behind
    staging,    \* key -> [size, by] of the library's .cp0-blob-<key>, or None
    upload,     \* the blob that appd is sending, None otherwise
    serving,    \* whether initialize has succeeded
    requests,   \* requests that write, so far
    possible    \* directory -> key -> what a client may find, after its answers

storageVars == <<values, litter, staging, upload, serving, requests, possible>>

IsBlob(d, k) == d = Library /\ k \in BlobKeys

\* How a request ends: it is answered with success or with an error, or the
\* process is killed (or the power goes) in the middle of it.
Ends == {"answered", "failed", "killed"}

----------------------------------------------------------------------------
(* inspect_directory                                                       *)

SizeOf(entry) == IF entry = None THEN 0 ELSE entry.size
Stored(d) == MapThenSumSet(LAMBDA k : SizeOf(values[d][k]), Keys)
Staged(d, files) == IF d = Library THEN MapThenSumSet(LAMBDA k : SizeOf(files[k]), BlobKeys) ELSE 0
Littered(d) == MapThenSumSet(LAMBDA s : s * litter[d][s], DOMAIN litter[d])

\* Every file of the directory counts, and an empty one is refused.
UsedBytes(d, files) == Stored(d) + Staged(d, files) + Littered(d)
Inspectable(d, files) ==
    /\ litter[d][0] = 0
    /\ d = Library => \A k \in BlobKeys : files[k] # None => files[k].size > 0
KeyCount(d) == Cardinality({k \in Keys : values[d][k] # None})

\* get, and open_blob_descriptor with the size the caller expects: the bytes
\* that a descriptor gives access to are those of one upload.
get(d, k) == values[d][k]
open_blob_descriptor(k) ==
    IF values[Library][k] # None /\ values[Library][k].size = BlobBytes THEN values[Library][k].by ELSE {}

----------------------------------------------------------------------------
StorageInit ==
    /\ values = [d \in Directories |-> [k \in Keys |-> None]]
    /\ litter = [d \in Directories |-> [s \in 0 .. Max(Sizes) |-> 0]]
    /\ staging = [k \in BlobKeys |-> None]
    /\ upload = None
    /\ serving = FALSE
    /\ requests = 0
    /\ possible = [d \in Directories |-> [k \in Keys |-> {None}]]

cleanup_staging_blobs == [k \in BlobKeys |-> None]

\* initialize: the staging files of the photo library are removed, and only they.
Initialize ==
    /\ ~serving
    /\ staging' = cleanup_staging_blobs
    /\ serving' = TRUE
    /\ UNCHANGED <<values, litter, upload, requests, possible>>

\* The request ends, and with it what the client knows of key k changes.
Ended(d, k, entry, end) ==
    /\ serving' = (end # "killed")
    /\ possible' = [possible EXCEPT ![d][k] = IF end = "answered" THEN {entry} ELSE @ \cup {entry}]

CanPut(d, k, size) ==
    /\ Inspectable(d, staging)
    /\ d # Library /\ values[d][k] = None => KeyCount(d) < MaxKeys
    /\ UsedBytes(d, staging) - SizeOf(values[d][k]) + size <= Quota

\* put: the value is written to a temporary file, which then takes the name
\* of the key.  Before the rename a failure removes the file (or fails to, and
\* the file stays), and a power loss keeps any part of what was written.
Put(d, k, size, end) ==
    LET entry == [size |-> size, by |-> {requests + 1}] IN
    /\ serving /\ upload = None /\ ~IsBlob(d, k)
    /\ CanPut(d, k, size)
    /\ requests' = requests + 1
    /\ \/ values' = [values EXCEPT ![d][k] = entry] /\ UNCHANGED litter
       \/ end = "failed" /\ UNCHANGED <<values, litter>>
       \/ /\ end # "answered"
          /\ \E part \in 0 .. size : litter' = [litter EXCEPT ![d][part] = @ + 1]
          /\ UNCHANGED values
    /\ Ended(d, k, entry, end)
    /\ UNCHANGED <<staging, upload>>

remove_stale_blob(k) == [staging EXCEPT ![k] = None]

\* delete and delete_blob: the file is removed first and the directory
\* inspected afterwards; a blob takes its staging file with it.
Delete(d, k, end) ==
    LET kept == IF IsBlob(d, k) THEN remove_stale_blob(k) ELSE staging IN
    /\ serving /\ upload = None
    /\ values[d][k] # None
    /\ requests' = requests + 1
    /\ \/ /\ values' = [values EXCEPT ![d][k] = None]
          /\ staging' = kept
          /\ end = "answered" => Inspectable(d, kept)
       \/ end = "failed" /\ UNCHANGED <<values, staging>>
    /\ Ended(d, k, None, end)
    /\ UNCHANGED <<litter, upload>>

\* put_blob_chunk at an offset: the first chunk removes a stale staging file
\* and checks the quota for the whole blob, a later one continues a file of
\* exactly its offset, and the last one publishes the blob.
Fault_Accepts(k, offset, files) ==
    IF offset = 0 THEN Inspectable(Library, files) ELSE files[k] # None
Accepts(k, offset, files) ==
    IF offset = 0
    THEN /\ Inspectable(Library, files)
         /\ UsedBytes(Library, files) - SizeOf(values[Library][k]) + BlobBytes <= Quota
    ELSE files[k] # None /\ files[k].size = offset

PutBlobChunk(k, offset, by, end) ==
    LET files == IF offset = 0 THEN remove_stale_blob(k) ELSE staging
        before == IF files[k] = None THEN [size |-> 0, by |-> {}] ELSE files[k]
        after == [size |-> offset + 1, by |-> before.by \cup {by}]
        last == offset + 1 = BlobBytes
    IN
    /\ serving
    /\ Accepts(k, offset, files) \/ end # "answered"
    /\ IF ~Accepts(k, offset, files)
       THEN staging' = files /\ UNCHANGED <<values, possible>> /\ serving' = (end # "killed")
       ELSE \/ /\ end # "answered" \/ ~last
               /\ \E file \in {after} \cup (IF end = "answered" THEN {} ELSE {before}) :
                     staging' = [files EXCEPT ![k] = file]
               /\ UNCHANGED <<values, possible>>
               /\ serving' = (end # "killed")
            \/ /\ last
               /\ staging' = [files EXCEPT ![k] = None]
               /\ values' = [values EXCEPT ![Library][k] = after]
               /\ Ended(Library, k, after, end)
    /\ upload' = IF end = "answered" /\ ~last THEN [key |-> k, sent |-> offset + 1, by |-> by]
                 ELSE None
    /\ UNCHANGED litter

\* appd sends the chunks of a blob in order and gives up at the first error.
BeginBlob(k, end) ==
    /\ upload = None
    /\ PutBlobChunk(k, 0, requests + 1, end)
    /\ requests' = requests + 1

ContinueBlob(end) ==
    /\ upload # None
    /\ PutBlobChunk(upload.key, upload.sent, upload.by, end)
    /\ UNCHANGED requests

\* appd stops while it sends a blob.
ClientStops ==
    /\ upload # None
    /\ upload' = None
    /\ UNCHANGED <<values, litter, staging, serving, requests, possible>>

StorageNext ==
    \/ Initialize
    \/ \E end \in Ends :
          \/ /\ requests < MaxRequests
             /\ \/ \E d \in Directories, k \in Keys :
                      Delete(d, k, end) \/ \E size \in Sizes : Put(d, k, size, end)
                \/ \E k \in BlobKeys : BeginBlob(k, end)
          \/ ContinueBlob(end)
    \/ ClientStops

StorageSpec == StorageInit /\ [][StorageNext]_storageVars

----------------------------------------------------------------------------
(* Properties                                                              *)

Entries == [size : Sizes \cup 0 .. BlobBytes, by : SUBSET (1 .. MaxRequests)]

StorageTypeOK ==
    /\ values \in [Directories -> [Keys -> Entries \cup {None}]]
    /\ litter \in [Directories -> [0 .. Max(Sizes) -> Nat]]
    /\ staging \in [BlobKeys -> Entries \cup {None}]
    /\ serving \in BOOLEAN
    /\ requests \in 0 .. MaxRequests

\* A client finds what its last answered request left, or what a later one
\* without an answer may have left; nothing in between.
AnswersKept == \A d \in Directories, k \in Keys : get(d, k) \in possible[d][k]

\* Values and published blobs stay within the quota, whatever was cut off.
QuotaHeld == \A d \in Directories : Stored(d) <= Quota

\* A published blob is complete and holds the bytes of one upload.
BlobsWhole ==
    \A k \in BlobKeys : values[Library][k] # None =>
        Cardinality(open_blob_descriptor(k)) = 1

\* The storage daemon keeps what it acknowledged, within the quota, at every
\* point where a request can be cut off.
StorageSound == StorageTypeOK /\ AnswersKept /\ QuotaHeld /\ BlobsWhole

------------------------------------------------------------------------------
(***************************************************************************)
(* The shared photo library of appd (crates/cp0-appd/src/photo_library.rs):*)
(* a head record, index pages of ordered photo ids, and the components of  *)
(* each photo, all kept as values of the storage daemon.  One transaction  *)
(* lock covers a whole import or removal, but every store and deletion in  *)
(* it is a request of its own: it can be refused, it can take effect and   *)
(* still be answered with an error (the directory sync after the rename    *)
(* fails, or the answer comes too late), and appd can stop before any of   *)
(* them.                                                                   *)
(* What each component holds is told apart by the number of the import     *)
(* that wrote it.                                                          *)
(***************************************************************************)

CONSTANTS
    PagePhotos,     \* INDEX_PAGE_PHOTOS
    Legacy,         \* the ids of the v1 index the device had, in order
    MaxImports      \* bound on the imports of a behaviour

\* A v1 index fits into page zero (LEGACY_MAX_PHOTOS < INDEX_PAGE_PHOTOS).
LibraryConstants ==
    /\ PagePhotos \in Nat \ {0} /\ MaxImports \in Nat
    /\ Len(Legacy) < PagePhotos
    /\ \A i \in 1 .. Len(Legacy) : Legacy[i] > 0
    /\ \A i, j \in 1 .. Len(Legacy) : i < j => Legacy[i] < Legacy[j]

LastLegacy == IF Legacy = <<>> THEN 0 ELSE Legacy[Len(Legacy)]
Ids == 1 .. LastLegacy + MaxImports
PageNumbers == 0 .. (Len(Legacy) + MaxImports) \div PagePhotos

\* In the order in which delete_photo_storage deletes them; a photo of v1 is
\* kept as chunks, the original and its metadata belong to camera photos.
Components == <<"thumbnail", "original", "metadata", "chunks">>

\* How a request to the storage daemon ends.
Answers == {"done", "refused", "failed after effect"}
Took(answer) == answer # "refused"

VARIABLES
    head,       \* head.v2, None if absent
    pages,      \* index.v2.*: page number -> ids of the slots (0: tombstone), or None
    stored,     \* id -> component -> number of the import that wrote it, None if absent
    op,         \* the import or removal that holds the transaction lock
    imports,    \* imports begun
    saved,      \* id -> the import that was answered with this id, None otherwise
    dropped,    \* ids whose removal was begun
    removed,    \* ids whose removal was answered with success
    misled      \* a head was committed although its store was answered with an error

libraryVars == <<head, pages, stored, op, imports, saved, dropped, removed, misled>>
storage == <<head, pages, stored>>
answers == <<saved, dropped, removed>>

Idle == [pc |-> "idle"]

----------------------------------------------------------------------------
(* Reading the index                                                       *)

Empty == [i \in 1 .. PagePhotos |-> 0]

page_slots(h, n) ==
    IF h.slots <= n * PagePhotos THEN 0
    ELSE IF h.slots - n * PagePhotos < PagePhotos THEN h.slots - n * PagePhotos ELSE PagePhotos

page_count(h) == (h.slots + PagePhotos - 1) \div PagePhotos

canonicalize_page(page, slots) == [i \in 1 .. PagePhotos |-> IF i <= slots THEN page[i] ELSE 0]

Sorted(ids) == \A i, j \in DOMAIN ids : i < j /\ ids[i] # 0 /\ ids[j] # 0 => ids[i] < ids[j]

decode_head(h) == h.active <= h.slots /\ (h.slots = 0 <=> h.last_id = 0)
\* decode_page succeeds on page n; absent pages fail with InvalidIndex.
Loads(n) == n \in PageNumbers /\ pages[n] # None /\ Sorted(pages[n])

\* The ids of the committed slots, in order, tombstones included.
Slots(h) ==
    [k \in 1 .. h.slots |-> pages[(k - 1) \div PagePhotos][((k - 1) % PagePhotos) + 1]]
ActiveIds(h) == {Slots(h)[k] : k \in 1 .. h.slots} \ {0}

\* load_head_for_update reads the head and every committed page, and
\* reconcile_head accepts them.
Reconciles(h) ==
    /\ decode_head(h)
    /\ \A n \in 0 .. page_count(h) - 1 : Loads(n)
    /\ Sorted(Slots(h))
    /\ \A id \in ActiveIds(h) : id <= h.last_id
\* The photos a reader finds: those of the v1 index until there is a head.
Active == IF head = None THEN {Legacy[i] : i \in DOMAIN Legacy}
          ELSE IF Reconciles(head) THEN ActiveIds(head) ELSE {}

\* list_photo_exports wants the counts to agree; {} when it fails.
list_photo_exports ==
    IF head # None /\ (~Reconciles(head) \/ Cardinality(ActiveIds(head)) # head.active) THEN {} ELSE Active

\* camera_original and read_photo_export: a photo with metadata is exported as
\* its original, which must have the digest of the metadata; any other as its
\* frame or, for one of v1, its chunks (load_legacy_photo).
read_photo_export(id) ==
    IF stored[id]["metadata"] # None
    THEN IF stored[id]["original"] = stored[id]["metadata"] THEN stored[id]["original"] ELSE None
    ELSE IF stored[id]["thumbnail"] # None THEN stored[id]["thumbnail"] ELSE stored[id]["chunks"]

Reconciled(h) == [h EXCEPT !.active = Cardinality(ActiveIds(h))]

----------------------------------------------------------------------------
LibraryInit ==
    /\ head = None
    /\ pages = [n \in PageNumbers |-> None]
    /\ stored = [id \in Ids |-> [c \in Range(Components) |->
                    IF c = "chunks" /\ \E i \in DOMAIN Legacy : Legacy[i] = id THEN 0 ELSE None]]
    /\ op = Idle
    /\ imports = 0
    /\ saved = [id \in Ids |-> IF \E i \in DOMAIN Legacy : Legacy[i] = id THEN 0 ELSE None]
    /\ dropped = {} /\ removed = {} /\ misled = FALSE

\* What an import prepares once the head is read: the id, the page and the
\* position of its slot, and the page to go back to.
Import(h, camera, import) ==
    LET n == h.slots \div PagePhotos
        position == h.slots % PagePhotos
        old == IF position = 0 THEN None ELSE canonicalize_page(pages[n], position)
        id == h.last_id + 1
    IN [pc |-> "thumbnail", camera |-> camera, import |-> import, id |-> id, page |-> n,
        old |-> old,
        new |-> [(IF old = None THEN Empty ELSE old) EXCEPT ![position + 1] = id],
        head |-> [active |-> h.active + 1, slots |-> h.slots + 1, last_id |-> id]]

\* What a removal prepares: the page with a tombstone in place of the id.
Removal(h, id) ==
    IF id \notin ActiveIds(h) THEN Idle
    ELSE LET k == CHOOSE k \in 1 .. h.slots : Slots(h)[k] = id
             n == (k - 1) \div PagePhotos
             old == canonicalize_page(pages[n], page_slots(h, n))
         IN [pc |-> "tombstone", id |-> id, page |-> n, old |-> old,
             new |-> [old EXCEPT ![((k - 1) % PagePhotos) + 1] = 0],
             head |-> [h EXCEPT !.active = @ - 1]]

\* The rest of an operation, with the head that load_head_for_update returned.
Planned(request, h) ==
    IF request.kind = "import" THEN Import(h, request.camera, request.import)
    ELSE Removal(h, request.id)

MigratedHead == [active |-> Len(Legacy), slots |-> Len(Legacy), last_id |-> LastLegacy]
MigratedPage == [i \in 1 .. PagePhotos |-> IF i <= Len(Legacy) THEN Legacy[i] ELSE 0]

\* load_head_for_update: with a head, read and reconcile it; without one,
\* migrate the v1 index first.  Reads that fail end the operation unchanged.
Begin(request) ==
    /\ op = Idle
    /\ head # None => Reconciles(head)
    /\ op' = IF head # None THEN Planned(request, Reconciled(head))
             ELSE [pc |-> IF Legacy = <<>> THEN "migrate head" ELSE "migrate page",
                   request |-> request]
    /\ UNCHANGED <<storage, misled>>

ImportFrame(camera) ==
    /\ imports < MaxImports
    /\ Begin([kind |-> "import", camera |-> camera, import |-> imports + 1])
    /\ imports' = imports + 1
    /\ UNCHANGED answers

RemoveFrame(id) ==
    /\ Begin([kind |-> "remove", id |-> id])
    /\ dropped' = dropped \cup ({id} \cap Active)
    /\ UNCHANGED <<imports, saved, removed>>

\* migrate_legacy
MigratePage(answer) ==
    /\ op.pc = "migrate page"
    /\ pages' = IF Took(answer) THEN [pages EXCEPT ![0] = MigratedPage] ELSE pages
    /\ op' = IF answer = "done" THEN [op EXCEPT !.pc = "migrate head"] ELSE Idle
    /\ UNCHANGED <<head, stored, imports, answers, misled>>

MigrateHead(answer) ==
    /\ op.pc = "migrate head"
    /\ head' = IF Took(answer) THEN MigratedHead ELSE head
    /\ misled' = (misled \/ answer = "failed after effect")
    /\ op' = IF answer = "done" THEN Planned(op.request, MigratedHead)
             ELSE IF Legacy = <<>> THEN Idle ELSE [pc |-> "undo migration"]
    /\ UNCHANGED <<pages, stored, imports, answers>>

UndoMigration(answer) ==
    /\ op.pc = "undo migration"
    /\ pages' = IF Took(answer) THEN [pages EXCEPT ![0] = None] ELSE pages
    /\ op' = Idle
    /\ UNCHANGED <<head, stored, imports, answers, misled>>

\* import_frame_with_original
StoreComponent(component, answer) ==
    /\ op.pc = component
    /\ stored' = IF Took(answer) THEN [stored EXCEPT ![op.id][component] = op.import] ELSE stored
    /\ op' = IF answer # "done" THEN [pc |-> "clean up", id |-> op.id, next |-> 1]
             ELSE [op EXCEPT !.pc = CASE component = "thumbnail" /\ op.camera -> "original"
                                      [] component = "original"               -> "metadata"
                                      [] OTHER                                -> "page"]
    /\ UNCHANGED <<head, pages, imports, answers, misled>>

StorePage(answer) ==
    /\ op.pc = "page"
    /\ pages' = IF Took(answer) THEN [pages EXCEPT ![op.page] = op.new] ELSE pages
    /\ op' = IF answer = "done" THEN [op EXCEPT !.pc = "head"]
             ELSE [pc |-> "clean up", id |-> op.id, next |-> 1]
    /\ UNCHANGED <<head, stored, imports, answers, misled>>

StoreHead(answer) ==
    /\ op.pc = "head"
    /\ head' = IF Took(answer) THEN op.head ELSE head
    /\ misled' = (misled \/ answer = "failed after effect")
    /\ op' = IF answer = "done" THEN Idle ELSE [op EXCEPT !.pc = "roll back"]
    /\ saved' = IF answer = "done" THEN [saved EXCEPT ![op.id] = op.import] ELSE saved
    /\ UNCHANGED <<pages, stored, imports, dropped, removed>>

\* rollback_page; its result is ignored.
Fault_RollbackPage(answer) ==
    /\ op.pc = "roll back"
    /\ pages' = IF Took(answer) THEN [pages EXCEPT ![op.page] = None] ELSE pages
    /\ op' = [pc |-> "clean up", id |-> op.id, next |-> 1]
    /\ UNCHANGED <<head, stored, imports, answers, misled>>
RollbackPage(answer) ==
    /\ op.pc = "roll back"
    /\ pages' = IF Took(answer) THEN [pages EXCEPT ![op.page] = op.old] ELSE pages
    /\ op' = [pc |-> "clean up", id |-> op.id, next |-> 1]
    /\ UNCHANGED <<head, stored, imports, answers, misled>>

\* cleanup_photo and the end of a removal: delete_photo_storage stops at the
\* first deletion that fails.
DeleteComponent(answer) ==
    /\ op.pc \in {"clean up", "delete"}
    /\ stored' = IF Took(answer) THEN [stored EXCEPT ![op.id][Components[op.next]] = None]
                 ELSE stored
    /\ op' = IF answer = "done" /\ op.next < Len(Components) THEN [op EXCEPT !.next = @ + 1]
             ELSE Idle
    /\ removed' = IF op.pc = "delete" /\ answer = "done" /\ op.next = Len(Components)
                  THEN removed \cup {op.id} ELSE removed
    /\ UNCHANGED <<head, pages, imports, saved, dropped, misled>>

\* remove_frame
StoreTombstone(answer) ==
    /\ op.pc = "tombstone"
    /\ pages' = IF Took(answer) THEN [pages EXCEPT ![op.page] = op.new] ELSE pages
    /\ op' = IF answer = "done" THEN [op EXCEPT !.pc = "count"] ELSE Idle
    /\ UNCHANGED <<head, stored, imports, answers, misled>>

StoreCount(answer) ==
    /\ op.pc = "count"
    /\ head' = IF Took(answer) THEN op.head ELSE head
    /\ op' = IF answer = "done" THEN [pc |-> "delete", id |-> op.id, next |-> 1]
             ELSE [op EXCEPT !.pc = "restore"]
    /\ UNCHANGED <<pages, stored, imports, answers, misled>>

RestorePage(answer) ==
    /\ op.pc = "restore"
    /\ pages' = IF Took(answer) THEN [pages EXCEPT ![op.page] = op.old] ELSE pages
    /\ op' = Idle
    /\ UNCHANGED <<head, stored, imports, answers, misled>>

\* appd stops, or the power goes: what was stored stays.
Restart ==
    /\ op # Idle
    /\ op' = Idle
    /\ UNCHANGED <<storage, imports, answers, misled>>

LibraryNext ==
    \/ \E camera \in BOOLEAN : ImportFrame(camera)
    \/ \E id \in Ids : RemoveFrame(id)
    \/ \E answer \in Answers :
          \/ MigratePage(answer) \/ MigrateHead(answer) \/ UndoMigration(answer)
          \/ \E c \in {"thumbnail", "original", "metadata"} : StoreComponent(c, answer)
          \/ StorePage(answer) \/ StoreHead(answer) \/ RollbackPage(answer)
          \/ DeleteComponent(answer)
          \/ StoreTombstone(answer) \/ StoreCount(answer) \/ RestorePage(answer)
    \/ Restart

LibrarySpec == LibraryInit /\ [][LibraryNext]_libraryVars

----------------------------------------------------------------------------
(* Properties                                                              *)

Heads == [active : Nat, slots : Nat, last_id : Nat]
Pages == [1 .. PagePhotos -> Ids \cup {0}]

LibraryTypeOK ==
    /\ head \in Heads \cup {None}
    /\ \A n \in PageNumbers : pages[n] \in Pages \cup {None}
    /\ stored \in [Ids -> [Range(Components) -> 0 .. MaxImports \cup {None}]]
    /\ imports \in 0 .. MaxImports
    /\ saved \in [Ids -> 0 .. MaxImports \cup {None}]
    /\ dropped \subseteq Ids /\ removed \subseteq dropped /\ misled \in BOOLEAN

\* The frame of a photo is the one its import stored.
FrameOf(id) == IF saved[id] = 0 THEN stored[id]["chunks"] ELSE stored[id]["thumbnail"]

\* A photo whose import was answered with success, and whose removal nobody
\* asked for, stays in the index and keeps its frame, whatever fails or is
\* cut off afterwards.
SavedStaysVisible ==
    \A id \in Ids : saved[id] # None /\ id \notin dropped =>
        id \in Active /\ FrameOf(id) = saved[id]

\* A photo that was removed does not come back.
RemovedStaysRemoved == removed \cap Active = {}

\* Every failure and every restart leaves an index that the next update reads,
\* and whoever is in it has a frame.
IndexUsable ==
    /\ head # None => Reconciles(head)
    /\ op = Idle => \A id \in Active :
          stored[id]["thumbnail"] # None \/ stored[id]["chunks"] # None \/ id \in dropped

\* What is listed for the owner's computer is exported as the photo that was
\* imported under its id, unless a camera import that was cut off left its
\* metadata under the same id.
ExportIsOwn ==
    \A id \in list_photo_exports :
        saved[id] # None /\ id \notin dropped /\ stored[id]["metadata"] \in {None, saved[id]} =>
            read_photo_export(id) = saved[id]

\* The library keeps what it promised unless the store of a head took effect
\* and was answered with an error.
LibrarySound ==
    /\ LibraryTypeOK
    /\ RemovedStaysRemoved
    /\ ~misled => SavedStaysVisible /\ IndexUsable /\ ExportIsOwn
==============================================================================
