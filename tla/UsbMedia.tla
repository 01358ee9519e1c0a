------------------------------- MODULE UsbMedia -------------------------------
(***************************************************************************)
(* The owner's USB media transfer (crates/cp0-usb-mediad).  One image file *)
(* is either mounted by the device or lent to a computer through a USB     *)
(* gadget.  Start imports the music that an earlier transfer left in the   *)
(* image, formats it, stages the photos and binds the gadget; Stop takes   *)
(* the image back and imports.  The service handles one request at a time; *)
(* a request is a sequence of steps, each of which may fail or be the last *)
(* one of the process, and the computer writes to the image between them.  *)
(***************************************************************************)
EXTENDS Integers, FiniteSets, FiniteSetsExt

CONSTANTS
    Songs,          \* names the computer copies into MUSIC/IMPORT, as numbers (their order)
    Playable,       \* those whose contents validate_wav accepts
    MaxImports,     \* MAX_MUSIC_IMPORTS
    MaxDocuments,   \* MAX_DOCUMENTS
    MaxWrites       \* bound on what the computer does

VARIABLES
    image,      \* exchange.img: "absent", "short" (not EXCHANGE_CAPACITY_BYTES), "blank" (no FAT32), "fat"
    music,      \* the files in MUSIC/IMPORT of the image
    bound,      \* the gadget is bound to the controller: the computer has the image
    mounted,    \* the device has the image mounted
    status,     \* UsbMediaState; "down" while no process runs
    step,       \* the next step of the request being served, "idle" between requests
    entries,    \* what import_music has still to handle
    used,       \* its cached size of the document directory
    copies,     \* song -> documents published from it
    refused,    \* ghost: songs that the last import reported as rejected
    lost,       \* ghost: songs formatted away that no import handled
    stuck,      \* ghost: the controller was not released, or could not be read
    writes

vars == <<image, music, bound, mounted, status, step, entries, used, copies, refused, lost,
          stuck, writes>>

Documents == MapThenSumSet(LAMBDA s : copies[s], Songs)
First(k, S) == {s \in S : Cardinality({r \in S : r < s}) < k}

Init ==
    /\ image = "absent" /\ music = {}
    /\ bound = FALSE /\ mounted = FALSE
    /\ status = "Idle" /\ step = "idle"
    /\ entries = {} /\ used = 0 /\ refused = {} /\ lost = {}
    /\ copies = [s \in Songs |-> 0]
    /\ stuck = FALSE /\ writes = 0

----------------------------------------------------------------------------
(* Helpers                                                                 *)

\* unbind_gadget: clearing the UDC takes the image back; anything after it,
\* or the write itself, may fail.
Unbinds(ok) ==
    \/ bound' = FALSE /\ UNCHANGED stuck
    \/ ~ok /\ bound /\ bound' = bound /\ stuck' = TRUE

\* cleanup_mount, whose result is ignored.
Unmounts == mounted' \in {mounted, FALSE}

\* The error branch of start and stop.
Fails ==
    /\ Unmounts
    /\ Unbinds(FALSE)
    /\ status' = "Error" /\ step' = "idle"

\* validate_backing_image wants the whole size, check_filesystem a FAT32.
validate_backing_image == image \in {"blank", "fat"}
check_filesystem == validate_backing_image /\ image = "fat"

\* mount_exchange refuses a second mount.
mount_exchange == check_filesystem /\ ~mounted /\ mounted' = TRUE
unmount_exchange == mounted' = FALSE

Goes(to) == step' = to /\ UNCHANGED status

----------------------------------------------------------------------------
(* Requests                                                                *)

\* start: it is refused only while the status is Connected.
Start ==
    /\ step = "idle" /\ status \notin {"Connected", "down"}
    /\ status' = "Preparing" /\ step' = "preflight"
    /\ UNCHANGED <<image, music, bound, mounted, entries, used, copies, refused, lost, stuck,
                   writes>>

\* stop: refused when neither the status nor the gadget says connected.
Stop ==
    /\ step = "idle" /\ status # "down"
    /\ status = "Connected" \/ bound
    /\ status' = "Importing" /\ step' = "unbind"
    /\ UNCHANGED <<image, music, bound, mounted, entries, used, copies, refused, lost, stuck,
                   writes>>

\* The branch of prepare_and_bind on an existing image.
Fault_Preflight ==
    /\ step = "preflight"
    /\ IF image = "fat" THEN Goes("format") ELSE Goes("create")
    /\ UNCHANGED <<image, music, bound, mounted, entries, used, copies, refused, lost, stuck,
                   writes>>
Preflight ==
    /\ step = "preflight"
    /\ \/ /\ Goes(IF image = "absent" THEN "create" ELSE "recover")
          /\ UNCHANGED <<bound, mounted, stuck>>
       \/ Fails
    /\ UNCHANGED <<image, music, entries, used, copies, refused, lost, writes>>

\* create_backing_image: a file whose space cannot be allocated stays behind.
CreateBackingImage ==
    /\ step = "create"
    /\ \/ image' = "blank" /\ Goes("format") /\ UNCHANGED <<bound, mounted, stuck>>
       \/ image' \in {"absent", "short", "blank"} /\ Fails
    /\ UNCHANGED <<music, entries, used, copies, refused, lost, writes>>

\* mount_exchange after check_filesystem, for an import.
MountForImport ==
    /\ step \in {"recover", "remount"}
    /\ \/ /\ mount_exchange
          /\ Goes(IF step = "recover" THEN "list-start" ELSE "list-stop")
          /\ UNCHANGED <<bound, stuck>>
       \/ Fails
    /\ UNCHANGED <<image, music, entries, used, copies, refused, lost, writes>>

\* import_music reads the directories once.
ListMusic ==
    /\ step \in {"list-start", "list-stop"}
    /\ \/ /\ entries' = First(MaxImports, music)
          /\ used' = Documents
          /\ refused' = {}
          /\ Goes(IF step = "list-start" THEN "import-start" ELSE "import-stop")
          /\ UNCHANGED <<bound, mounted, stuck>>
       \/ Fails /\ UNCHANGED <<entries, used, refused>>
    /\ UNCHANGED <<image, music, copies, lost, writes>>

\* validate_wav and the name and size of the file.
validate_wav(s) == s \in Playable

\* choose_document_name numbers a name that is taken, so that every import of
\* a song is a document of its own.
choose_document_name(s) == [copies EXCEPT ![s] = @ + 1]

\* publish_document links the copy and removes the source last; when it fails
\* after the link, the document is there and the file is reported.
publish_document(s, ok) ==
    \/ ok /\ copies' = choose_document_name(s) /\ music' = music \ {s}
    \/ ~ok /\ copies' \in {copies, choose_document_name(s)} /\ UNCHANGED music

\* One file of import_music.
ImportFile ==
    /\ step \in {"import-start", "import-stop"}
    /\ \E s \in entries :
          /\ entries' = entries \ {s}
          /\ \/ /\ validate_wav(s) /\ used < MaxDocuments
                /\ publish_document(s, TRUE)
                /\ used' = used + 1
                /\ UNCHANGED refused
             \/ /\ validate_wav(s) /\ used < MaxDocuments
                /\ publish_document(s, FALSE)
                /\ refused' = refused \cup {s}
                /\ UNCHANGED used
             \/ /\ ~validate_wav(s) \/ used >= MaxDocuments
                /\ refused' = refused \cup {s}
                /\ UNCHANGED <<copies, music, used>>
    /\ UNCHANGED <<image, bound, mounted, status, step, lost, stuck, writes>>

\* unmount_exchange after the import; a stop has written its report and
\* checks the file system once more.
FinishImport ==
    /\ step \in {"import-start", "import-stop"}
    /\ \/ /\ entries = {}
          /\ unmount_exchange
          /\ IF step = "import-start"
             THEN Goes("format")
             ELSE step' = "idle" /\ status' = "Complete"
          /\ UNCHANGED <<bound, stuck, entries>>
       \/ Fails /\ entries' = {}
    /\ UNCHANGED <<image, music, used, copies, refused, lost, writes>>

\* format_exchange: mkfs may stop half way.
Format ==
    /\ step = "format"
    /\ music' = {}
    /\ lost' = lost \cup {s \in music : s \notin refused /\ copies[s] = 0}
    /\ \/ image' = "fat" /\ Goes("stage") /\ UNCHANGED <<bound, mounted, stuck>>
       \/ image' = "blank" /\ Fails
    /\ UNCHANGED <<entries, used, copies, refused, writes>>

\* mount_exchange and stage_exchange, then unmount_exchange.
StageExchange ==
    /\ step = "stage"
    /\ \/ mount_exchange /\ Goes("unmount") /\ UNCHANGED <<bound, stuck>>
       \/ Fails
    /\ UNCHANGED <<image, music, entries, used, copies, refused, lost, writes>>

UnmountStaged ==
    /\ step = "unmount"
    /\ \/ unmount_exchange /\ Goes("bind") /\ UNCHANGED <<bound, stuck>>
       \/ Fails
    /\ UNCHANGED <<image, music, entries, used, copies, refused, lost, writes>>

\* bind_gadget, which first takes an old gadget away.
BindGadget ==
    /\ step = "bind"
    /\ \/ /\ check_filesystem
          /\ bound' = TRUE /\ status' = "Connected" /\ step' = "idle"
          /\ UNCHANGED <<mounted, stuck>>
       \/ /\ check_filesystem
          /\ bound' = TRUE /\ stuck' = TRUE /\ status' = "Error" /\ step' = "idle"
          /\ UNCHANGED mounted
       \/ Fails
    /\ UNCHANGED <<image, music, entries, used, copies, refused, lost, writes>>

\* The first step of stop.
UnbindGadget ==
    /\ step = "unbind"
    /\ \/ Unbinds(TRUE) /\ Goes("remount") /\ UNCHANGED mounted
       \/ Fails
    /\ UNCHANGED <<image, music, entries, used, copies, refused, lost, writes>>

----------------------------------------------------------------------------
(* The computer, and the end of the process                                *)

\* The computer copies or deletes music, or leaves the file system damaged.
HostWrites ==
    /\ bound /\ writes < MaxWrites /\ image = "fat"
    /\ writes' = writes + 1
    /\ \/ \E s \in Songs : music' \in {music \cup {s}, music \ {s}} /\ UNCHANGED image
       \/ image' = "blank" /\ music' = {}
    /\ UNCHANGED <<bound, mounted, status, step, entries, used, copies, refused, lost, stuck>>

\* emergency-stop runs beside the service, before the service is stopped.
EmergencyStop ==
    /\ status # "down"
    /\ Unbinds(FALSE)
    /\ UNCHANGED <<image, music, mounted, status, step, entries, used, copies, refused, lost,
                   writes>>

\* The process ends: its mount namespace goes, the gadget stays.  A power
\* loss takes the gadget too; what it interrupts is half done.
Ends ==
    /\ status # "down"
    /\ status' = "down" /\ step' = "idle" /\ entries' = {}
    /\ mounted' = FALSE
    /\ bound' \in {bound, FALSE}
    /\ image' \in CASE step = "create" -> {image, "short", "blank"}
                    [] step = "format" -> {image, "blank"}
                    [] OTHER -> {image}
    /\ IF image' # image
       THEN /\ music' = {}
            /\ lost' = lost \cup {s \in music : s \notin refused /\ copies[s] = 0}
       ELSE UNCHANGED <<music, lost>>
    /\ \/ UNCHANGED copies
       \/ \E s \in entries : validate_wav(s) /\ used < MaxDocuments /\ copies' = choose_document_name(s)
    /\ UNCHANGED <<used, refused, stuck, writes>>

\* recover_status: a gadget that cannot be read counts as not bound.
RecoverStatus ==
    /\ status = "down"
    /\ \/ bound /\ validate_backing_image /\ status' = "Connected" /\ UNCHANGED stuck
       \/ ~bound /\ status' = "Idle" /\ UNCHANGED stuck
       \/ bound /\ status' = "Idle" /\ stuck' = TRUE
    /\ UNCHANGED <<image, music, bound, mounted, step, entries, used, copies, refused, lost,
                   writes>>

Next ==
    \/ Start \/ Stop
    \/ Preflight \/ CreateBackingImage \/ MountForImport \/ ListMusic \/ ImportFile
    \/ FinishImport \/ Format \/ StageExchange \/ UnmountStaged \/ BindGadget \/ UnbindGadget
    \/ HostWrites \/ EmergencyStop \/ Ends \/ RecoverStatus

Spec == Init /\ [][Next]_vars

----------------------------------------------------------------------------
(* Properties                                                              *)

TypeOK ==
    /\ image \in {"absent", "short", "blank", "fat"}
    /\ music \subseteq Songs /\ entries \subseteq Songs /\ refused \subseteq Songs
    /\ bound \in BOOLEAN /\ mounted \in BOOLEAN /\ stuck \in BOOLEAN
    /\ status \in {"Idle", "Preparing", "Connected", "Importing", "Complete", "Error", "down"}
    /\ copies \in [Songs -> Nat]

\* The image is never mounted or formatted by the device while the computer
\* has it, as long as the controller could be released and read.
NeverShared == ~stuck => ~(bound /\ (mounted \/ step = "format"))

\* Music is formatted away only after an import published it or reported it,
\* under the same condition and when no more than MAX_MUSIC_IMPORTS files are there.
MusicHandled == ~stuck /\ Cardinality(Songs) <= MaxImports => lost = {}

\* An unbound gadget is all that a request leaves behind unless it succeeded,
\* so that Start or Stop is always accepted.
NothingStranded == status = "Connected" \/ step # "idle" \/ status = "down" \/ stuck \/ ~bound

\* The exchange image is mounted here or lent to the computer and never both,
\* no music is formatted away unhandled, and no request leaves the gadget bound.
ExchangeSound == TypeOK /\ NeverShared /\ MusicHandled /\ NothingStranded

============================================================================
