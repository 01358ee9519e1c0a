------------------------- MODULE MCDevicePeripherals -------------------------
(***************************************************************************)
(* The services of the device that share no state: the boot state, the     *)
(* photo library, the storage, media transfer, audio, camera, radio and    *)
(* recovery programs, the small brokers, appd's dispatch of broker         *)
(* requests, the caches and the metrics of the Store agent, the frames and *)
(* the encoding they all speak, the compositor's policy with the Shell's   *)
(* overlays and with its keys, and an application's display and keyboard.  *)
(* The variable `scenario' says which one a behaviour is of; the others    *)
(* stay as they began, each in the one initial state that BeginsAs picks.  *)
(***************************************************************************)
EXTENDS Integers, Sequences

CONSTANTS None, Torn, f1, f2, f3, lib, own, k1, k2, t1, t2

VARIABLES
    scenario,
    boot_copies, phase, boot_target, spare, left, booted, chosen, proven, acknowledged, tries,
    head, pages, stored, op, imports, photo_saved, dropped, removed, misled,
    values, litter, staging, blob_upload, storage_serving, puts, possible,
    image, music, bound, mounted, status, step, usb_entries, used, usb_copies, refused, lost,
    stuck, writes,
    audio_serving, worker, holder, queue, playback, last_write, key_sounds_enabled, audio_saved,
    durable, volume, muted, audio_reply, promised, late_clicks, asked,
    stream, starter, child, camera_reply, captures,
    config_lines, chip, radio_pc, current, last_transmit, radio_reply, aired, heard, gap,
    radio_requests,
    source, file_changes, recovery_pc, recovery_at, entries, block, bundle, target,
    recovery_reply, snapshot, verified,
    link, lines, torn, closed, regular, taken, frames_got, result,
    decoder, bytes, text, got, stage,
    daemon, device, at, request, local, reply, seen, changes, presses,
    policy, clock, memory, metrics_disk, metrics_up, checked, upload, wire, answers, server,
    issued, recorded, stale, events, metrics_faults,
    up, catalog, job, disk, pending, shown, faults, crashes,
    media_up, edition, media_job, cache, complete, damaged, media_faults, jobs,
    grant, foreground, thread, library, cached, photos, last_id, view, notifications, requests,
    turns,
    compositor, shell, happened,
    c, brightness, saved_state, unblanked, pressed, key_faults,
    rt, wl, accepted, answered, strokes_left

bootVars == <<boot_copies, phase, boot_target, spare, left, booted, chosen, proven,
              acknowledged, tries>>
photoVars == <<head, pages, stored, op, imports, photo_saved, dropped, removed, misled>>
storageVars == <<values, litter, staging, blob_upload, storage_serving, puts, possible>>
usbVars == <<image, music, bound, mounted, status, step, usb_entries, used, usb_copies, refused,
             lost, stuck, writes>>
audioVars == <<audio_serving, worker, holder, queue, playback, last_write, key_sounds_enabled,
               audio_saved, durable, volume, muted, audio_reply, promised, late_clicks, asked>>
cameraVars == <<stream, starter, child, camera_reply, captures>>
radioVars == <<config_lines, chip, radio_pc, current, last_transmit, radio_reply, aired, heard,
               gap, radio_requests>>
recoveryVars == <<source, file_changes, recovery_pc, recovery_at, entries, block, bundle, target,
                  recovery_reply, snapshot, verified>>
frameVars == <<link, lines, torn, closed, regular, taken, frames_got, result>>
codingVars == <<decoder, bytes, text, got, stage>>
brokerVars == <<daemon, device, at, request, local, reply, seen, changes, presses>>
metricsVars == <<policy, clock, memory, metrics_disk, metrics_up, checked, upload, wire, answers,
                 server, issued, recorded, stale, events, metrics_faults>>
catalogVars == <<up, catalog, job, disk, pending, shown, faults, crashes>>
mediaVars == <<media_up, edition, media_job, cache, complete, damaged, media_faults, jobs>>
dispatchVars == <<grant, foreground, thread, library, cached, photos, last_id, view,
                  notifications, requests, turns>>
sceneVars == <<compositor, shell, happened>>
keyVars == <<c, brightness, saved_state, unblanked, pressed, key_faults>>
displayVars == <<rt, wl, accepted, answered, strokes_left>>
vars == <<scenario, bootVars, photoVars, storageVars, usbVars, audioVars, cameraVars, radioVars,
          recoveryVars, frameVars, codingVars, brokerVars, metricsVars, catalogVars, mediaVars,
          dispatchVars, sceneVars, keyVars, displayVars>>

------------------------------------------------------------------------------
(* The instances and their bounds.                                         *)

Boot == INSTANCE BootState WITH
    MaxBootAttempts <- 3, MaxJsonInteger <- 9, Releases <- {1, 2, 3},
    copies <- boot_copies, target <- boot_target

\* The v1 index the device had before its first photo is <<2>>.
Storage == INSTANCE Storage WITH
    Directories <- {own, lib}, Library <- lib, Keys <- {k1, k2}, BlobKeys <- {k2}, MaxKeys <- 1,
    Sizes <- {1, 2}, BlobBytes <- 2, Quota <- 3, MaxRequests <- 3,
    upload <- blob_upload, serving <- storage_serving, requests <- puts,
    PagePhotos <- 2, Legacy <- <<2>>, MaxImports <- 2, saved <- photo_saved

Usb == INSTANCE UsbMedia WITH
    Songs <- {1, 2, 3}, Playable <- {1, 2}, MaxImports <- 3, MaxDocuments <- 2, MaxWrites <- 3,
    entries <- usb_entries, copies <- usb_copies

MCConfigLines ==
    { <<"enabled", "true">>, <<"enabled", "false">>, <<"region", "eu868">>,
      <<"region", "cn470">>, <<"frequency_hz", 868100000>>, <<"frequency_hz", 510000001>>,
      <<"comment", "">>, <<"power", "20">> }

\* The sizes of a camera frame are odd, so that its scaling does not come out even.
Hardware == INSTANCE Hardware WITH
    QueueDepth <- 1, HardwareRange <- 12, VolumeStep <- 10, Percents <- {0, 55, 101},
    MaxFrames <- 60, MaxAudioRequests <- 4, serving <- audio_serving, saved <- audio_saved,
    FrameChunks <- 3, HeaderBytes <- 2, ThumbnailBytes <- 3, MaxJpegBytes <- 4,
    JpegSizes <- {0, 1, 4, 5}, SourceSize <- <<8, 6>>, TargetSize <- <<5, 3>>, MaxCaptures <- 4,
    MaxPayload <- 2, PayloadSizes <- {0, 2, 3}, Interval <- 2, ConfigLines <- MCConfigLines,
    MaxLines <- 3, MaxRadioRequests <- 3,
    lines <- config_lines, pc <- radio_pc, requests <- radio_requests

Recovery == INSTANCE Recovery WITH
    Paths <- <<f1, f3, f2>>, Required <- {f1, f2}, Excluded <- {f3}, MaxChanges <- 2,
    changes <- file_changes, pc <- recovery_pc, at <- recovery_at, reply <- recovery_reply

\* Every protocol of the device, and two frames of each size that matters.
Frames == INSTANCE WireFrames WITH
    Links <- {"gpio", "radio", "power", "display", "connectivity", "camera", "audio", "network",
              "storage", "provision", "usb_media", "store", "developer", "document",
              "document_opened", "camera_captured", "control_request", "control_response",
              "broker_request", "broker_response"},
    MaxFrames <- 2, Bytes <- {0, 1, 255}, Digits <- {0, 1, 4, 16, 63, 64}, MaxBytes <- 4, Limit <- 3

Brokers == INSTANCE Brokers WITH
    Daemons <- {"display", "connectivity", "gpio", "power", "document", "network"},
    Maxima <- {6, 9}, Levels <- {5, 50, 100}, GpioLines <- {"grove", "usb"}, Names <- {1, 2},
    Inodes <- {"i1", "i2"}, MaxDocuments <- 1, MAX_REDIRECTS <- 2, BodyLimit <- 2,
    MaxChanges <- 2

\* Two applications and room for the counters of one, of which one is published.
Metrics == INSTANCE StoreMetrics WITH
    Apps <- {"a", "b"}, Published <- {"a"}, Threads <- {"serve", "scheduler"},
    MAX_METRIC_RECORDS <- 1, MAX_WEEKLY_INSTALLS <- 1, MAX_WEEKLY_LAUNCHES <- 2, MaxWeek <- 2,
    MaxEvents <- 2, MaxFaults <- 1,
    disk <- metrics_disk, up <- metrics_up, faults <- metrics_faults

\* What the publisher may have signed: two publications in the old form, one
\* of them out of order, and sharded ones, some with an index that does not
\* describe their shards.
Shard(body) == [body |-> body, first |-> body[1], last |-> body[Len(body)], count |-> Len(body)]
Plain(sequence, apps, featured) ==
    [sharded |-> FALSE, sequence |-> sequence, apps |-> apps, featured |-> featured]
Sharded(sequence, bodies, total, games, tools, featured) ==
    [sharded |-> TRUE, sequence |-> sequence, shards |-> [i \in DOMAIN bodies |-> Shard(bodies[i])],
     total |-> total, featured |-> featured,
     categories |-> <<[category |-> "games", count |-> games[1], shards |-> games[2]],
                      [category |-> "tools", count |-> tools[1], shards |-> tools[2]]>>]
MCDocuments ==
    { Plain(1, <<1>>, 1), Plain(2, <<1, 2>>, 0), Plain(2, <<2, 1>>, 0),
      Sharded(2, <<<<1>>, <<2, 3>>>>, 3, <<2, <<1, 2>>>>, <<1, <<2>>>>, 3),
      Sharded(2, <<<<1, 2>>, <<3>>>>, 3, <<2, <<1, 2>>>>, <<1, <<1>>>>, 2),
      Sharded(3, <<<<1>>, <<2, 3>>>>, 3, <<2, <<1, 2>>>>, <<1, <<2>>>>, 0),
      Sharded(3, <<<<1>>, <<2, 3>>>>, 3, <<1, <<1>>>>, <<2, <<2>>>>, 0),
      Sharded(3, <<<<1>>, <<2>>>>, 2, <<1, <<1>>>>, <<1, <<2>>>>, 3),
      Sharded(3, <<<<1, 2>>, <<2, 3>>>>, 4, <<2, <<1, 2>>>>, <<2, <<1, 2>>>>, 0),
      [Sharded(3, <<<<1, 3>>, <<2>>>>, 3, <<2, <<1>>>>, <<1, <<2>>>>, 0)
          EXCEPT !.shards[1].last = 1] }
\* Three editions of the Catalog; the last names one icon with two sizes.
Resource(kind, sha256, size) == [kind |-> kind, sha256 |-> sha256, bytes |-> size]
Listing(icon, size, details, shots) ==
    [icon |-> Resource("icon", icon, size), details |-> Resource("details", details, 1),
     shots |-> shots]
MCEditions ==
    << <<Listing("a", 1, "d", <<Resource("screenshot", "s", 2), Resource("screenshot", "t", 1)>>),
         Listing("b", 2, "e", <<>>)>>,
       <<Listing("c", 1, "e", <<Resource("screenshot", "u", 1)>>), Listing("b", 2, "d", <<>>)>>,
       <<Listing("c", 1, "e", <<Resource("screenshot", "s", 2)>>), Listing("c", 2, "d", <<>>)>> >>
MCSize == [x \in {"a", "b", "c", "d", "e", "s", "t", "u"} |-> IF x \in {"b", "s"} THEN 2 ELSE 1]
MCBudget == [icon |-> 3, details |-> 2, screenshot |-> 3]
Caches == INSTANCE StoreCaches WITH
    Documents <- MCDocuments, Category <- <<"games", "tools", "games">>,
    Categories <- <<"games", "tools">>, MaxCatalogFaults <- 2, MaxCrashes <- 2,
    Editions <- MCEditions, Size <- MCSize, Budget <- MCBudget, MaxMediaFaults <- 2, MaxJobs <- 4

\* One application and the shell; of a legacy command one that is refused.
Dispatch == INSTANCE BrokerDispatch WITH
    Threads <- {t1, t2}, Shell <- "shell",
    Declared <- [camera |-> {"camera.capture", "photos.write", "photos.read",
                             "notifications.post"}],
    Denied <- {},
    Commands <- {"capture-photo", "photo-remove", "photo-load-view-rgb565", "import-screenshot",
                 "post-notification", "play-key-click", "photo-put", "http-get"},
    Sizes <- {<<7, 3>>}, Screen <- <<4, 3>>, MaxRequests <- 3, MaxPhotos <- 2, MaxTurns <- 4,
    MaxPending <- 1

Scene == INSTANCE CompositorScene WITH
    Apps <- {"a", "b"}, Standard <- {"a"}, TokenSpace <- 6, MaxEvents <- 4, policy <- compositor

Buttons == INSTANCE CompositorKeys WITH
    Keys <- {"esc", "k"}, LongPress <- 2, Levels <- {2, 5}, Half <- 3, MaxKeys <- 4,
    MaxFaults <- 2, faults <- key_faults

\* A screen of three rows, one of them the status bar's; frames alone, keys
\* alone, and some of both.
MCDamages ==
    { {}, {<<0, 1>>}, {<<1, 1>>}, {<<0, 1>>, <<1, 1>>}, {<<1, 2>>}, {<<0, 0>>} }
Display == INSTANCE AppDisplay WITH
    DisplayHeight <- 3, StatusRows <- 1, Damages <- MCDamages, MaxDamage <- 2,
    QueueCapacity <- 2, Budgets <- {<<4, 0>>, <<0, 5>>, <<2, 2>>}, left <- strokes_left

ASSUME PeripheralsAssumption ==
    /\ Boot!ConstantsSound /\ Storage!LibraryConstants /\ Hardware!AudioConstants
    /\ Hardware!CameraConstants /\ Hardware!RadioConstants /\ Recovery!RecoveryConstants
    /\ Frames!WireConstants /\ Frames!Base64Constants /\ Brokers!BrokerConstants
    /\ Metrics!MetricsConstants /\ Caches!CacheConstants /\ Caches!MediaConstants
    /\ Dispatch!DispatchConstants /\ Scene!SceneConstants /\ Buttons!KeysConstants
    /\ Display!DisplayConstants

------------------------------------------------------------------------------
Scenarios == {"boot", "photos", "storage", "usb", "audio", "camera", "radio", "recovery",
              "frames", "coding", "brokers", "metrics", "catalog", "media", "dispatch",
              "scene", "keys", "display"}

\* A component that has several initial states begins in a fixed one where
\* it is not the subject.
BeginsAs(name, choice) == scenario # name => choice

PeripheralsInit ==
    /\ scenario \in Scenarios
    /\ IF scenario = "boot" THEN Boot!Init ELSE Boot!InitWith("a", 1)
    /\ Storage!LibraryInit /\ Storage!StorageInit /\ Usb!Init
    /\ Hardware!AudioInit /\ Hardware!CameraInit
    /\ Hardware!RadioInit /\ BeginsAs("radio", config_lines = <<>>)
    /\ Recovery!Init /\ BeginsAs("recovery", \A f \in DOMAIN source : source[f].kind = "file")
    /\ Frames!Init /\ BeginsAs("frames", link = "gpio")
    /\ Frames!Base64Init
    /\ BeginsAs("coding", bytes = <<>> /\ decoder = CHOOSE d \in Frames!Decoders : TRUE)
    /\ Brokers!Init /\ BeginsAs("brokers", daemon = "power")
    /\ Metrics!Init /\ Caches!CatalogInit /\ Caches!MediaInit /\ Dispatch!Init
    /\ IF scenario = "scene" THEN Scene!Init ELSE Scene!InitWith("a")
    /\ Buttons!Init /\ BeginsAs("keys", brightness = 2)
    /\ Display!Init /\ BeginsAs("display", rt.offset = 0 /\ strokes_left = <<4, 0>>)

Idles(name, variables) == scenario # name /\ UNCHANGED variables

PeripheralsNext ==
    /\ UNCHANGED scenario
    /\ Idles("boot", bootVars) \/ (scenario = "boot" /\ Boot!Next)
    /\ Idles("photos", photoVars) \/ (scenario = "photos" /\ Storage!LibraryNext)
    /\ Idles("storage", storageVars) \/ (scenario = "storage" /\ Storage!StorageNext)
    /\ Idles("usb", usbVars) \/ (scenario = "usb" /\ Usb!Next)
    /\ Idles("audio", audioVars) \/ (scenario = "audio" /\ Hardware!AudioNext)
    /\ Idles("camera", cameraVars) \/ (scenario = "camera" /\ Hardware!CameraNext)
    /\ Idles("radio", radioVars) \/ (scenario = "radio" /\ Hardware!RadioNext)
    /\ Idles("recovery", recoveryVars) \/ (scenario = "recovery" /\ Recovery!Next)
    /\ Idles("frames", frameVars) \/ (scenario = "frames" /\ Frames!Next)
    /\ Idles("coding", codingVars) \/ (scenario = "coding" /\ Frames!Base64Next)
    /\ Idles("brokers", brokerVars) \/ (scenario = "brokers" /\ Brokers!Next)
    /\ Idles("metrics", metricsVars) \/ (scenario = "metrics" /\ Metrics!Next)
    /\ Idles("catalog", catalogVars) \/ (scenario = "catalog" /\ Caches!CatalogNext)
    /\ Idles("media", mediaVars) \/ (scenario = "media" /\ Caches!MediaNext)
    /\ Idles("dispatch", dispatchVars) \/ (scenario = "dispatch" /\ Dispatch!Next)
    /\ Idles("scene", sceneVars) \/ (scenario = "scene" /\ Scene!Next)
    /\ Idles("keys", keyVars) \/ (scenario = "keys" /\ Buttons!Next)
    /\ Idles("display", displayVars) \/ (scenario = "display" /\ Display!Next)

PeripheralsSpec == PeripheralsInit /\ [][PeripheralsNext]_vars

------------------------------------------------------------------------------
(* The properties of the instances.                                        *)

\* Wherever the power goes, a state of the A/B boot can be read back, what is
\* confirmed has run and passed its checks, and an unconfirmed release is
\* tried no more than MAX_BOOT_ATTEMPTS times.
BootSound == scenario = "boot" => Boot!BootSound

\* A saved photo stays, a removed one stays away and the index can be read,
\* unless the store of a head took effect and was answered with an error.
LibrarySound == scenario = "photos" => Storage!LibrarySound

\* The storage daemon keeps what it acknowledged, within the quota, wherever
\* a put or an upload is cut off.
StorageSound == scenario = "storage" => Storage!StorageSound

\* The exchange image is mounted here or lent to the computer and never both,
\* and the music in it is not formatted away unhandled.
ExchangeSound == scenario = "usb" => Usb!ExchangeSound

\* The daemons of the audio codec, the camera and the radio: an acknowledged
\* setting survives a power loss and a volume key is always noticeable; every
\* camera process has somebody who will end it and a frame is handed out
\* whole; what is answered as sent was on air, and not too soon after the
\* transmission before it.
HardwareSound ==
    /\ scenario = "audio" => Hardware!AudioSound
    /\ scenario = "camera" => Hardware!CameraSound
    /\ scenario = "radio" => Hardware!RadioSound

\* A backup that is acknowledged verifies and is the state of one moment, a
\* torn one is refused, and a restore writes exactly what was verified.
RecoverySound == scenario = "recovery" => Recovery!RecoverySound

\* What write_frame accepts the peer reads as it was written, however the
\* kernel cuts it up, for every protocol and the largest message it allows
\* (the broker's requests excepted); and a payload survives encode_base64 and
\* every one of the decoders, each of which accepts one text per payload.
WireSound ==
    /\ scenario = "frames" => Frames!FramesSound
    /\ scenario = "coding" => Frames!Base64Sound

\* Every command of the small daemons is answered, with what was true of the
\* device during the request; a request to read changes nothing; the brightness
\* keys reach both ends; a document is opened as it was shown; and no hop of a
\* download leaves the public network.
BrokersSound == scenario = "brokers" => Brokers!BrokersSound

\* What the Store agent keeps on disk: it can always start from its cached
\* Catalog, which never goes back and is of one publication; the media cache
\* keeps its budget and the icons, and serves only the content that was
\* signed; and a week's counts are sent only with consent, under one
\* identifier per report, and are counted once.
AgentFilesSound ==
    /\ scenario = "catalog" => Caches!CatalogSound
    /\ scenario = "media" => Caches!MediaSound
    /\ scenario = "metrics" => Metrics!MetricsSound

\* A broker request has an effect only with the permissions of its command, a
\* view shows the photo it names, and no two threads wait for each other.
DispatchSound == scenario = "dispatch" => Dispatch!DispatchSound

\* The screen and the keys: when the policy and the Shell have heard each
\* other out they agree on the overlay mode and on the applications, a layer
\* that is settled shows what the mode says, and behind a mode that is not full
\* there is a mapped application; the key that wakes the display does nothing
\* else, one press of ESC is one action, and a display that is on is lit; and an
\* application's frames reach the screen whole and in place, from buffers nobody
\* paints over meanwhile, and its keys reach it with their modifiers or as a
\* reported overflow, while it has the focus.
ScreenSound ==
    /\ scenario = "scene" => Scene!SceneSound
    /\ scenario = "keys" => Buttons!KeysSound
    /\ scenario = "display" => Display!DisplaySound
==============================================================================
