--------------------------- MODULE BrokerDispatch ---------------------------
(***************************************************************************)
(* The capability broker of appd (crates/cp0-appd/src/server.rs): what its *)
(* threads do with the requests of the applications between receiving and  *)
(* answering them.  A request is a program of steps: authorisations, the   *)
(* foreground test, calls to a daemon, and work on the photo library under *)
(* its transaction lock.  Steps of several threads interleave, and so do   *)
(* the user's decisions and switches of the foreground.                    *)
(*                                                                         *)
(* The permission prompts are those of Prompts, the steps of an import or  *)
(* removal those of the library in Storage; here an authorisation has its  *)
(* outcome and an import or removal is one step under the lock.            *)
(***************************************************************************)
EXTENDS Integers, Sequences, FiniteSets

CONSTANTS
    Threads,        \* broker threads, one per connection
    Shell,          \* the System Shell, whose screenshots take the same lock
    Declared,       \* the permissions of every application's manifest
    Denied,         \* the permissions the device policy denies
    Commands,       \* the commands requested
    Sizes,          \* <<width, height>> of camera originals
    Screen,         \* <<PHOTO_WIDTH, PHOTO_HEIGHT>>
    MaxRequests,    \* bound: requests of a behaviour
    MaxTurns,       \* bound: decisions of the user and switches of the foreground
    MaxPhotos,      \* bound: photos imported
    MaxPending      \* MAX_PENDING_NOTIFICATIONS

VARIABLES
    grant,          \* what the user allows now; undecided and denied are alike here
    foreground,     \* the application of the foreground session
    thread,         \* what each thread is doing
    library,        \* the transaction lock: the threads that hold it
    cached,         \* the lock of the view cache
    photos,         \* active photos: id -> number and original; a set of records
    last_id,        \* head.last_id of the library
    view,           \* PhotoViewCache: at most one decoded photo
    notifications,  \* how many are queued
    requests, turns

vars == <<grant, foreground, thread, library, cached, photos, last_id, view,
          notifications, requests, turns>>

Apps == DOMAIN Declared

-----------------------------------------------------------------------------
(***************************************************************************)
(* The programs.  "allow p" is authorize_broker_caller, which begins with  *)
(* authenticate_broker_caller.                                             *)
(***************************************************************************)
Allow(p) == <<"allow", p>>
Step(s) == <<s, "">>

NotificationProgram == <<Allow("notifications.post"), Step("enqueue")>>

NetworkProgram == <<Allow("network.client"), Step("call")>>

\* The samples are decoded after the permission is checked.
PlayProgram == <<Allow("audio.playback"), Step("decode"), Step("call")>>

\* with_current_media_caller instead of a permission.
KeyClickProgram == <<Step("authenticate"), Step("foreground"), Step("call")>>

CaptureAudioProgram == <<Allow("audio.capture"), Step("call")>>

GpioProgram == <<Allow("hardware.gpio"), Step("call")>>

SendLoraProgram == <<Allow("radio.lora"), Step("decode"), Step("call")>>

ReceiveLoraProgram == <<Allow("radio.lora"), Step("call")>>

\* Private storage belongs to the caller and needs no permission.
StoragePutProgram == <<Step("authenticate"), Step("decode"), Step("call")>>
StorageProgram == <<Step("authenticate"), Step("call")>>

\* PhotoPut and PhotoDelete are answered as disabled, after the permission.
LegacyPhotoProgram == <<Allow("photos.write"), Step("refuse")>>

PhotoGetProgram == <<Allow("photos.read"), Step("lock"), Step("read")>>
PhotoIndexProgram == <<Allow("photos.write"), Step("lock"), Step("read")>>
PhotoRemoveProgram == <<Allow("photos.write"), Step("lock"), Step("remove")>>

dispatch_photo_import ==
    <<Allow("photos.write"), Step("decode"), Step("lock"), Step("import")>>

dispatch_photo_load == <<Allow("photos.read"), Step("lock"), Step("active"), Step("open")>>

dispatch_photo_view ==
    <<Allow("photos.read"), Step("lock"), Step("active"), Step("lock view"), Step("render")>>

dispatch_camera == <<Allow("camera.capture"), Step("foreground"), Step("call")>>

Fault_dispatch_camera_photo ==
    <<Allow("camera.capture"), Step("foreground"), Step("call"), Step("decode"), Step("lock"),
      Step("import original")>>
dispatch_camera_photo ==
    <<Allow("camera.capture"), Allow("photos.write"), Step("foreground"), Step("call"),
      Step("decode"), Step("lock"), Step("import original")>>

\* import_screenshot_control; control_command_authorized lets only the Shell in.
import_screenshot_control == <<Step("decode"), Step("lock"), Step("import")>>

Program(c) ==
    CASE c = "post-notification" -> NotificationProgram
      [] c \in {"http-get", "http-get-range"} -> NetworkProgram
      [] c \in {"play-audio", "play-audio-stereo-48k"} -> PlayProgram
      [] c = "play-key-click" -> KeyClickProgram
      [] c = "capture-audio" -> CaptureAudioProgram
      [] c \in {"read-gpio", "write-gpio"} -> GpioProgram
      [] c = "send-lora" -> SendLoraProgram
      [] c = "receive-lora" -> ReceiveLoraProgram
      [] c = "storage-put" -> StoragePutProgram
      [] c \in {"storage-get", "storage-delete"} -> StorageProgram
      [] c \in {"photo-put", "photo-delete"} -> LegacyPhotoProgram
      [] c = "photo-get" -> PhotoGetProgram
      [] c = "photo-index-get" -> PhotoIndexProgram
      [] c = "photo-remove" -> PhotoRemoveProgram
      [] c = "photo-import-rgb565" -> dispatch_photo_import
      [] c = "photo-load-rgb565" -> dispatch_photo_load
      [] c = "photo-load-view-rgb565" -> dispatch_photo_view
      [] c = "capture-camera" -> dispatch_camera
      [] c = "capture-photo" -> dispatch_camera_photo
      [] c = "import-screenshot" -> import_screenshot_control

\* The commands that name a photo.
NamesPhoto(c) == c \in {"photo-get", "photo-remove", "photo-load-rgb565", "photo-load-view-rgb565"}

DispatchConstants ==
    /\ Commands # {} /\ Shell \notin Apps /\ MaxRequests \in Nat /\ MaxPhotos \in Nat
    /\ \A s \in Sizes \cup {Screen} : s[1] > 0 /\ s[2] > 0

-----------------------------------------------------------------------------
(***************************************************************************)
(* photo_view.rs: which pixel of the original a pixel of the screen shows. *)
(***************************************************************************)
fit_dimensions(source, target) ==
    LET Max1(n) == IF n < 1 THEN 1 ELSE n
    IN IF source[1] * target[2] > source[2] * target[1]
       THEN <<target[1], Max1((source[2] * target[1]) \div source[1])>>
       ELSE <<Max1((source[1] * target[2]) \div source[2]), target[2]>>

\* The pan in thousandths, -1000 to 1000, over the pixels that do not fit.
pan_origin(maximum, pan) == (maximum * (pan + 1000)) \div 2000

\* One axis of render_view: {} is the black border.
AxisView(source, display, target, pan) ==
    LET origin == pan_origin(IF display > target THEN display - target ELSE 0, pan)
        border == (IF target > display THEN target - display ELSE 0) \div 2
        At(t) == ((origin + t - border) * source) \div display
    IN [t \in 0..(target - 1) |->
          IF t < border \/ t >= border + display THEN {}
          ELSE {IF At(t) > source - 1 THEN source - 1 ELSE At(t)}]

Displayed(size, zoom) ==
    CASE zoom = 0 -> fit_dimensions(size, Screen)
      [] zoom = 1 -> <<(size[1] + 1) \div 2, (size[2] + 1) \div 2>>
      [] zoom = 2 -> size

render_view(size, zoom, pan) ==
    [axis \in 1..2 |-> AxisView(size[axis], Displayed(size, zoom)[axis], Screen[axis], pan)]

-----------------------------------------------------------------------------
Idle == [app |-> Shell, command |-> "", todo |-> <<>>, photo |-> 0, since |-> {}, shows |-> 0]

Photo(id) == {p \in photos : p.id = id}

TypeOK ==
    /\ \A a \in Apps : grant[a] \subseteq Declared[a]
    /\ foreground \in Apps \cup {Shell}
    /\ \A t \in Threads :
          /\ thread[t].app \in Apps \cup {Shell}
          /\ thread[t] = Idle \/ thread[t].command \in Commands
    /\ library \subseteq Threads /\ cached \subseteq Threads
    /\ Cardinality(library) <= 1 /\ Cardinality(cached) <= 1
    /\ \A p, q \in photos : p.id = q.id => p = q
    /\ last_id \in 0..MaxPhotos /\ Cardinality(view) <= 1
    /\ notifications \in 0..MaxPending /\ requests \in 0..MaxRequests /\ turns \in 0..MaxTurns

Init ==
    /\ grant = [a \in Apps |-> {}]
    /\ foreground = Shell
    /\ thread = [t \in Threads |-> Idle]
    /\ library = {} /\ cached = {}
    /\ photos = {} /\ last_id = 0 /\ view = {}
    /\ notifications = 0 /\ requests = 0 /\ turns = 0

\* What holds for an application now: the permissions allowed, the foreground.
Holds(a) ==
    IF a = Shell THEN {}
    ELSE grant[a] \cup (IF foreground = a THEN {"foreground"} ELSE {})

\* handle_broker_connection: a request is read, its descriptor checked.
Receive(t) ==
    /\ thread[t] = Idle /\ requests < MaxRequests
    /\ \E a \in Apps \cup {Shell}, c \in Commands, id \in 0..last_id :
          /\ (a = Shell) <=> (c = "import-screenshot")
          /\ (id = 0) <=> ~NamesPhoto(c)
          /\ thread' = [thread EXCEPT ![t] =
                [app |-> a, command |-> c, todo |-> Program(c), photo |-> id,
                 since |-> Holds(a), shows |-> 0]]
    /\ requests' = requests + 1
    /\ UNCHANGED <<grant, foreground, library, cached, photos, last_id, view, notifications, turns>>

At(t, s) == thread[t].todo # <<>> /\ Head(thread[t].todo)[1] = s

\* The answer is written; the guards of the locks end with it.
Answer(t) ==
    /\ thread' = [thread EXCEPT ![t] = Idle]
    /\ library' = library \ {t} /\ cached' = cached \ {t}

\* The next step, or the answer after the last one.
Continue(t) ==
    IF Len(thread[t].todo) = 1 THEN Answer(t)
    ELSE /\ thread' = [thread EXCEPT ![t].todo = Tail(@)]
         /\ UNCHANGED <<library, cached>>

Others == <<photos, last_id, view, notifications, requests>>

\* authorize_broker_caller: declared, not denied by the policy, and allowed by
\* the user; anything else is the answer.  A prompt it raises is answered by
\* Decide.
authorize_broker_caller(t) ==
    /\ At(t, "allow")
    /\ LET a == thread[t].app
           p == Head(thread[t].todo)[2]
       IN IF p \in (Declared[a] \ Denied) \cap grant[a] THEN Continue(t) ELSE Answer(t)
    /\ UNCHANGED <<grant, foreground, turns, Others>>

\* authenticate_broker_caller, and the decoding of a payload: passed or refused.
Check(t, ok) ==
    /\ At(t, "authenticate") \/ At(t, "decode")
    /\ IF ok THEN Continue(t) ELSE Answer(t)
    /\ UNCHANGED <<grant, foreground, turns, Others>>

\* runtime_app_is_foreground.
Foreground(t) ==
    /\ At(t, "foreground")
    /\ IF foreground = thread[t].app THEN Continue(t) ELSE Answer(t)
    /\ UNCHANGED <<grant, foreground, turns, Others>>

\* A call to the daemon of the capability, which succeeds or not; and the
\* answer to a disabled command.
Call(t, ok) ==
    /\ At(t, "call") \/ At(t, "read") \/ (At(t, "refuse") /\ ~ok)
    /\ IF ok THEN Continue(t) ELSE Answer(t)
    /\ UNCHANGED <<grant, foreground, turns, Others>>

\* NotificationQueue::enqueue; a full queue is ResourceExhausted.
Enqueue(t) ==
    /\ At(t, "enqueue")
    /\ notifications' = IF notifications < MaxPending THEN notifications + 1 ELSE notifications
    /\ Answer(t)
    /\ UNCHANGED <<grant, foreground, photos, last_id, view, requests, turns>>

\* lock_photo_library waits for the transaction of another thread.
lock_photo_library(t) ==
    /\ At(t, "lock") /\ library = {}
    /\ library' = {t}
    /\ thread' = [thread EXCEPT ![t].todo = Tail(@)]
    /\ UNCHANGED <<grant, foreground, cached, turns, Others>>

LockView(t) ==
    /\ At(t, "lock view") /\ cached = {}
    /\ cached' = {t}
    /\ thread' = [thread EXCEPT ![t].todo = Tail(@)]
    /\ UNCHANGED <<grant, foreground, library, turns, Others>>

\* import_app_photo, import_screenshot and import_camera_photo; failed: nothing
\* was committed.
Import(t, original, ok) ==
    /\ At(t, IF original = <<>> THEN "import" ELSE "import original")
    /\ IF ok /\ last_id < MaxPhotos
       THEN /\ last_id' = last_id + 1
            /\ photos' = photos \cup {[id |-> last_id + 1, number |-> requests, original |-> original]}
       ELSE UNCHANGED <<last_id, photos>>
    /\ Answer(t)
    /\ UNCHANGED <<grant, foreground, view, notifications, requests, turns>>

\* remove_photo; the decoded copy in the view cache stays.
Remove(t, ok) ==
    /\ At(t, "remove")
    /\ photos' = IF ok THEN photos \ Photo(thread[t].photo) ELSE photos
    /\ Answer(t)
    /\ UNCHANGED <<grant, foreground, last_id, view, notifications, requests, turns>>

\* photo_is_active.
photo_is_active(t, ok) ==
    /\ At(t, "active")
    /\ IF ok /\ Photo(thread[t].photo) # {} THEN Continue(t) ELSE Answer(t)
    /\ UNCHANGED <<grant, foreground, turns, Others>>

\* What the answer shows: the number of the import the pixels are from.
Shows(t, number) == thread' = [thread EXCEPT ![t].shows = number, ![t].todo = <<Step("send")>>]

\* open_blob, or load_legacy_photo and sealed_photo_descriptor.
Open(t) ==
    /\ At(t, "open")
    /\ \E p \in Photo(thread[t].photo) : Shows(t, p.number)
    /\ UNCHANGED <<grant, foreground, library, cached, turns, Others>>

\* PhotoViewCache::render: the copy in the cache is used when it is of the same
\* id.  A photo without an original is loaded as its frame, after both locks
\* have been dropped and from the permission on.
Render(t) ==
    /\ At(t, "render")
    /\ \E p \in Photo(thread[t].photo) :
          IF p.original = <<>>
          THEN /\ thread' = [thread EXCEPT ![t].todo = dispatch_photo_load]
               /\ library' = {} /\ cached' = {} /\ UNCHANGED view
          ELSE LET hit == {v \in view : v.id = p.id}
                   decoded == IF hit # {} THEN hit ELSE {p}
               IN /\ view' = decoded
                  /\ \E v \in decoded : Shows(t, v.number)
                  /\ UNCHANGED <<library, cached>>
    /\ UNCHANGED <<grant, foreground, photos, last_id, notifications, requests, turns>>

\* The error paths of the two, and the answer with the descriptor.
Finish(t) ==
    /\ At(t, "open") \/ At(t, "render") \/ At(t, "send")
    /\ Answer(t)
    /\ UNCHANGED <<grant, foreground, turns, Others>>

Turn == turns < MaxTurns /\ turns' = turns + 1

\* The requests of an application see what changes while they run.
Notice(a, fact) ==
    thread' = [t \in Threads |->
        IF thread[t].app = a /\ thread[t] # Idle
        THEN [thread[t] EXCEPT !.since = @ \cup {fact}] ELSE thread[t]]

\* The user answers a prompt with an allowance, or takes one back.
Decide(a, p) ==
    /\ Turn
    /\ \/ p \notin grant[a] /\ grant' = [grant EXCEPT ![a] = @ \cup {p}] /\ Notice(a, p)
       \/ p \in grant[a] /\ grant' = [grant EXCEPT ![a] = @ \ {p}] /\ UNCHANGED thread
    /\ UNCHANGED <<foreground, library, cached, Others>>

\* The foreground changes.
SetForeground(a) ==
    /\ Turn
    /\ foreground # a
    /\ foreground' = a
    /\ Notice(a, "foreground")
    /\ UNCHANGED <<grant, library, cached, Others>>

\* The steps of a thread that has a request.
Work(t) ==
    \/ authorize_broker_caller(t) \/ Foreground(t) \/ Enqueue(t) \/ lock_photo_library(t)
    \/ LockView(t) \/ Open(t) \/ Render(t) \/ Finish(t)
    \/ \E ok \in BOOLEAN : \/ Check(t, ok) \/ Call(t, ok) \/ Remove(t, ok)
                           \/ photo_is_active(t, ok)
                           \/ \E size \in Sizes \cup {<<>>} : Import(t, size, ok)

Next ==
    \/ \E t \in Threads : Receive(t) \/ Work(t)
    \/ \E a \in Apps : \E p \in Declared[a] : Decide(a, p)
    \/ \E a \in Apps \cup {Shell} : SetForeground(a)

Spec == Init /\ [][Next]_vars

-----------------------------------------------------------------------------
\* What a command must have had at some moment since it was received.
Needs(c) ==
    CASE c = "capture-photo" -> {"camera.capture", "photos.write", "foreground"}
      [] c = "capture-camera" -> {"camera.capture", "foreground"}
      [] c = "play-key-click" -> {"foreground"}
      [] c = "post-notification" -> {"notifications.post"}
      [] c \in {"http-get", "http-get-range"} -> {"network.client"}
      [] c \in {"play-audio", "play-audio-stereo-48k"} -> {"audio.playback"}
      [] c = "capture-audio" -> {"audio.capture"}
      [] c \in {"read-gpio", "write-gpio"} -> {"hardware.gpio"}
      [] c \in {"send-lora", "receive-lora"} -> {"radio.lora"}
      [] c \in {"photo-remove", "photo-import-rgb565", "photo-index-get"} -> {"photos.write"}
      [] c \in {"photo-get", "photo-load-rgb565", "photo-load-view-rgb565"} -> {"photos.read"}
      [] OTHER -> {}

Effects == {"call", "read", "enqueue", "import", "import original", "remove", "open", "render", "send"}

\* Nothing is done for an application that did not have every permission of the
\* command, and the foreground where it takes that, since the request came,
\* although decisions and switches happen between the steps.
DoneWithConsent ==
    \A t \in Threads :
        thread[t].todo # <<>> /\ Head(thread[t].todo)[1] \in Effects =>
            Needs(thread[t].command) \subseteq thread[t].since

\* The library is read and changed by the holder of its lock only, and the
\* answer shows the photo that was asked for, which is in the library still:
\* neither a removal by another thread nor the decoded copy of an earlier view
\* comes between.
ShowsThePhoto ==
    \A t \in Threads :
        /\ thread[t].todo # <<>> /\ Head(thread[t].todo)[1]
              \in {"read", "remove", "import", "import original", "active", "open", "render", "send"}
              => library = {t}
        /\ thread[t].shows # 0 =>
              \E p \in Photo(thread[t].photo) : p.number = thread[t].shows

\* The threads never wait for each other in a circle: while one waits for a
\* lock another, that holds it, can go on.
NoCircle ==
    /\ \A t \in Threads : At(t, "lock") => t \notin library \cup cached
    /\ \A t \in Threads : At(t, "lock view") => t \notin cached
    /\ cached \subseteq library

\* Every pixel shown is a pixel of the original, in order and without wrapping,
\* at every zoom and at both ends of the pan.
ViewInside ==
    \A v \in view, zoom \in 0..2, pan \in {-1000, -1, 0, 999, 1000}, axis \in 1..2 :
        LET shown == render_view(v.original, zoom, pan)[axis]
            length == v.original[axis]
            display == Displayed(v.original, zoom)[axis]
        IN /\ \A i \in DOMAIN shown : shown[i] \subseteq 0..(length - 1)
           /\ \A i, j \in DOMAIN shown : i < j => \A x \in shown[i], y \in shown[j] : x <= y
           /\ Cardinality({i \in DOMAIN shown : shown[i] # {}})
                 = (IF display < Screen[axis] THEN display ELSE Screen[axis])
           /\ pan = -1000 /\ display >= Screen[axis] => shown[0] = {0}
           /\ pan = 1000 /\ zoom = 2 /\ length >= Screen[axis] =>
                 shown[Screen[axis] - 1] = {length - 1}

\* A broker request has an effect only with the permissions of its command, a
\* view shows the photo it names, no two threads wait for each other's lock, and
\* the part of a photo that is shown lies inside it.
DispatchSound == TypeOK /\ DoneWithConsent /\ ShowsThePhoto /\ NoCircle /\ ViewInside
=============================================================================
